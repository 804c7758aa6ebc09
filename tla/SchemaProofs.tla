----------------------------- MODULE SchemaProofs -----------------------------
(***************************************************************************)
(* Proofs about MigrationRunner, for any set of migrations in the first    *)
(* build, any order of release the model allows, any number of processes   *)
(* that run them, whichever runs are refused and whatever is reverted.     *)
(*                                                                         *)
(* The schema stays well formed: every statement keeps it so, hence every  *)
(* migration does.  And no migration is recorded twice unless it looks     *)
(* before it changes anything: each of the others leaves a mark in the     *)
(* schema that stays as long as its row in the history does, and that      *)
(* makes a second run of it fail.                                          *)
(*                                                                         *)
(* Once every migration is recorded the schema serves the entities.  Each  *)
(* migration gives them something (Gifts): a table, a column, a column     *)
(* that may stay NULL, a label of an enum type.  No up() takes a gift      *)
(* away; a down() takes its own and those upon the tables it drops         *)
(* (Taken).  These are not recorded any more, for their migrations are     *)
(* younger, and what is recorded is in the order of the timestamps but for *)
(* those that look first, upon which there is nothing.                     *)
(***************************************************************************)
EXTENDS MigrationRunner, SequenceTheorems, WellFoundedInduction, TLAPS

-----------------------------------------------------------------------------
(* What a well formed schema is.                                           *)

IsTable(table) == /\ table = [required |-> table.required,
                              columns |-> table.columns]
                  /\ table.required \subseteq table.columns

\* No foreign key dangles, nor does the view; a row is in a table, a NULL in a
\* row, and not in a column that must have a value.
Sound(s) ==
  /\ s = [tables |-> s.tables, references |-> s.references,
          viewed |-> s.viewed, labels |-> s.labels, rows |-> s.rows,
          nulls |-> s.nulls, ok |-> s.ok]
  /\ s.tables = [table \in DOMAIN s.tables |-> s.tables[table]]
  /\ \A table \in DOMAIN s.tables : IsTable(s.tables[table])
  /\ \A reference \in s.references :
       /\ reference[2] \in ColumnsOf(s, reference[1])
       /\ Exists(s, reference[3])
  /\ s.viewed \subseteq DOMAIN s.tables
  /\ s.rows \subseteq DOMAIN s.tables
  /\ \A null \in s.nulls : null[1] \in s.rows
  /\ \A table \in DOMAIN s.tables : \A column \in s.tables[table].required :
       <<table, column>> \notin s.nulls

Kinds == {"create", "create missing", "drop table", "add", "add missing",
          "drop", "drop present", "require", "relax", "refer",
          "refer missing", "unrefer", "unrefer all", "type", "label",
          "label if possible", "drop type", "view", "drop view",
          "delete rows"}

\* What a statement must be to keep a schema well formed.
WellFormed(statement) ==
  /\ statement.do \in Kinds
  /\ statement.do \in {"create", "create missing"} => IsTable(statement.columns)
  /\ statement.do = "add" => statement.required = {}

-----------------------------------------------------------------------------
(* Each statement keeps a schema well formed.                              *)

\* What EXCEPT makes of a schema.
LEMMA Parts ==
  ASSUME NEW s, Sound(s), NEW x
  PROVE  /\ [s EXCEPT !.ok = x] =
              [tables |-> s.tables, references |-> s.references,
               viewed |-> s.viewed, labels |-> s.labels, rows |-> s.rows,
               nulls |-> s.nulls, ok |-> x]
         /\ [s EXCEPT !.references = x] =
              [tables |-> s.tables, references |-> x,
               viewed |-> s.viewed, labels |-> s.labels, rows |-> s.rows,
               nulls |-> s.nulls, ok |-> s.ok]
         /\ [s EXCEPT !.tables = x] =
              [tables |-> x, references |-> s.references,
               viewed |-> s.viewed, labels |-> s.labels, rows |-> s.rows,
               nulls |-> s.nulls, ok |-> s.ok]
         /\ [s EXCEPT !.viewed = x] =
              [tables |-> s.tables, references |-> s.references,
               viewed |-> x, labels |-> s.labels, rows |-> s.rows,
               nulls |-> s.nulls, ok |-> s.ok]
         /\ [s EXCEPT !.labels = x] =
              [tables |-> s.tables, references |-> s.references,
               viewed |-> s.viewed, labels |-> x, rows |-> s.rows,
               nulls |-> s.nulls, ok |-> s.ok]
<1>1. PICK tb, rf, vw, lb, rw, nl, k :
        s = [tables |-> tb, references |-> rf, viewed |-> vw, labels |-> lb,
             rows |-> rw, nulls |-> nl, ok |-> k]
  BY DEF Sound
<1>2. QED
  BY <1>1

LEMMA Whole ==
  ASSUME NEW s, Sound(s), NEW t, DOMAIN t = DOMAIN s,
         t = [part \in DOMAIN t |-> t[part]]
  PROVE  t = [tables |-> t.tables, references |-> t.references,
              viewed |-> t.viewed, labels |-> t.labels,
              rows |-> t.rows, nulls |-> t.nulls, ok |-> t.ok]
<1>1. DOMAIN s = {"tables", "references", "viewed", "labels", "rows", "nulls",
                  "ok"}
  BY DEF Sound
<1>2. QED
  BY <1>1

LEMMA Fields ==
  ASSUME NEW s, Sound(s)
  PROVE  DOMAIN s = {"tables", "references", "viewed", "labels", "rows",
                     "nulls", "ok"}
BY DEF Sound

LEMMA Refused ==
  ASSUME NEW s, Sound(s)
  PROVE  Sound([s EXCEPT !.ok = FALSE])
<1>1. PICK t : t = [s EXCEPT !.ok = FALSE]
  OBVIOUS
<1>2. t = [tables |-> s.tables, references |-> s.references,
           viewed |-> s.viewed, labels |-> s.labels, rows |-> s.rows,
           nulls |-> s.nulls, ok |-> FALSE]
  BY <1>1, Parts
<1>3. Sound(t)
  BY <1>2 DEF Sound, ColumnsOf, Exists
<1>4. QED
  BY <1>1, <1>3

LEMMA WithReferencesSound ==
  ASSUME NEW s, Sound(s), NEW table, NEW references
  PROVE  Sound(WithReferences(s, table, references))
<1> DEFINE added == {<<table, reference[1], reference[2]>> :
                       reference \in references}
<1>1. PICK t : t = [s EXCEPT !.references = @ \cup added]
  OBVIOUS
<1>2. t = [tables |-> s.tables, references |-> s.references \cup added,
           viewed |-> s.viewed, labels |-> s.labels, rows |-> s.rows,
           nulls |-> s.nulls, ok |-> s.ok]
  <2> HIDE DEF added
  <2>1. QED
    BY <1>1, Parts
<1>3. ASSUME Exists(s, table),
             \A reference \in references :
               /\ reference[1] \in ColumnsOf(s, table)
               /\ Exists(s, reference[2])
      PROVE  Sound(t)
  <2>1. \A reference \in added :
          /\ reference[2] \in ColumnsOf(s, reference[1])
          /\ Exists(s, reference[3])
    BY <1>3
  <2> HIDE DEF added
  <2>2. QED
    BY <1>2, <2>1 DEF Sound, ColumnsOf, Exists
<1>4. QED
  BY <1>1, <1>3, Refused DEF WithReferences, If

LEMMA WithTableSound ==
  ASSUME NEW s, Sound(s), NEW table, NEW columns, IsTable(columns),
         NEW references
  PROVE  Sound(WithTable(s, table, columns, references))
<1>1. PICK tables : tables = Extended(s.tables, table, columns)
  OBVIOUS
<1>2. PICK t : t = [s EXCEPT !.tables = tables]
  OBVIOUS
<1>3. t = [tables |-> tables, references |-> s.references,
           viewed |-> s.viewed, labels |-> s.labels, rows |-> s.rows,
           nulls |-> s.nulls, ok |-> s.ok]
  BY <1>2, Parts
<1>4. ASSUME ~Exists(s, table)
      PROVE  Sound(t)
  <2>1. /\ DOMAIN tables = DOMAIN s.tables \cup {table}
        /\ tables[table] = columns
        /\ tables = [other \in DOMAIN tables |-> tables[other]]
        /\ \A other \in DOMAIN s.tables :
             other # table /\ tables[other] = s.tables[other]
    BY <1>1, <1>4 DEF Exists, Extended
  <2>2. \A column : <<table, column>> \notin s.nulls
    BY <1>4 DEF Sound, Exists
  <2>3. QED
    BY <1>3, <2>1, <2>2 DEF Sound, ColumnsOf, Exists
<1>5. QED
  BY <1>1, <1>2, <1>4, Refused, WithReferencesSound DEF WithTable, If

LEMMA WithoutTableSound ==
  ASSUME NEW s, Sound(s), NEW table
  PROVE  Sound(WithoutTable(s, table))
<1>1. PICK tables, references, nulls :
        /\ tables = [other \in DOMAIN s.tables \ {table} |-> s.tables[other]]
        /\ references = {reference \in s.references : reference[1] # table}
        /\ nulls = {null \in s.nulls : null[1] # table}
  OBVIOUS
<1>2. PICK t : t = [s EXCEPT !.tables = tables, !.references = references,
                             !.rows = s.rows \ {table}, !.nulls = nulls]
  OBVIOUS
<1>3. t = [tables |-> tables, references |-> references,
           viewed |-> s.viewed, labels |-> s.labels,
           rows |-> s.rows \ {table}, nulls |-> nulls, ok |-> s.ok]
  <2>1. /\ DOMAIN t = DOMAIN s /\ t = [part \in DOMAIN t |-> t[part]]
        /\ t.tables = tables /\ t.references = references
        /\ t.viewed = s.viewed /\ t.labels = s.labels
        /\ t.rows = s.rows \ {table} /\ t.nulls = nulls /\ t.ok = s.ok
    BY <1>2, Fields
  <2>2. QED
    BY <2>1, Whole
<1>4. ASSUME Exists(s, table), table \notin s.viewed,
             \A reference \in s.references :
               reference[3] = table => reference[1] = table
      PROVE  Sound(t)
  <2>1. /\ DOMAIN tables = DOMAIN s.tables \ {table}
        /\ tables = [other \in DOMAIN tables |-> tables[other]]
        /\ \A other \in DOMAIN tables : tables[other] = s.tables[other]
    BY <1>1
  <2>2. \A reference \in references :
          /\ reference[1] # table /\ reference[3] # table
          /\ reference \in s.references
    BY <1>1, <1>4
  <2>3. \A null \in nulls : null \in s.nulls /\ null[1] # table
    BY <1>1
  <2>4. QED
    BY <1>3, <1>4, <2>1, <2>2, <2>3 DEF Sound, ColumnsOf, Exists
<1>5. QED
  BY <1>1, <1>2, <1>4, Refused DEF WithoutTable, If

LEMMA WithColumnsSound ==
  ASSUME NEW s, Sound(s), NEW table, NEW required, NEW columns,
         required \subseteq columns
  PROVE  Sound(WithColumns(s, table, required, columns))
<1>1. PICK tables : tables =
        [s.tables EXCEPT ![table] =
           [required |-> @.required \cup required,
            columns |-> @.columns \cup columns]]
  OBVIOUS
<1>2. PICK t : t = [s EXCEPT !.tables = tables]
  OBVIOUS
<1>3. t = [tables |-> tables, references |-> s.references,
           viewed |-> s.viewed, labels |-> s.labels, rows |-> s.rows,
           nulls |-> s.nulls, ok |-> s.ok]
  BY <1>2, Parts
<1>4. ASSUME Exists(s, table), required # {} => table \notin s.rows
      PROVE  Sound(t)
  <2>1. /\ DOMAIN tables = DOMAIN s.tables
        /\ tables = [other \in DOMAIN tables |-> tables[other]]
        /\ \A other \in DOMAIN tables :
             other # table => tables[other] = s.tables[other]
        /\ tables[table] =
             [required |-> s.tables[table].required \cup required,
              columns |-> s.tables[table].columns \cup columns]
    BY <1>1, <1>4 DEF Sound, Exists, IsTable
  <2>2. \A column \in required : <<table, column>> \notin s.nulls
    BY <1>4 DEF Sound
  <2>3. \A other \in DOMAIN tables :
          /\ IsTable(tables[other])
          /\ \A column \in tables[other].required :
               <<other, column>> \notin s.nulls
    <3> SUFFICES ASSUME NEW other \in DOMAIN tables
                 PROVE  /\ IsTable(tables[other])
                        /\ \A column \in tables[other].required :
                             <<other, column>> \notin s.nulls
      OBVIOUS
    <3>1. CASE other = table
      BY <2>1, <2>2, <3>1 DEF Sound, IsTable
    <3>2. CASE other # table
      BY <2>1, <3>2 DEF Sound
    <3>3. QED
      BY <3>1, <3>2
  <2>4. \A other : ColumnsOf(s, other) \subseteq ColumnsOf(t, other)
    BY <1>3, <2>1 DEF ColumnsOf, Exists
  <2>5. QED
    BY <1>3, <2>1, <2>3, <2>4 DEF Sound, Exists
<1>5. QED
  BY <1>1, <1>2, <1>4, Refused DEF WithColumns, If

LEMMA WithoutColumnsSound ==
  ASSUME NEW s, Sound(s), NEW table, NEW columns
  PROVE  Sound(WithoutColumns(s, table, columns))
<1>1. PICK tables, references, nulls :
        /\ tables = [s.tables EXCEPT ![table] =
                       [required |-> @.required \ columns,
                        columns |-> @.columns \ columns]]
        /\ references = {reference \in s.references :
                           reference[1] = table => reference[2] \notin columns}
        /\ nulls = {null \in s.nulls :
                      null[1] = table => null[2] \notin columns}
  OBVIOUS
<1>2. PICK t : t = [s EXCEPT !.tables = tables, !.references = references,
                             !.nulls = nulls]
  OBVIOUS
<1>3. t = [tables |-> tables, references |-> references,
           viewed |-> s.viewed, labels |-> s.labels, rows |-> s.rows,
           nulls |-> nulls, ok |-> s.ok]
  <2>1. /\ DOMAIN t = DOMAIN s /\ t = [part \in DOMAIN t |-> t[part]]
        /\ t.tables = tables /\ t.references = references
        /\ t.viewed = s.viewed /\ t.labels = s.labels
        /\ t.rows = s.rows /\ t.nulls = nulls /\ t.ok = s.ok
    BY <1>2, Fields
  <2>2. QED
    BY <2>1, Whole
<1>4. /\ DOMAIN tables = DOMAIN s.tables
      /\ tables = [other \in DOMAIN tables |-> tables[other]]
      /\ \A other \in DOMAIN tables :
           other # table => tables[other] = s.tables[other]
      /\ table \in DOMAIN tables =>
           tables[table] = [required |-> s.tables[table].required \ columns,
                            columns |-> s.tables[table].columns \ columns]
  BY <1>1 DEF Sound, IsTable
<1>5. \A other \in DOMAIN tables :
        /\ IsTable(tables[other])
        /\ tables[other].required \subseteq s.tables[other].required
  <2> SUFFICES ASSUME NEW other \in DOMAIN tables
               PROVE  /\ IsTable(tables[other])
                      /\ tables[other].required \subseteq
                           s.tables[other].required
    OBVIOUS
  <2>1. CASE other = table
    BY <1>4, <2>1 DEF Sound, IsTable
  <2>2. CASE other # table
    BY <1>4, <2>2 DEF Sound
  <2>3. QED
    BY <2>1, <2>2
<1>6. \A reference \in references :
        /\ reference[2] \in ColumnsOf(t, reference[1])
        /\ Exists(t, reference[3])
  BY <1>1, <1>3, <1>4 DEF Sound, ColumnsOf, Exists
<1>7. nulls \subseteq s.nulls
  BY <1>1
<1>8. Sound(t)
  BY <1>3, <1>4, <1>5, <1>6, <1>7 DEF Sound
<1>9. QED
  BY <1>1, <1>2, <1>8, Refused DEF WithoutColumns, If

LEMMA WithoutReferencesSound ==
  ASSUME NEW s, Sound(s), NEW table, NEW columns
  PROVE  Sound(WithoutReferences(s, table, columns))
<1>1. PICK references :
        references = {reference \in s.references :
                       reference[1] = table => reference[2] \notin columns}
  OBVIOUS
<1>2. PICK t : t = [s EXCEPT !.references = references]
  OBVIOUS
<1>3. t = [tables |-> s.tables, references |-> references,
           viewed |-> s.viewed, labels |-> s.labels, rows |-> s.rows,
           nulls |-> s.nulls, ok |-> s.ok]
  BY <1>2, Parts
<1>4. references \subseteq s.references
  BY <1>1
<1>5. Sound(t)
  BY <1>3, <1>4 DEF Sound, ColumnsOf, Exists
<1>6. QED
  BY <1>1, <1>2, <1>5 DEF WithoutReferences

LEMMA RequiredSound ==
  ASSUME NEW s, Sound(s), NEW table, NEW required,
         table \in DOMAIN s.tables,
         required \subseteq s.tables[table].columns,
         \A column \in required : <<table, column>> \notin s.nulls
  PROVE  Sound([s EXCEPT !.tables[table].required = required])
<1>1. PICK tables :
        tables = [s.tables EXCEPT ![table].required = required]
  OBVIOUS
<1>2. PICK t : t = [s EXCEPT !.tables[table].required = required]
  OBVIOUS
<1>3. t = [tables |-> tables, references |-> s.references,
           viewed |-> s.viewed, labels |-> s.labels, rows |-> s.rows,
           nulls |-> s.nulls, ok |-> s.ok]
  BY <1>1, <1>2, Parts
<1>4. /\ DOMAIN tables = DOMAIN s.tables
      /\ tables = [other \in DOMAIN tables |-> tables[other]]
      /\ \A other \in DOMAIN tables :
           other # table => tables[other] = s.tables[other]
      /\ tables[table] = [required |-> required,
                          columns |-> s.tables[table].columns]
  BY <1>1 DEF Sound, IsTable
<1>5. \A other \in DOMAIN tables :
        /\ IsTable(tables[other])
        /\ tables[other].columns = s.tables[other].columns
        /\ \A column \in tables[other].required :
             <<other, column>> \notin s.nulls
  <2> SUFFICES ASSUME NEW other \in DOMAIN tables
               PROVE  /\ IsTable(tables[other])
                      /\ tables[other].columns = s.tables[other].columns
                      /\ \A column \in tables[other].required :
                           <<other, column>> \notin s.nulls
    OBVIOUS
  <2>1. CASE other = table
    BY <1>4, <2>1 DEF Sound, IsTable
  <2>2. CASE other # table
    BY <1>4, <2>2 DEF Sound
  <2>3. QED
    BY <2>1, <2>2
<1>6. \A other : ColumnsOf(t, other) = ColumnsOf(s, other)
  BY <1>3, <1>4, <1>5 DEF ColumnsOf, Exists
<1>7. Sound(t)
  BY <1>3, <1>4, <1>5, <1>6 DEF Sound, Exists
<1>8. QED
  BY <1>2, <1>7

LEMMA LabelsSound ==
  ASSUME NEW s, Sound(s), NEW labels
  PROVE  Sound([s EXCEPT !.labels = labels])
<1>1. PICK t : t = [s EXCEPT !.labels = labels]
  OBVIOUS
<1>2. t = [tables |-> s.tables, references |-> s.references,
           viewed |-> s.viewed, labels |-> labels, rows |-> s.rows,
           nulls |-> s.nulls, ok |-> s.ok]
  BY <1>1, Parts
<1>3. Sound(t)
  BY <1>2 DEF Sound, ColumnsOf, Exists
<1>4. QED
  BY <1>1, <1>3

LEMMA ViewedSound ==
  ASSUME NEW s, Sound(s), NEW viewed, viewed \subseteq DOMAIN s.tables
  PROVE  Sound([s EXCEPT !.viewed = viewed])
<1>1. PICK t : t = [s EXCEPT !.viewed = viewed]
  OBVIOUS
<1>2. t = [tables |-> s.tables, references |-> s.references,
           viewed |-> viewed, labels |-> s.labels, rows |-> s.rows,
           nulls |-> s.nulls, ok |-> s.ok]
  BY <1>1, Parts
<1>3. Sound(t)
  BY <1>2 DEF Sound, ColumnsOf, Exists
<1>4. QED
  BY <1>1, <1>3

LEMMA RowsSound ==
  ASSUME NEW s, Sound(s), NEW rows, NEW nulls,
         rows \subseteq DOMAIN s.tables,
         \A null \in nulls : null[1] \in rows,
         \A table \in DOMAIN s.tables :
           \A column \in s.tables[table].required :
             <<table, column>> \notin nulls
  PROVE  Sound([s EXCEPT !.rows = rows, !.nulls = nulls])
<1>1. PICK t : t = [s EXCEPT !.rows = rows, !.nulls = nulls]
  OBVIOUS
<1>2. t = [tables |-> s.tables, references |-> s.references,
           viewed |-> s.viewed, labels |-> s.labels, rows |-> rows,
           nulls |-> nulls, ok |-> s.ok]
  <2>1. /\ DOMAIN t = DOMAIN s /\ t = [part \in DOMAIN t |-> t[part]]
        /\ t.tables = s.tables /\ t.references = s.references
        /\ t.viewed = s.viewed /\ t.labels = s.labels
        /\ t.rows = rows /\ t.nulls = nulls /\ t.ok = s.ok
    BY <1>1, Fields
  <2>2. QED
    BY <2>1, Whole
<1>3. Sound(t)
  BY <1>2 DEF Sound, ColumnsOf, Exists
<1>4. QED
  BY <1>1, <1>3

LEMMA EffectSound ==
  ASSUME NEW s, Sound(s), NEW statement, WellFormed(statement)
  PROVE  Sound(Effect(s, statement))
<1> DEFINE table == statement.table
           e == Effect(s, statement)
<1>1. CASE statement.do = "create"
  <2>1. e = WithTable(s, table, statement.columns, statement.references)
    BY <1>1 DEF Effect
  <2>2. QED
    BY <1>1, <2>1, WithTableSound DEF WellFormed
<1>2. CASE statement.do = "create missing"
  <2>1. \/ e = s
        \/ e = WithTable(s, table, statement.columns, statement.references)
    BY <1>2 DEF Effect
  <2>2. QED
    BY <1>2, <2>1, WithTableSound DEF WellFormed
<1>3. CASE statement.do = "drop table"
  <2>1. e = WithoutTable(s, table)
    BY <1>3 DEF Effect
  <2>2. QED
    BY <2>1, WithoutTableSound
<1>4. CASE statement.do = "add"
  <2>1. e = WithColumns(s, table, {}, statement.columns)
    BY <1>4 DEF Effect, WellFormed
  <2>2. QED
    BY <2>1, WithColumnsSound
<1>5. CASE statement.do = "add missing"
  <2>1. e = WithColumns(s, table,
                        statement.required \cap Missing(s, statement),
                        Missing(s, statement))
    BY <1>5 DEF Effect
  <2>2. QED
    BY <2>1, WithColumnsSound
<1>6. CASE statement.do \in {"drop", "drop present"}
  <2>1. \E columns : e = WithoutColumns(s, table, columns)
    BY <1>6 DEF Effect
  <2>2. QED
    BY <2>1, WithoutColumnsSound
<1>7. CASE statement.do = "require"
  <2>1. \/ e = [s EXCEPT !.ok = FALSE]
        \/ /\ statement.column \in ColumnsOf(s, table)
           /\ <<table, statement.column>> \notin s.nulls
           /\ e = [s EXCEPT !.tables[table].required =
                              @ \cup {statement.column}]
    BY <1>7 DEF Effect, If
  <2>2. ASSUME statement.column \in ColumnsOf(s, table),
               <<table, statement.column>> \notin s.nulls
        PROVE  Sound([s EXCEPT !.tables[table].required =
                                 s.tables[table].required
                                   \cup {statement.column}])
    <3>1. /\ table \in DOMAIN s.tables
          /\ statement.column \in s.tables[table].columns
      BY <2>2 DEF ColumnsOf, Exists
    <3>2. PICK required : required = s.tables[table].required
                                       \cup {statement.column}
      OBVIOUS
    <3>3. /\ required \subseteq s.tables[table].columns
          /\ \A column \in required : <<table, column>> \notin s.nulls
      BY <2>2, <3>1, <3>2 DEF Sound, IsTable
    <3>4. QED
      BY <3>1, <3>2, <3>3, RequiredSound
  <2>3. QED
    BY <2>1, <2>2, Refused
<1>8. CASE statement.do = "relax"
  <2>1. \/ e = [s EXCEPT !.ok = FALSE]
        \/ /\ statement.column \in ColumnsOf(s, table)
           /\ e = [s EXCEPT !.tables[table].required =
                              @ \ {statement.column}]
    BY <1>8 DEF Effect, If
  <2>2. ASSUME statement.column \in ColumnsOf(s, table)
        PROVE  Sound([s EXCEPT !.tables[table].required =
                                 s.tables[table].required
                                   \ {statement.column}])
    <3>1. table \in DOMAIN s.tables
      BY <2>2 DEF ColumnsOf, Exists
    <3>2. PICK required : required = s.tables[table].required
                                       \ {statement.column}
      OBVIOUS
    <3>3. /\ required \subseteq s.tables[table].columns
          /\ \A column \in required : <<table, column>> \notin s.nulls
      BY <3>1, <3>2 DEF Sound, IsTable
    <3>4. QED
      BY <3>1, <3>2, <3>3, RequiredSound
  <2>3. QED
    BY <2>1, <2>2, Refused
<1>9. CASE statement.do \in {"refer", "refer missing"}
  <2>1. \/ e = [s EXCEPT !.ok = FALSE]
        \/ e = WithReferences(s, table, statement.references)
    BY <1>9 DEF Effect, If
  <2>2. QED
    BY <2>1, Refused, WithReferencesSound
<1>10. CASE statement.do \in {"unrefer", "unrefer all"}
  <2>1. \E columns : e = WithoutReferences(s, table, columns)
    BY <1>10 DEF Effect
  <2>2. QED
    BY <2>1, WithoutReferencesSound
<1>11. CASE statement.do \in {"type", "label", "label if possible",
                              "drop type"}
  <2>1. \/ e = s
        \/ e = [s EXCEPT !.ok = FALSE]
        \/ \E labels : e = [s EXCEPT !.labels = labels]
    BY <1>11 DEF Effect, If, WithLabels
  <2>2. QED
    BY <2>1, Refused, LabelsSound
<1>12. CASE statement.do \in {"view", "drop view"}
  <2>1. \/ e = [s EXCEPT !.ok = FALSE]
        \/ \E viewed \in SUBSET DOMAIN s.tables :
             e = [s EXCEPT !.viewed = viewed]
    BY <1>12 DEF Effect, If
  <2>2. QED
    BY <2>1, Refused, ViewedSound
<1>13. CASE statement.do = "delete rows"
  <2>1. PICK rows, nulls : /\ rows = s.rows \ {table}
                           /\ nulls = {null \in s.nulls : null[1] # table}
    OBVIOUS
  <2>2. e = [s EXCEPT !.rows = rows, !.nulls = nulls]
    BY <1>13, <2>1 DEF Effect
  <2>3. /\ rows \subseteq DOMAIN s.tables
        /\ nulls \subseteq s.nulls
        /\ \A null \in nulls : null[1] \in rows
        /\ \A other \in DOMAIN s.tables :
             \A column \in s.tables[other].required :
               <<other, column>> \notin nulls
    BY <2>1 DEF Sound
  <2>4. Sound([s EXCEPT !.rows = rows, !.nulls = nulls])
    BY <2>3, RowsSound
  <2>5. QED
    BY <2>2, <2>4
<1>14. QED
  BY <1>1, <1>2, <1>3, <1>4, <1>5, <1>6, <1>7, <1>8, <1>9, <1>10, <1>11,
     <1>12, <1>13 DEF WellFormed, Kinds

-----------------------------------------------------------------------------
(* The recursive functions.  Each exists, by induction on how far it goes. *)

LEMMA Smallest ==
  ASSUME NEW F \in SUBSET Nat, F # {}
  PROVE  \E k \in F : k = 0 \/ k - 1 \in Nat \ F
<1>1. PICK k \in F : \A m \in F : <<m, k>> \notin OpToRel(<, Nat)
  BY NatLessThanWellFounded, WFMin
<1>2. \A m \in F : ~(m < k)
  BY <1>1 DEF OpToRel
<1>3. QED
  BY <1>2

\* f[n] is the schema after n of the statements, for n up to k.
Executes(f, s, statements, k) ==
  f = [n \in 0..k |->
         IF n = 0 THEN s
         ELSE IF f[n - 1].ok THEN Effect(f[n - 1], statements[n])
         ELSE f[n - 1]]

LEMMA ExecuteIs ==
  ASSUME NEW s, NEW statements, Len(statements) \in Nat
  PROVE  \E f : /\ Executes(f, s, statements, Len(statements))
                /\ Execute(s, statements) = f[Len(statements)]
<1> DEFINE F == {k \in Nat : ~ \E f : Executes(f, s, statements, k)}
<1>1. F = {}
  <2>1. SUFFICES ASSUME F # {} PROVE FALSE
    OBVIOUS
  <2>2. F \in SUBSET Nat
    OBVIOUS
  <2>3. PICK k \in F : k = 0 \/ k - 1 \in Nat \ F
    <3> HIDE DEF F
    <3>1. QED
      BY <2>1, <2>2, Smallest
  <2>4. k # 0
    <3>1. Executes([n \in 0..0 |-> s], s, statements, 0)
      BY DEF Executes
    <3>2. QED
      BY <2>3, <3>1
  <2>5. PICK f : Executes(f, s, statements, k - 1)
    BY <2>3, <2>4
  <2>6. k \in Nat /\ k - 1 \in Nat
    BY <2>3, <2>4
  <2> DEFINE last == IF f[k - 1].ok THEN Effect(f[k - 1], statements[k])
                     ELSE f[k - 1]
             h == [n \in 0..k |-> IF n = k THEN last ELSE f[n]]
  <2>7. Executes(h, s, statements, k)
    <3>1. ASSUME NEW n \in 0..k
          PROVE  h[n] = IF n = 0 THEN s
                        ELSE IF h[n - 1].ok
                        THEN Effect(h[n - 1], statements[n])
                        ELSE h[n - 1]
      <4>1. n # 0 => n - 1 \in 0..k /\ n - 1 # k
        BY <2>6
      <4>2. n # 0 => h[n - 1] = f[n - 1]
        BY <4>1
      <4>3. CASE n = k
        BY <2>4, <4>2, <4>3
      <4>4. CASE n # k
        <5>1. n \in 0..(k - 1) /\ h[n] = f[n]
          BY <2>6, <4>4
        <5> HIDE DEF h
        <5>2. QED
          BY <2>5, <4>2, <5>1 DEF Executes
      <4>5. QED
        BY <4>3, <4>4
    <3>2. h = [n \in 0..k |-> h[n]]
      OBVIOUS
    <3> HIDE DEF h
    <3>3. QED
      BY <3>1, <3>2 DEF Executes
  <2>8. QED
    <3> HIDE DEF h
    <3>1. QED
      BY <2>3, <2>7
<1> DEFINE after == CHOOSE f : Executes(f, s, statements, Len(statements))
<1>2. Executes(after, s, statements, Len(statements))
  BY <1>1
<1>3. Execute(s, statements) = after[Len(statements)]
  BY DEF Execute, Executes
<1>4. QED
  <2> HIDE DEF after
  <2>1. QED
    BY <1>2, <1>3

LEMMA ExecuteSound ==
  ASSUME NEW s, Sound(s), NEW statements, Len(statements) \in Nat,
         \A n \in 1..Len(statements) : WellFormed(statements[n])
  PROVE  Sound(Execute(s, statements))
<1>1. PICK f : /\ Executes(f, s, statements, Len(statements))
               /\ Execute(s, statements) = f[Len(statements)]
  BY ExecuteIs
<1> DEFINE F == {n \in 0..Len(statements) : ~Sound(f[n])}
<1>2. SUFFICES ASSUME F # {} PROVE FALSE
  BY <1>1
<1>3. F \in SUBSET Nat
  OBVIOUS
<1>4. PICK n \in F : n = 0 \/ n - 1 \in Nat \ F
  <2> HIDE DEF F
  <2>1. QED
    BY <1>2, <1>3, Smallest
<1>5. CASE n = 0
  <2>1. f[n] = s
    BY <1>1, <1>5 DEF Executes
  <2>2. QED
    BY <1>4, <2>1
<1>6. CASE n # 0
  <2>1. n \in 1..Len(statements) /\ Sound(f[n - 1])
    BY <1>4, <1>6
  <2>2. f[n] = IF f[n - 1].ok THEN Effect(f[n - 1], statements[n])
               ELSE f[n - 1]
    BY <1>1, <1>6, <2>1 DEF Executes
  <2>3. QED
    BY <1>4, <2>1, <2>2, EffectSound
<1>7. QED
  BY <1>5, <1>6

\* f[n] is the schema after n of the migrations, for n up to k.
Migrates(f, s, names, k) ==
  f = [n \in 0..k |->
         IF n = 0 THEN s
         ELSE Execute(f[n - 1], Migration[names[n]].up)]

LEMMA AfterIs ==
  ASSUME NEW names, Len(names) \in Nat
  PROVE  \E f : /\ Migrates(f, schema, names, Len(names))
                /\ After(names) = f[Len(names)]
<1> DEFINE F == {k \in Nat : ~ \E f : Migrates(f, schema, names, k)}
<1>1. F = {}
  <2>1. SUFFICES ASSUME F # {} PROVE FALSE
    OBVIOUS
  <2>2. F \in SUBSET Nat
    OBVIOUS
  <2>3. PICK k \in F : k = 0 \/ k - 1 \in Nat \ F
    <3> HIDE DEF F
    <3>1. QED
      BY <2>1, <2>2, Smallest
  <2>4. k # 0
    <3>1. Migrates([n \in 0..0 |-> schema], schema, names, 0)
      BY DEF Migrates
    <3>2. QED
      BY <2>3, <3>1
  <2>5. PICK f : Migrates(f, schema, names, k - 1)
    BY <2>3, <2>4
  <2>6. k \in Nat /\ k - 1 \in Nat
    BY <2>3, <2>4
  <2> DEFINE last == Execute(f[k - 1], Migration[names[k]].up)
             h == [n \in 0..k |-> IF n = k THEN last ELSE f[n]]
  <2>7. Migrates(h, schema, names, k)
    <3>1. ASSUME NEW n \in 0..k
          PROVE  h[n] = IF n = 0 THEN schema
                        ELSE Execute(h[n - 1], Migration[names[n]].up)
      <4>1. n # 0 => n - 1 \in 0..k /\ n - 1 # k
        BY <2>6
      <4>2. n # 0 => h[n - 1] = f[n - 1]
        BY <4>1
      <4>3. CASE n = k
        BY <2>4, <4>2, <4>3
      <4>4. CASE n # k
        <5>1. n \in 0..(k - 1) /\ h[n] = f[n]
          BY <2>6, <4>4
        <5> HIDE DEF h
        <5>2. QED
          BY <2>5, <4>2, <5>1 DEF Migrates
      <4>5. QED
        BY <4>3, <4>4
    <3>2. h = [n \in 0..k |-> h[n]]
      OBVIOUS
    <3> HIDE DEF h
    <3>3. QED
      BY <3>1, <3>2 DEF Migrates
  <2>8. QED
    <3> HIDE DEF h
    <3>1. QED
      BY <2>3, <2>7
<1> DEFINE after == CHOOSE f : Migrates(f, schema, names, Len(names))
<1>2. Migrates(after, schema, names, Len(names))
  BY <1>1
<1>3. After(names) = after[Len(names)]
  BY DEF After, Migrates
<1>4. QED
  <2> HIDE DEF after
  <2>1. QED
    BY <1>2, <1>3

\* f[n] is what is kept of the first n names, for n up to k.
Keeps(f, names, set, k) ==
  f = [n \in 0..k |->
         IF n = 0 THEN <<>>
         ELSE IF names[n] \in set THEN Append(f[n - 1], names[n])
         ELSE f[n - 1]]

LEMMA KeptIs ==
  ASSUME NEW names, NEW set, Len(names) \in Nat
  PROVE  \E f : /\ Keeps(f, names, set, Len(names))
                /\ Kept(names, set) = f[Len(names)]
<1> DEFINE F == {k \in Nat : ~ \E f : Keeps(f, names, set, k)}
<1>1. F = {}
  <2>1. SUFFICES ASSUME F # {} PROVE FALSE
    OBVIOUS
  <2>2. F \in SUBSET Nat
    OBVIOUS
  <2>3. PICK k \in F : k = 0 \/ k - 1 \in Nat \ F
    <3> HIDE DEF F
    <3>1. QED
      BY <2>1, <2>2, Smallest
  <2>4. k # 0
    <3>1. Keeps([n \in 0..0 |-> <<>>], names, set, 0)
      BY DEF Keeps
    <3>2. QED
      BY <2>3, <3>1
  <2>5. PICK f : Keeps(f, names, set, k - 1)
    BY <2>3, <2>4
  <2>6. k \in Nat /\ k - 1 \in Nat
    BY <2>3, <2>4
  <2> DEFINE last == IF names[k] \in set THEN Append(f[k - 1], names[k])
                     ELSE f[k - 1]
             h == [n \in 0..k |-> IF n = k THEN last ELSE f[n]]
  <2>7. Keeps(h, names, set, k)
    <3>1. ASSUME NEW n \in 0..k
          PROVE  h[n] = IF n = 0 THEN <<>>
                        ELSE IF names[n] \in set THEN Append(h[n - 1], names[n])
                        ELSE h[n - 1]
      <4>1. n # 0 => n - 1 \in 0..k /\ n - 1 # k
        BY <2>6
      <4>2. n # 0 => h[n - 1] = f[n - 1]
        BY <4>1
      <4>3. CASE n = k
        BY <2>4, <4>2, <4>3
      <4>4. CASE n # k
        <5>1. n \in 0..(k - 1) /\ h[n] = f[n]
          BY <2>6, <4>4
        <5> HIDE DEF h
        <5>2. QED
          BY <2>5, <4>2, <5>1 DEF Keeps
      <4>5. QED
        BY <4>3, <4>4
    <3>2. h = [n \in 0..k |-> h[n]]
      OBVIOUS
    <3> HIDE DEF h
    <3>3. QED
      BY <3>1, <3>2 DEF Keeps
  <2>8. QED
    <3> HIDE DEF h
    <3>1. QED
      BY <2>3, <2>7
<1> DEFINE after == CHOOSE f : Keeps(f, names, set, Len(names))
<1>2. Keeps(after, names, set, Len(names))
  BY <1>1
<1>3. Kept(names, set) = after[Len(names)]
  BY DEF Kept, Keeps
<1>4. QED
  <2> HIDE DEF after
  <2>1. QED
    BY <1>2, <1>3

LEMMA KeptSequence ==
  ASSUME NEW S, NEW names \in Seq(S), NEW set
  PROVE  Kept(names, set) \in Seq(S \cap set)
<1>0. PICK T : T = S \cap set
  OBVIOUS
<1>1. PICK f : /\ Keeps(f, names, set, Len(names))
               /\ Kept(names, set) = f[Len(names)]
  BY KeptIs
<1> DEFINE F == {n \in 0..Len(names) : f[n] \notin Seq(T)}
<1>2. SUFFICES ASSUME F # {} PROVE FALSE
  BY <1>0, <1>1
<1>3. F \in SUBSET Nat
  OBVIOUS
<1>4. PICK n \in F : n = 0 \/ n - 1 \in Nat \ F
  <2> HIDE DEF F
  <2>1. QED
    BY <1>2, <1>3, Smallest
<1>5. CASE n = 0
  <2>1. f[n] = <<>>
    BY <1>1, <1>5 DEF Keeps
  <2>2. f[n] \in Seq(T)
    BY <2>1, EmptySeq
  <2>3. QED
    BY <1>4, <2>2
<1>6. CASE n # 0
  <2>1. n \in 1..Len(names) /\ f[n - 1] \in Seq(T)
    BY <1>4, <1>6
  <2>2. f[n] = IF names[n] \in set THEN Append(f[n - 1], names[n])
               ELSE f[n - 1]
    BY <1>1, <1>6, <2>1 DEF Keeps
  <2>3. names[n] \in set => names[n] \in T
    BY <1>0, <2>1
  <2>4. f[n] \in Seq(T)
    BY <2>1, <2>2, <2>3, AppendProperties
  <2>5. QED
    BY <1>4, <2>4
<1>7. QED
  BY <1>5, <1>6

-----------------------------------------------------------------------------
(* The tables and the statements of the migrations are well formed.        *)

LEMMA TablesAreTables ==
  ASSUME NEW required, NEW optional
  PROVE  /\ IsTable(Columns(required, optional))
         /\ IsTable(Table(required, optional))
BY DEF IsTable, Columns, Table

LEMMA StatementsWellFormed ==
  ASSUME NEW table, NEW columns, NEW references, NEW required, NEW column
  PROVE  /\ IsTable(columns) =>
              /\ WellFormed(CreateTable(table, columns, references))
              /\ WellFormed(CreateMissingTable(table, columns, references))
         /\ WellFormed(DropTable(table))
         /\ WellFormed(AddColumns(table, columns))
         /\ WellFormed(AddMissingColumns(table, required, columns))
         /\ WellFormed(DropColumns(table, columns))
         /\ WellFormed(DropPresentColumns(table, columns))
         /\ WellFormed(Require(table, column))
         /\ WellFormed(Relax(table, column))
         /\ WellFormed(AddReferences(table, references))
         /\ WellFormed(AddMissingReferences(table, references))
         /\ WellFormed(DropReferences(table, columns))
         /\ WellFormed(DropAllReferences(table))
         /\ WellFormed(CreateType(table, columns))
         /\ WellFormed(AddLabels(table, columns))
         /\ WellFormed(AddLabelsIfPossible(table, columns))
         /\ WellFormed(DropType(table))
         /\ WellFormed(CreateView(columns))
         /\ WellFormed(DropView)
         /\ WellFormed(DeleteRows(table))
BY DEF WellFormed, Kinds, CreateTable, CreateMissingTable, DropTable,
       AddColumns, AddMissingColumns, DropColumns, DropPresentColumns,
       Require, Relax, AddReferences, AddMissingReferences, DropReferences,
       DropAllReferences, CreateType, AddLabels, AddLabelsIfPossible,
       DropType, CreateView, DropView, DeleteRows

\* A migration all of whose statements are.
AllWellFormed(statements) ==
  /\ Len(statements) \in Nat
  /\ \A n \in 1..Len(statements) : WellFormed(statements[n])

-----------------------------------------------------------------------------
(* What a statement does to the tables.                                    *)

\* The statement may take the column away from the table.
Hits(statement, table, column) ==
  \/ statement.do = "drop table" /\ statement.table = table
  \/ /\ statement.do \in {"drop", "drop present"}
     /\ statement.table = table
     /\ column \in statement.columns

Creates(statement, table) ==
  /\ statement.do \in {"create", "create missing"}
  /\ statement.table = table

Drops(statement, table) ==
  /\ statement.do = "drop table"
  /\ statement.table = table

\* The statement brings the column, and is refused where it is.
Makes(statement, table, column) ==
  /\ statement.table = table
  /\ \/ statement.do = "create" /\ column \in statement.columns.columns
     \/ statement.do = "add" /\ column \in statement.columns

Widened(tables, table, required, columns) ==
  [tables EXCEPT ![table] = [required |-> @.required \cup required,
                             columns |-> @.columns \cup columns]]

Narrowed(tables, table, columns) ==
  [tables EXCEPT ![table] = [required |-> @.required \ columns,
                             columns |-> @.columns \ columns]]

Without(tables, table) ==
  [other \in DOMAIN tables \ {table} |-> tables[other]]

LEMMA RefusedTables ==
  ASSUME NEW s, Sound(s), NEW e, e = [s EXCEPT !.ok = FALSE]
  PROVE  e.tables = s.tables /\ ~e.ok
BY Fields

LEMMA WithReferencesTables ==
  ASSUME NEW s, Sound(s), NEW table, NEW references
  PROVE  WithReferences(s, table, references).tables = s.tables
BY Fields DEF WithReferences, If

LEMMA WithTableTables ==
  ASSUME NEW s, Sound(s), NEW table, NEW columns, IsTable(columns),
         NEW references, NEW e, e = WithTable(s, table, columns, references)
  PROVE  \/ e.tables = s.tables /\ ~e.ok
         \/ /\ ~Exists(s, table)
            /\ e.tables = Extended(s.tables, table, columns)
<1>1. PICK t : t = [s EXCEPT !.tables = Extended(@, table, columns)]
  OBVIOUS
<1>2. t.tables = Extended(s.tables, table, columns)
  BY <1>1, Fields
<1>3. DOMAIN t = DOMAIN s
  BY <1>1
<1>4. WithReferences(t, table, references).tables = t.tables
  BY <1>3, Fields DEF WithReferences, If
<1>5. QED
  BY <1>1, <1>2, <1>4, RefusedTables DEF WithTable, If

LEMMA WithColumnsTables ==
  ASSUME NEW s, Sound(s), NEW table, NEW required, NEW columns, NEW e,
         e = WithColumns(s, table, required, columns)
  PROVE  \/ e.tables = s.tables /\ ~e.ok
         \/ /\ Exists(s, table)
            /\ columns \cap ColumnsOf(s, table) = {}
            /\ e.tables = Widened(s.tables, table, required, columns)
BY Fields, RefusedTables DEF WithColumns, If, Widened

LEMMA WithoutColumnsTables ==
  ASSUME NEW s, Sound(s), NEW table, NEW columns, NEW e,
         e = WithoutColumns(s, table, columns)
  PROVE  \/ e.tables = s.tables /\ ~e.ok
         \/ e.tables = Narrowed(s.tables, table, columns)
BY Fields, RefusedTables DEF WithoutColumns, If, Narrowed

LEMMA WithoutTableTables ==
  ASSUME NEW s, Sound(s), NEW table, NEW e, e = WithoutTable(s, table)
  PROVE  \/ e.tables = s.tables /\ ~e.ok
         \/ e.tables = Without(s.tables, table)
BY Fields, RefusedTables DEF WithoutTable, If, Without

\* The tables that were there are there still, their columns as well, but
\* for what the statement takes away.
Changed(s, e, statement) ==
  \/ e.tables = s.tables
  \/ /\ statement.do \in {"create", "create missing"}
     /\ ~Exists(s, statement.table)
     /\ e.tables = Extended(s.tables, statement.table, statement.columns)
  \/ /\ statement.do = "drop table"
     /\ e.tables = Without(s.tables, statement.table)
  \/ /\ statement.do \notin {"create", "create missing", "drop table"}
     /\ \E x : /\ e.tables = [s.tables EXCEPT ![statement.table] = x]
               /\ \A column \in s.tables[statement.table].columns :
                    \/ column \in x.columns
                    \/ Hits(statement, statement.table, column)

LEMMA EffectChanges ==
  ASSUME NEW s, Sound(s), NEW statement, WellFormed(statement),
         NEW e, e = Effect(s, statement)
  PROVE  Changed(s, e, statement)
<1> DEFINE table == statement.table
<1>1. CASE statement.do \in {"create", "create missing"}
  <2>1. \/ e = s
        \/ e = WithTable(s, table, statement.columns, statement.references)
    BY <1>1 DEF Effect
  <2>2. IsTable(statement.columns)
    BY <1>1 DEF WellFormed
  <2>3. \/ e.tables = s.tables
        \/ /\ ~Exists(s, table)
           /\ e.tables = Extended(s.tables, table, statement.columns)
    BY <2>1, <2>2, WithTableTables
  <2>4. QED
    BY <1>1, <2>3 DEF Changed
<1>2. CASE statement.do = "drop table"
  <2>1. e = WithoutTable(s, table)
    BY <1>2 DEF Effect
  <2>2. QED
    BY <1>2, <2>1, WithoutTableTables DEF Changed
<1>3. CASE statement.do \in {"add", "add missing"}
  <2>1. \E required, columns : e = WithColumns(s, table, required, columns)
    BY <1>3 DEF Effect
  <2>2. PICK required, columns :
          \/ e.tables = s.tables
          \/ e.tables = Widened(s.tables, table, required, columns)
    BY <2>1, WithColumnsTables
  <2>3. PICK x : x = [required |-> s.tables[table].required \cup required,
                      columns |-> s.tables[table].columns \cup columns]
    OBVIOUS
  <2>4. \A column \in s.tables[table].columns : column \in x.columns
    BY <2>3
  <2>5. \/ e.tables = s.tables
        \/ e.tables = [s.tables EXCEPT ![table] = x]
    BY <2>2, <2>3 DEF Widened
  <2>6. QED
    BY <1>3, <2>4, <2>5 DEF Changed
<1>4. CASE statement.do \in {"drop", "drop present"}
  <2>1. \E columns \in SUBSET statement.columns :
          e = WithoutColumns(s, table, columns)
    BY <1>4 DEF Effect
  <2>2. PICK columns \in SUBSET statement.columns :
          \/ e.tables = s.tables
          \/ e.tables = Narrowed(s.tables, table, columns)
    BY <2>1, WithoutColumnsTables
  <2>3. PICK x : x = [required |-> s.tables[table].required \ columns,
                      columns |-> s.tables[table].columns \ columns]
    OBVIOUS
  <2>4. \A column \in s.tables[table].columns :
          \/ column \in x.columns
          \/ Hits(statement, table, column)
    BY <1>4, <2>3 DEF Hits
  <2>5. \/ e.tables = s.tables
        \/ e.tables = [s.tables EXCEPT ![table] = x]
    BY <2>2, <2>3 DEF Narrowed
  <2>6. QED
    BY <1>4, <2>4, <2>5 DEF Changed
<1>5. CASE statement.do \in {"require", "relax"}
  <2>1. \/ e = [s EXCEPT !.ok = FALSE]
        \/ /\ Exists(s, table)
           /\ \E required :
                e = [s EXCEPT !.tables[table].required = required]
    BY <1>5 DEF Effect, If, ColumnsOf
  <2>2. ASSUME NEW required, Exists(s, table),
               e = [s EXCEPT !.tables[table].required = required]
        PROVE  Changed(s, e, statement)
    <3>1. PICK x : x = [s.tables[table] EXCEPT !.required = required]
      OBVIOUS
    <3>2. e.tables = [s.tables EXCEPT ![table] = x]
      BY <2>2, <3>1, Fields
    <3>3. x.columns = s.tables[table].columns
      BY <2>2, <3>1 DEF Sound, Exists, IsTable
    <3>4. QED
      BY <1>5, <3>2, <3>3 DEF Changed
  <2>3. QED
    BY <2>1, <2>2, RefusedTables DEF Changed
<1>6. CASE statement.do \in {"refer", "refer missing"}
  <2>1. \/ e = [s EXCEPT !.ok = FALSE]
        \/ e = WithReferences(s, table, statement.references)
    BY <1>6 DEF Effect, If
  <2>2. e.tables = s.tables
    BY <2>1, RefusedTables, WithReferencesTables
  <2>3. QED
    BY <2>2 DEF Changed
<1>7. CASE statement.do \in {"unrefer", "unrefer all", "type", "label",
                             "label if possible", "drop type", "view",
                             "drop view", "delete rows"}
  <2>1. e.tables = s.tables
    BY <1>7, Fields DEF Effect, If, WithLabels, WithoutReferences
  <2>2. QED
    BY <2>1 DEF Changed
<1>8. QED
  BY <1>1, <1>2, <1>3, <1>4, <1>5, <1>6, <1>7 DEF WellFormed, Kinds

LEMMA EffectKeeps ==
  ASSUME NEW s, Sound(s), NEW statement, WellFormed(statement), NEW table,
         NEW column \in ColumnsOf(s, table), ~Hits(statement, table, column)
  PROVE  column \in ColumnsOf(Effect(s, statement), table)
<1>1. PICK e : e = Effect(s, statement)
  OBVIOUS
<1>2. Changed(s, e, statement)
  BY <1>1, EffectChanges
<1>3. Exists(s, table) /\ column \in s.tables[table].columns
  BY DEF ColumnsOf
<1>4. Exists(e, table) /\ column \in e.tables[table].columns
  BY <1>2, <1>3 DEF Changed, Hits, Exists, Extended, Without, Sound
<1>5. QED
  BY <1>1, <1>4 DEF ColumnsOf

LEMMA EffectCreates ==
  ASSUME NEW s, Sound(s), NEW statement, WellFormed(statement), NEW table,
         Exists(Effect(s, statement), table), ~Creates(statement, table)
  PROVE  Exists(s, table)
<1>1. PICK e : e = Effect(s, statement)
  OBVIOUS
<1>2. Changed(s, e, statement)
  BY <1>1, EffectChanges
<1>3. table \in DOMAIN e.tables
  BY <1>1 DEF Exists
<1>4. table \in DOMAIN s.tables
  BY ZenonT(60), <1>2, <1>3 DEF Changed, Creates, Extended, Without, Exists
<1>5. QED
  BY <1>4 DEF Exists

LEMMA EffectMakes ==
  ASSUME NEW s, Sound(s), NEW statement, WellFormed(statement), NEW table,
         NEW column, Makes(statement, table, column),
         Effect(s, statement).ok
  PROVE  /\ column \notin ColumnsOf(s, table)
         /\ column \in ColumnsOf(Effect(s, statement), table)
         /\ statement.do = "add" => Exists(s, table)
<1>1. PICK e : e = Effect(s, statement) /\ e.ok
  OBVIOUS
<1>2. CASE statement.do = "create"
  <2>1. e = WithTable(s, table, statement.columns, statement.references)
    BY <1>1, <1>2 DEF Effect, Makes
  <2>2. /\ ~Exists(s, table)
        /\ e.tables = Extended(s.tables, table, statement.columns)
    <3>1. IsTable(statement.columns)
      BY <1>2 DEF WellFormed
    <3>2. QED
      BY <1>1, <2>1, <3>1, WithTableTables
  <2>3. column \in ColumnsOf(e, table)
    BY <1>2, <2>2 DEF Makes, ColumnsOf, Exists, Extended
  <2>4. QED
    BY <1>1, <1>2, <2>2, <2>3 DEF ColumnsOf
<1>3. CASE statement.do = "add"
  <2>1. e = WithColumns(s, table, statement.required, statement.columns)
    BY <1>1, <1>3 DEF Effect, Makes
  <2>2. /\ Exists(s, table)
        /\ statement.columns \cap ColumnsOf(s, table) = {}
        /\ e.tables = Widened(s.tables, table, statement.required,
                               statement.columns)
    BY <1>1, <2>1, WithColumnsTables
  <2>3. column \in ColumnsOf(e, table)
    BY <1>3, <2>2 DEF Makes, ColumnsOf, Exists, Widened, Sound
  <2>4. QED
    BY <1>1, <1>3, <2>2, <2>3 DEF Makes
<1>4. QED
  BY <1>2, <1>3 DEF Makes

LEMMA EffectDrops ==
  ASSUME NEW s, Sound(s), NEW statement, NEW table, Drops(statement, table),
         Effect(s, statement).ok
  PROVE  ~Exists(Effect(s, statement), table)
<1>1. PICK e : e = Effect(s, statement) /\ e.ok
  OBVIOUS
<1>2. e = WithoutTable(s, table)
  BY <1>1 DEF Effect, Drops
<1>3. e.tables = Without(s.tables, table)
  BY <1>1, <1>2, WithoutTableTables
<1>4. QED
  BY <1>1, <1>3 DEF Exists, Without

-----------------------------------------------------------------------------
(* What a list of statements does to the tables.                           *)

\* f[n] is the schema after n of the statements.
Course(f, s, statements) ==
  /\ f[0] = s
  /\ f[Len(statements)] = Execute(s, statements)
  /\ \A n \in 0..Len(statements) : Sound(f[n])
  /\ \A n \in 1..Len(statements) :
       f[n] = IF f[n - 1].ok THEN Effect(f[n - 1], statements[n])
              ELSE f[n - 1]

LEMMA ExecuteCourse ==
  ASSUME NEW s, Sound(s), NEW statements, AllWellFormed(statements)
  PROVE  \E f : Course(f, s, statements)
<1>1. PICK f : /\ Executes(f, s, statements, Len(statements))
               /\ Execute(s, statements) = f[Len(statements)]
  BY ExecuteIs DEF AllWellFormed
<1>2. Len(statements) \in Nat
  BY DEF AllWellFormed
<1>3. /\ f[0] = s
      /\ \A n \in 1..Len(statements) :
           f[n] = IF f[n - 1].ok THEN Effect(f[n - 1], statements[n])
                  ELSE f[n - 1]
  BY <1>1, <1>2 DEF Executes
<1> DEFINE F == {n \in 0..Len(statements) : ~Sound(f[n])}
<1>4. F = {}
  <2>1. SUFFICES ASSUME F # {} PROVE FALSE
    OBVIOUS
  <2>2. F \in SUBSET Nat
    OBVIOUS
  <2>3. PICK n \in F : n = 0 \/ n - 1 \in Nat \ F
    <3> HIDE DEF F
    <3>1. QED
      BY <2>1, <2>2, Smallest
  <2>4. n # 0
    BY <1>3, <2>3
  <2>5. n \in 1..Len(statements) /\ Sound(f[n - 1])
    BY <2>3, <2>4
  <2>6. QED
    BY <1>3, <2>3, <2>5, EffectSound DEF AllWellFormed
<1>5. QED
  BY <1>1, <1>3, <1>4 DEF Course

\* A statement is issued only if none before it was refused.
LEMMA CourseOk ==
  ASSUME NEW s, NEW statements, AllWellFormed(statements), NEW f,
         Course(f, s, statements), Execute(s, statements).ok
  PROVE  \A n \in 1..Len(statements) :
           /\ f[n - 1].ok
           /\ f[n].ok
           /\ f[n] = Effect(f[n - 1], statements[n])
<1>1. Len(statements) \in Nat
  BY DEF AllWellFormed
<1> DEFINE F == {k \in 0..Len(statements) : ~f[Len(statements) - k].ok}
<1>2. F = {}
  <2>1. SUFFICES ASSUME F # {} PROVE FALSE
    OBVIOUS
  <2>2. F \in SUBSET Nat
    OBVIOUS
  <2>3. PICK k \in F : k = 0 \/ k - 1 \in Nat \ F
    <3> HIDE DEF F
    <3>1. QED
      BY <2>1, <2>2, Smallest
  <2>4. k # 0
    BY <1>1, <2>3 DEF Course
  <2>5. PICK n \in 1..Len(statements) : n = Len(statements) - k + 1
    BY <1>1, <2>3, <2>4
  <2>6. ~f[n - 1].ok /\ f[n].ok
    <3>1. n - 1 = Len(statements) - k /\ n = Len(statements) - (k - 1)
      BY <1>1, <2>3, <2>5
    <3>2. k - 1 \in 0..Len(statements)
      BY <1>1, <2>3, <2>4
    <3>3. QED
      BY <2>3, <2>4, <3>1, <3>2
  <2>7. QED
    BY <2>6 DEF Course
<1>3. \A n \in 0..Len(statements) : f[n].ok
  <2>1. ASSUME NEW n \in 0..Len(statements)
        PROVE  f[n].ok
    <3>1. PICK k \in 0..Len(statements) : n = Len(statements) - k
      <4>1. /\ Len(statements) - n \in 0..Len(statements)
            /\ n = Len(statements) - (Len(statements) - n)
        BY <1>1
      <4>2. QED
        BY <4>1
    <3>2. k \notin F
      BY <1>2
    <3>3. QED
      BY <3>1, <3>2
  <2>2. QED
    BY <2>1
<1>4. QED
  BY <1>1, <1>3 DEF Course

\* A column is there until a statement takes it away.
LEMMA CourseKeeps ==
  ASSUME NEW s, NEW statements, AllWellFormed(statements), NEW f,
         Course(f, s, statements), NEW table, NEW column,
         \A n \in 1..Len(statements) : ~Hits(statements[n], table, column),
         NEW from \in 0..Len(statements), column \in ColumnsOf(f[from], table)
  PROVE  \A n \in from..Len(statements) : column \in ColumnsOf(f[n], table)
<1>1. Len(statements) \in Nat
  BY DEF AllWellFormed
<1> DEFINE F == {n \in from..Len(statements) :
                   column \notin ColumnsOf(f[n], table)}
<1>2. SUFFICES ASSUME F # {} PROVE FALSE
  OBVIOUS
<1>3. F \in SUBSET Nat
  BY <1>1
<1>4. PICK n \in F : n = 0 \/ n - 1 \in Nat \ F
  <2> HIDE DEF F
  <2>1. QED
    BY <1>2, <1>3, Smallest
<1>5. n # from
  BY <1>4
<1>6. n \in 1..Len(statements) /\ n - 1 \in from..Len(statements)
  BY <1>1, <1>4, <1>5
<1>7. column \in ColumnsOf(f[n - 1], table)
  BY <1>4, <1>6
<1>8. Sound(f[n - 1]) /\ WellFormed(statements[n])
  BY <1>1, <1>6 DEF Course, AllWellFormed
<1>9. column \in ColumnsOf(f[n], table)
  BY <1>6, <1>7, <1>8, EffectKeeps DEF Course
<1>10. QED
  BY <1>4, <1>9

\* A table that none of the statements creates was there before.
LEMMA CourseCreates ==
  ASSUME NEW s, NEW statements, AllWellFormed(statements), NEW f,
         Course(f, s, statements), NEW table,
         \A n \in 1..Len(statements) : ~Creates(statements[n], table),
         NEW from \in 0..Len(statements), ~Exists(f[from], table)
  PROVE  \A n \in from..Len(statements) : ~Exists(f[n], table)
<1>1. Len(statements) \in Nat
  BY DEF AllWellFormed
<1> DEFINE F == {n \in from..Len(statements) : Exists(f[n], table)}
<1>2. SUFFICES ASSUME F # {} PROVE FALSE
  OBVIOUS
<1>3. F \in SUBSET Nat
  BY <1>1
<1>4. PICK n \in F : n = 0 \/ n - 1 \in Nat \ F
  <2> HIDE DEF F
  <2>1. QED
    BY <1>2, <1>3, Smallest
<1>5. n # from
  BY <1>4
<1>6. n \in 1..Len(statements) /\ n - 1 \in from..Len(statements)
  BY <1>1, <1>4, <1>5
<1>7. ~Exists(f[n - 1], table)
  BY <1>4, <1>6
<1>8. Sound(f[n - 1]) /\ WellFormed(statements[n])
  BY <1>1, <1>6 DEF Course, AllWellFormed
<1>9. ~Exists(f[n], table)
  BY <1>6, <1>7, <1>8, EffectCreates DEF Course
<1>10. QED
  BY <1>4, <1>9

LEMMA ExecuteKeeps ==
  ASSUME NEW s, Sound(s), NEW statements, AllWellFormed(statements),
         NEW table, NEW column \in ColumnsOf(s, table),
         \A n \in 1..Len(statements) : ~Hits(statements[n], table, column)
  PROVE  column \in ColumnsOf(Execute(s, statements), table)
<1>1. PICK f : Course(f, s, statements)
  BY ExecuteCourse
<1>2. /\ Len(statements) \in Nat /\ 0 \in 0..Len(statements)
      /\ column \in ColumnsOf(f[0], table)
  BY <1>1 DEF Course, AllWellFormed
<1>3. \A n \in 0..Len(statements) : column \in ColumnsOf(f[n], table)
  BY <1>1, <1>2, CourseKeeps
<1>4. QED
  BY <1>1, <1>2, <1>3 DEF Course

LEMMA ExecuteCreates ==
  ASSUME NEW s, Sound(s), NEW statements, AllWellFormed(statements),
         NEW table, Exists(Execute(s, statements), table),
         \A n \in 1..Len(statements) : ~Creates(statements[n], table)
  PROVE  Exists(s, table)
<1>1. PICK f : Course(f, s, statements)
  BY ExecuteCourse
<1>2. /\ Len(statements) \in Nat /\ 0 \in 0..Len(statements)
      /\ f[0] = s /\ f[Len(statements)] = Execute(s, statements)
  BY <1>1 DEF Course, AllWellFormed
<1>3. ASSUME ~Exists(s, table) PROVE FALSE
  <2>1. \A n \in 0..Len(statements) : ~Exists(f[n], table)
    BY <1>1, <1>2, <1>3, CourseCreates
  <2>2. QED
    BY <1>2, <2>1
<1>4. QED
  BY <1>3

\* The column was not there, is there now, and so was the table if it is
\* only added to.
LEMMA ExecuteMakes ==
  ASSUME NEW s, Sound(s), NEW statements, AllWellFormed(statements),
         Execute(s, statements).ok, NEW table, NEW column,
         \A n \in 1..Len(statements) : ~Hits(statements[n], table, column),
         NEW m \in 1..Len(statements), Makes(statements[m], table, column)
  PROVE  /\ column \notin ColumnsOf(s, table)
         /\ column \in ColumnsOf(Execute(s, statements), table)
         /\ \/ ~ \A n \in 1..Len(statements) : ~Creates(statements[n], table)
            \/ statements[m].do # "add"
            \/ Exists(s, table)
<1>1. PICK f : Course(f, s, statements)
  BY ExecuteCourse
<1>2. /\ Len(statements) \in Nat /\ 0 \in 0..Len(statements)
      /\ m - 1 \in 0..Len(statements) /\ m \in 0..Len(statements)
      /\ f[0] = s /\ f[Len(statements)] = Execute(s, statements)
  BY <1>1 DEF Course, AllWellFormed
<1>3. /\ Sound(f[m - 1]) /\ WellFormed(statements[m])
      /\ f[m] = Effect(f[m - 1], statements[m]) /\ f[m].ok
  BY <1>1, <1>2, CourseOk DEF Course, AllWellFormed
<1>4. /\ column \notin ColumnsOf(f[m - 1], table)
      /\ column \in ColumnsOf(f[m], table)
      /\ statements[m].do = "add" => Exists(f[m - 1], table)
  BY <1>3, EffectMakes
<1>5. ASSUME column \in ColumnsOf(s, table) PROVE FALSE
  <2>1. \A n \in 0..Len(statements) : column \in ColumnsOf(f[n], table)
    BY <1>1, <1>2, <1>5, CourseKeeps
  <2>2. QED
    BY <1>2, <1>4, <2>1
<1>6. column \in ColumnsOf(Execute(s, statements), table)
  <2>1. \A n \in m..Len(statements) : column \in ColumnsOf(f[n], table)
    BY <1>1, <1>2, <1>4, CourseKeeps
  <2>2. QED
    BY <1>2, <2>1
<1>7. ASSUME \A n \in 1..Len(statements) : ~Creates(statements[n], table),
             statements[m].do = "add", ~Exists(s, table)
      PROVE  FALSE
  <2>1. \A n \in 0..Len(statements) : ~Exists(f[n], table)
    BY <1>1, <1>2, <1>7, CourseCreates
  <2>2. QED
    BY <1>2, <1>4, <1>7, <2>1
<1>8. QED
  BY <1>5, <1>6, <1>7

LEMMA ExecuteDrops ==
  ASSUME NEW s, Sound(s), NEW statements, AllWellFormed(statements),
         Execute(s, statements).ok, NEW table,
         \A n \in 1..Len(statements) : ~Creates(statements[n], table),
         NEW m \in 1..Len(statements), Drops(statements[m], table)
  PROVE  ~Exists(Execute(s, statements), table)
<1>1. PICK f : Course(f, s, statements)
  BY ExecuteCourse
<1>2. /\ Len(statements) \in Nat
      /\ m - 1 \in 0..Len(statements) /\ m \in 0..Len(statements)
      /\ Len(statements) \in m..Len(statements)
  <2>1. Len(statements) \in Nat
    BY DEF AllWellFormed
  <2>2. QED
    BY <2>1
<1>3. /\ Sound(f[m - 1])
      /\ f[m] = Effect(f[m - 1], statements[m]) /\ f[m].ok
  BY <1>1, <1>2, CourseOk DEF Course
<1>4. ~Exists(f[m], table)
  BY <1>3, EffectDrops
<1>5. \A n \in m..Len(statements) : ~Exists(f[n], table)
  BY <1>1, <1>2, <1>4, CourseCreates
<1>6. QED
  BY <1>1, <1>2, <1>5 DEF Course

-----------------------------------------------------------------------------
(* How the schema tells which migrations it has seen.                      *)

\* The column that up() brings and that no other migration takes away, for
\* each migration that does not look first.
Mark ==
  [CreateTenants |-> <<"tenants", "id">>,
   CreateUsers |-> <<"users", "id">>,
   CreateCustomers |-> <<"customers", "id">>,
   AddNumberOfBranchesToCustomers |-> <<"customers", "number_of_branches">>,
   CreateBudgetEnvelopes |-> <<"budget_envelopes", "id">>,
   CreateBudgetTransactions |-> <<"budget_transactions", "id">>,
   CreateLedgerEntries |-> <<"ledger_entries", "id">>,
   CreateBudgetReservations |-> <<"budget_reservations", "id">>,
   CreateNotifications |-> <<"notifications", "id">>,
   CreateAdminAuditLogs |-> <<"admin_audit_logs", "id">>,
   CreateAgreements |-> <<"agreements", "id">>,
   CreateApprovalRequests |-> <<"approval_requests", "id">>,
   CreateAgreementTransactions |-> <<"agreement_transactions", "id">>,
   AddMissingFieldsToAgreements |-> <<"agreements", "description">>,
   CreateMasterDataEntities |-> <<"mechanics", "id">>,
   CreateKpis |-> <<"kpis", "id">>,
   CreatePlans |-> <<"plan_skus", "id">>,
   AddAdditionalParamsToAgreements |-> <<"agreements", "kpi_results">>,
   AddSpendManagementTables |-> <<"mechanics", "spending_type">>,
   AddPromoMechanicsConfig |-> <<"mechanics", "input_type">>,
   AddApprovalWorkflowFieldsToPlans |-> <<"plan_approval_history", "id">>,
   AddFiscalPeriodToAgreementTransaction |->
     <<"agreement_transactions", "fiscal_period">>,
   CreateOnInvoiceTables |-> <<"on_invoice_batches", "id">>,
   AddCalculatedKpisToPlans |-> <<"plan_skus", "calculated_kpis">>]

\* Those that add columns to a table, and the migration that creates it.
Needs ==
  [AddNumberOfBranchesToCustomers |-> "CreateCustomers",
   AddMissingFieldsToAgreements |-> "CreateAgreements",
   AddAdditionalParamsToAgreements |-> "CreateAgreements",
   AddSpendManagementTables |-> "CreateMasterDataEntities",
   AddPromoMechanicsConfig |-> "CreateMasterDataEntities",
   AddFiscalPeriodToAgreementTransaction |->
     "CreateAgreementTransactions",
   AddCalculatedKpisToPlans |-> "CreatePlans"]

Bases == {"CreateCustomers", "CreateAgreements",
          "CreateMasterDataEntities", "CreateAgreementTransactions",
          "CreatePlans"}

\* The statement takes away no mark, but for those of some migrations, and
\* creates none of the tables others add columns to, but for some.
Fit(statement, taken, founded) ==
  /\ WellFormed(statement)
  /\ \A other \in DOMAIN Mark \ taken :
       ~Hits(statement, Mark[other][1], Mark[other][2])
  /\ \A base \in Bases \ founded : ~Creates(statement, Mark[base][1])

Untouched(table, taken) ==
  \A other \in DOMAIN Mark \ taken : Mark[other][1] # table

UntouchedColumns(table, columns, taken) ==
  \A other \in DOMAIN Mark \ taken :
    Mark[other][1] = table => Mark[other][2] \notin columns

Founded(table, founded) ==
  \A base \in Bases \ founded : Mark[base][1] # table

LEMMA FitCreate ==
  ASSUME NEW taken, NEW founded, NEW table, NEW columns, NEW references,
         IsTable(columns), Founded(table, founded)
  PROVE  /\ Fit(CreateTable(table, columns, references), taken, founded)
         /\ Fit(CreateMissingTable(table, columns, references), taken,
                founded)
BY StatementsWellFormed
   DEF Fit, Founded, Hits, Creates, CreateTable, CreateMissingTable

LEMMA FitDropTable ==
  ASSUME NEW taken, NEW founded, NEW table, Untouched(table, taken)
  PROVE  Fit(DropTable(table), taken, founded)
BY StatementsWellFormed DEF Fit, Untouched, Hits, Creates, DropTable

LEMMA FitDropColumns ==
  ASSUME NEW taken, NEW founded, NEW table, NEW columns,
         UntouchedColumns(table, columns, taken)
  PROVE  /\ Fit(DropColumns(table, columns), taken, founded)
         /\ Fit(DropPresentColumns(table, columns), taken, founded)
BY StatementsWellFormed
   DEF Fit, UntouchedColumns, Hits, Creates, DropColumns,
       DropPresentColumns

\* The others take nothing away and create no table.
LEMMA FitAddColumns ==
  ASSUME NEW taken, NEW founded, NEW table, NEW columns, NEW required
  PROVE  /\ Fit(AddColumns(table, columns), taken, founded)
         /\ Fit(AddMissingColumns(table, required, columns), taken, founded)
BY StatementsWellFormed
   DEF Fit, Hits, Creates, AddColumns, AddMissingColumns

LEMMA FitRequire ==
  ASSUME NEW taken, NEW founded, NEW table, NEW column
  PROVE  /\ Fit(Require(table, column), taken, founded)
         /\ Fit(Relax(table, column), taken, founded)
BY StatementsWellFormed DEF Fit, Hits, Creates, Require, Relax

LEMMA FitReferences ==
  ASSUME NEW taken, NEW founded, NEW table, NEW references
  PROVE  /\ Fit(AddReferences(table, references), taken, founded)
         /\ Fit(AddMissingReferences(table, references), taken, founded)
         /\ Fit(DropReferences(table, references), taken, founded)
         /\ Fit(DropAllReferences(table), taken, founded)
BY StatementsWellFormed
   DEF Fit, Hits, Creates, AddReferences, AddMissingReferences,
       DropReferences, DropAllReferences

LEMMA FitLabels ==
  ASSUME NEW taken, NEW founded, NEW type, NEW labels
  PROVE  /\ Fit(CreateType(type, labels), taken, founded)
         /\ Fit(AddLabels(type, labels), taken, founded)
         /\ Fit(AddLabelsIfPossible(type, labels), taken, founded)
         /\ Fit(DropType(type), taken, founded)
BY StatementsWellFormed
   DEF Fit, Hits, Creates, CreateType, AddLabels, AddLabelsIfPossible,
       DropType

LEMMA FitView ==
  ASSUME NEW taken, NEW founded, NEW tables
  PROVE  /\ Fit(CreateView(tables), taken, founded)
         /\ Fit(DropView, taken, founded)
         /\ Fit(DeleteRows(tables), taken, founded)
BY StatementsWellFormed
   DEF Fit, Hits, Creates, CreateView, DropView, DeleteRows

\* The marks of each table.
LEMMA MarksAt ==
  ASSUME NEW other \in DOMAIN Mark
  PROVE  /\ Mark[other] = <<Mark[other][1], Mark[other][2]>>
         /\ Mark[other][1] = "tenants" =>
              other = "CreateTenants"
         /\ Mark[other][1] = "users" =>
              other = "CreateUsers"
         /\ Mark[other][1] = "customers" =>
              other \in {"CreateCustomers",
                        "AddNumberOfBranchesToCustomers"}
         /\ Mark[other][1] = "budget_envelopes" =>
              other = "CreateBudgetEnvelopes"
         /\ Mark[other][1] = "budget_transactions" =>
              other = "CreateBudgetTransactions"
         /\ Mark[other][1] = "ledger_entries" =>
              other = "CreateLedgerEntries"
         /\ Mark[other][1] = "budget_reservations" =>
              other = "CreateBudgetReservations"
         /\ Mark[other][1] = "notifications" =>
              other = "CreateNotifications"
         /\ Mark[other][1] = "admin_audit_logs" =>
              other = "CreateAdminAuditLogs"
         /\ Mark[other][1] = "agreements" =>
              other \in {"CreateAgreements",
                        "AddMissingFieldsToAgreements",
                        "AddAdditionalParamsToAgreements"}
         /\ Mark[other][1] = "approval_requests" =>
              other = "CreateApprovalRequests"
         /\ Mark[other][1] = "agreement_transactions" =>
              other \in {"CreateAgreementTransactions",
                        "AddFiscalPeriodToAgreementTransaction"}
         /\ Mark[other][1] = "mechanics" =>
              other \in {"CreateMasterDataEntities",
                        "AddSpendManagementTables",
                        "AddPromoMechanicsConfig"}
         /\ Mark[other][1] = "kpis" =>
              other = "CreateKpis"
         /\ Mark[other][1] = "plan_skus" =>
              other \in {"CreatePlans",
                        "AddCalculatedKpisToPlans"}
         /\ Mark[other][1] = "plan_approval_history" =>
              other = "AddApprovalWorkflowFieldsToPlans"
         /\ Mark[other][1] = "on_invoice_batches" =>
              other = "CreateOnInvoiceTables"
         /\ Mark[other][1] \in
              {"tenants", "users", "customers",
               "budget_envelopes", "budget_transactions",
               "ledger_entries", "budget_reservations",
               "notifications", "admin_audit_logs",
               "agreements", "approval_requests",
               "agreement_transactions", "mechanics",
               "kpis", "plan_skus", "plan_approval_history",
               "on_invoice_batches"}
BY DEF Mark

LEMMA BasesAt ==
  ASSUME NEW base \in Bases
  PROVE  /\ base \in DOMAIN Mark
         /\ Mark[base][1] = "customers" => base = "CreateCustomers"
         /\ Mark[base][1] = "agreements" => base = "CreateAgreements"
         /\ Mark[base][1] = "mechanics" => base = "CreateMasterDataEntities"
         /\ Mark[base][1] = "agreement_transactions" =>
              base = "CreateAgreementTransactions"
         /\ Mark[base][1] = "plan_skus" => base = "CreatePlans"
         /\ Mark[base][1] \in {"customers", "agreements", "mechanics",
                               "agreement_transactions", "plan_skus"}
BY DEF Bases, Mark

\* The columns of the tables with several marks.
LEMMA MarkColumns ==
  /\ Mark["CreateCustomers"][2] = "id"
  /\ Mark["AddNumberOfBranchesToCustomers"][2] = "number_of_branches"
  /\ Mark["CreateBudgetEnvelopes"][2] = "id"
  /\ Mark["CreateAgreements"][2] = "id"
  /\ Mark["AddMissingFieldsToAgreements"][2] = "description"
  /\ Mark["AddAdditionalParamsToAgreements"][2] = "kpi_results"
  /\ Mark["CreateAgreementTransactions"][2] = "id"
  /\ Mark["AddFiscalPeriodToAgreementTransaction"][2] = "fiscal_period"
  /\ Mark["CreateMasterDataEntities"][2] = "id"
  /\ Mark["AddSpendManagementTables"][2] = "spending_type"
  /\ Mark["AddPromoMechanicsConfig"][2] = "input_type"
  /\ Mark["CreatePlans"][2] = "id"
  /\ Mark["AddCalculatedKpisToPlans"][2] = "calculated_kpis"
BY DEF Mark

\* The marks that down() may take away: its own, and those on its table.
Own(name) == {name} \cup {other \in DOMAIN Needs : Needs[other] = name}

LEMMA OwnMarks ==
  /\ \A name : name \in Own(name)
  /\ "AddNumberOfBranchesToCustomers" \in Own("CreateCustomers")
  /\ "AddMissingFieldsToAgreements" \in Own("CreateAgreements")
  /\ "AddAdditionalParamsToAgreements" \in Own("CreateAgreements")
  /\ "AddSpendManagementTables" \in Own("CreateMasterDataEntities")
  /\ "AddPromoMechanicsConfig" \in Own("CreateMasterDataEntities")
  /\ "AddFiscalPeriodToAgreementTransaction" \in
       Own("CreateAgreementTransactions")
  /\ "AddCalculatedKpisToPlans" \in Own("CreatePlans")
BY DEF Own, Needs

AllFit(statements, taken, founded) ==
  /\ Len(statements) \in Nat
  /\ \A n \in 1..Len(statements) : Fit(statements[n], taken, founded)

\* up() takes no mark away and creates no table of the bases but its own;
\* down() takes away what it may.
Fits(name, migration) ==
  /\ AllFit(migration.up, {}, {name})
  /\ AllFit(migration.down, Own(name), {})

LEMMA MigrationsFit ==
  ASSUME NEW name \in DOMAIN Migration
  PROVE  Fits(name, Migration[name])
<1>1. Fits("CreateTenants", CreateTenants)
  <2>1. IsTable(Tenants)
    BY TablesAreTables DEF Tenants
  <2>2. Founded("tenants", {"CreateTenants"})
    BY BasesAt DEF Founded
  <2>3. AllFit(CreateTenants.up, {}, {"CreateTenants"})
    BY FitCreate, <2>1, <2>2 DEF AllFit, CreateTenants
  <2>4. Untouched("tenants", Own("CreateTenants"))
    BY MarksAt, OwnMarks DEF Untouched
  <2>5. AllFit(CreateTenants.down, Own("CreateTenants"), {})
    BY FitDropTable, <2>4 DEF AllFit, CreateTenants
  <2>6. QED
    BY <2>3, <2>5 DEF Fits
<1>2. Fits("CreateUsers", CreateUsers)
  <2>1. IsTable(Users)
    BY TablesAreTables DEF Users
  <2>2. Founded("users", {"CreateUsers"})
    BY BasesAt DEF Founded
  <2>3. AllFit(CreateUsers.up, {}, {"CreateUsers"})
    BY FitLabels, FitCreate, <2>1, <2>2 DEF AllFit, CreateUsers
  <2>4. Untouched("users", Own("CreateUsers"))
    BY MarksAt, OwnMarks DEF Untouched
  <2>5. AllFit(CreateUsers.down, Own("CreateUsers"), {})
    BY FitDropTable, FitLabels, <2>4 DEF AllFit, CreateUsers
  <2>6. QED
    BY <2>3, <2>5 DEF Fits
<1>3. Fits("CreateCustomers", CreateCustomers)
  <2>1. IsTable(Customers)
    BY TablesAreTables DEF Customers
  <2>2. Founded("customers", {"CreateCustomers"})
    BY BasesAt DEF Founded
  <2>3. AllFit(CreateCustomers.up, {}, {"CreateCustomers"})
    BY FitCreate, <2>1, <2>2 DEF AllFit, CreateCustomers
  <2>4. Untouched("customers", Own("CreateCustomers"))
    BY MarksAt, OwnMarks DEF Untouched
  <2>5. AllFit(CreateCustomers.down, Own("CreateCustomers"), {})
    BY FitDropTable, <2>4 DEF AllFit, CreateCustomers
  <2>6. QED
    BY <2>3, <2>5 DEF Fits
<1>4. Fits("AddNumberOfBranchesToCustomers", AddNumberOfBranchesToCustomers)
  <2>1. AllFit(AddNumberOfBranchesToCustomers.up,
               {}, {"AddNumberOfBranchesToCustomers"})
    BY FitAddColumns DEF AllFit, AddNumberOfBranchesToCustomers
  <2>2. \A columns :
          "id" \notin columns =>
            UntouchedColumns("customers", columns,
              Own("AddNumberOfBranchesToCustomers"))
    BY MarksAt, MarkColumns, OwnMarks DEF UntouchedColumns
  <2>3. AllFit(AddNumberOfBranchesToCustomers.down,
               Own("AddNumberOfBranchesToCustomers"), {})
    BY FitDropColumns, <2>2 DEF AllFit, AddNumberOfBranchesToCustomers
  <2>4. QED
    BY <2>1, <2>3 DEF Fits
<1>5. Fits("CreateBudgetEnvelopes", CreateBudgetEnvelopes)
  <2>1. IsTable(BudgetEnvelopes)
    BY TablesAreTables DEF BudgetEnvelopes
  <2>2. Founded("budget_envelopes", {"CreateBudgetEnvelopes"})
    BY BasesAt DEF Founded
  <2>3. AllFit(CreateBudgetEnvelopes.up, {}, {"CreateBudgetEnvelopes"})
    BY FitCreate, <2>1, <2>2 DEF AllFit, CreateBudgetEnvelopes
  <2>4. Untouched("budget_envelopes", Own("CreateBudgetEnvelopes"))
    BY MarksAt, OwnMarks DEF Untouched
  <2>5. AllFit(CreateBudgetEnvelopes.down, Own("CreateBudgetEnvelopes"), {})
    BY FitDropTable, <2>4 DEF AllFit, CreateBudgetEnvelopes
  <2>6. QED
    BY <2>3, <2>5 DEF Fits
<1>6. Fits("CreateBudgetTransactions", CreateBudgetTransactions)
  <2>1. IsTable(BudgetTransactions)
    BY TablesAreTables DEF BudgetTransactions
  <2>2. Founded("budget_transactions", {"CreateBudgetTransactions"})
    BY BasesAt DEF Founded
  <2>3. AllFit(CreateBudgetTransactions.up, {}, {"CreateBudgetTransactions"})
    BY FitCreate, <2>1, <2>2 DEF AllFit, CreateBudgetTransactions
  <2>4. Untouched("budget_transactions",
           Own("CreateBudgetTransactions"))
    BY MarksAt, OwnMarks DEF Untouched
  <2>5. AllFit(CreateBudgetTransactions.down,
               Own("CreateBudgetTransactions"), {})
    BY FitDropTable, <2>4 DEF AllFit, CreateBudgetTransactions
  <2>6. QED
    BY <2>3, <2>5 DEF Fits
<1>7. Fits("CreateLedgerEntries", CreateLedgerEntries)
  <2>1. IsTable(LedgerEntries)
    BY TablesAreTables DEF LedgerEntries
  <2>2. Founded("ledger_entries", {"CreateLedgerEntries"})
    BY BasesAt DEF Founded
  <2>3. AllFit(CreateLedgerEntries.up, {}, {"CreateLedgerEntries"})
    BY FitCreate, <2>1, <2>2 DEF AllFit, CreateLedgerEntries
  <2>4. Untouched("ledger_entries", Own("CreateLedgerEntries"))
    BY MarksAt, OwnMarks DEF Untouched
  <2>5. AllFit(CreateLedgerEntries.down, Own("CreateLedgerEntries"), {})
    BY FitDropTable, <2>4 DEF AllFit, CreateLedgerEntries
  <2>6. QED
    BY <2>3, <2>5 DEF Fits
<1>8. Fits("CreateBudgetReservations", CreateBudgetReservations)
  <2>1. IsTable(BudgetReservations)
    BY TablesAreTables DEF BudgetReservations
  <2>2. Founded("budget_reservations", {"CreateBudgetReservations"})
    BY BasesAt DEF Founded
  <2>3. AllFit(CreateBudgetReservations.up, {}, {"CreateBudgetReservations"})
    BY FitCreate, <2>1, <2>2 DEF AllFit, CreateBudgetReservations
  <2>4. Untouched("budget_reservations",
           Own("CreateBudgetReservations"))
    BY MarksAt, OwnMarks DEF Untouched
  <2>5. AllFit(CreateBudgetReservations.down,
               Own("CreateBudgetReservations"), {})
    BY FitDropTable, <2>4 DEF AllFit, CreateBudgetReservations
  <2>6. QED
    BY <2>3, <2>5 DEF Fits
<1>9. Fits("CreateNotifications", CreateNotifications)
  <2>1. IsTable(Notifications)
    BY TablesAreTables DEF Notifications
  <2>2. Founded("notifications", {"CreateNotifications"})
    BY BasesAt DEF Founded
  <2>3. AllFit(CreateNotifications.up, {}, {"CreateNotifications"})
    BY FitCreate, <2>1, <2>2 DEF AllFit, CreateNotifications
  <2>4. Untouched("notifications", Own("CreateNotifications"))
    BY MarksAt, OwnMarks DEF Untouched
  <2>5. AllFit(CreateNotifications.down, Own("CreateNotifications"), {})
    BY FitDropTable, <2>4 DEF AllFit, CreateNotifications
  <2>6. QED
    BY <2>3, <2>5 DEF Fits
<1>10. Fits("CreateAdminAuditLogs", CreateAdminAuditLogs)
  <2>1. IsTable(AdminAuditLogs)
    BY TablesAreTables DEF AdminAuditLogs
  <2>2. Founded("admin_audit_logs", {"CreateAdminAuditLogs"})
    BY BasesAt DEF Founded
  <2>3. AllFit(CreateAdminAuditLogs.up, {}, {"CreateAdminAuditLogs"})
    BY FitCreate, <2>1, <2>2 DEF AllFit, CreateAdminAuditLogs
  <2>4. Untouched("admin_audit_logs", Own("CreateAdminAuditLogs"))
    BY MarksAt, OwnMarks DEF Untouched
  <2>5. AllFit(CreateAdminAuditLogs.down, Own("CreateAdminAuditLogs"), {})
    BY FitDropTable, <2>4 DEF AllFit, CreateAdminAuditLogs
  <2>6. QED
    BY <2>3, <2>5 DEF Fits
<1>11. Fits("CreateBudgetSummaryView", CreateBudgetSummaryView)
  <2>1. AllFit(CreateBudgetSummaryView.up, {}, {"CreateBudgetSummaryView"})
    BY FitView DEF AllFit, CreateBudgetSummaryView
  <2>2. AllFit(CreateBudgetSummaryView.down,
               Own("CreateBudgetSummaryView"), {})
    BY FitView DEF AllFit, CreateBudgetSummaryView
  <2>3. QED
    BY <2>1, <2>2 DEF Fits
<1>12. Fits("CreateAgreements", CreateAgreements)
  <2>1. IsTable(Agreements)
    BY TablesAreTables DEF Agreements
  <2>2. Founded("agreements", {"CreateAgreements"})
    BY BasesAt DEF Founded
  <2>3. AllFit(CreateAgreements.up, {}, {"CreateAgreements"})
    BY FitCreate, <2>1, <2>2 DEF AllFit, CreateAgreements
  <2>4. Untouched("agreements", Own("CreateAgreements"))
    BY MarksAt, OwnMarks DEF Untouched
  <2>5. AllFit(CreateAgreements.down, Own("CreateAgreements"), {})
    BY FitDropTable, <2>4 DEF AllFit, CreateAgreements
  <2>6. QED
    BY <2>3, <2>5 DEF Fits
<1>13. Fits("CreateApprovalRequests", CreateApprovalRequests)
  <2>1. IsTable(ApprovalRequests)
    BY TablesAreTables DEF ApprovalRequests
  <2>2. Founded("approval_requests", {"CreateApprovalRequests"})
    BY BasesAt DEF Founded
  <2>3. AllFit(CreateApprovalRequests.up, {}, {"CreateApprovalRequests"})
    BY FitLabels, FitCreate, FitReferences, <2>1, <2>2 DEF AllFit,
       CreateApprovalRequests
  <2>4. Untouched("approval_requests", Own("CreateApprovalRequests"))
    BY MarksAt, OwnMarks DEF Untouched
  <2>5. AllFit(CreateApprovalRequests.down,
               Own("CreateApprovalRequests"), {})
    BY FitReferences, FitDropTable, FitLabels, <2>4 DEF AllFit,
       CreateApprovalRequests
  <2>6. QED
    BY <2>3, <2>5 DEF Fits
<1>14. Fits("CreateAgreementTransactions", CreateAgreementTransactions)
  <2>1. IsTable(AgreementTransactions)
    BY TablesAreTables DEF AgreementTransactions
  <2>2. Founded("agreement_transactions",
           {"CreateAgreementTransactions"})
    BY BasesAt DEF Founded
  <2>3. AllFit(CreateAgreementTransactions.up,
               {}, {"CreateAgreementTransactions"})
    BY FitCreate, <2>1, <2>2 DEF AllFit, CreateAgreementTransactions
  <2>4. Untouched("agreement_transactions",
           Own("CreateAgreementTransactions"))
    BY MarksAt, OwnMarks DEF Untouched
  <2>5. AllFit(CreateAgreementTransactions.down,
               Own("CreateAgreementTransactions"), {})
    BY FitDropTable, <2>4 DEF AllFit, CreateAgreementTransactions
  <2>6. QED
    BY <2>3, <2>5 DEF Fits
<1>15. Fits("AddMissingFieldsToAgreements", AddMissingFieldsToAgreements)
  <2>1. AllFit(AddMissingFieldsToAgreements.up,
               {}, {"AddMissingFieldsToAgreements"})
    BY FitAddColumns DEF AllFit, AddMissingFieldsToAgreements
  <2>2. \A columns :
          "id" \notin columns /\ "kpi_results" \notin columns =>
            UntouchedColumns("agreements", columns,
              Own("AddMissingFieldsToAgreements"))
    BY MarksAt, MarkColumns, OwnMarks DEF UntouchedColumns
  <2>3. AllFit(AddMissingFieldsToAgreements.down,
               Own("AddMissingFieldsToAgreements"), {})
    BY FitDropColumns, <2>2 DEF AllFit, AddMissingFieldsToAgreements
  <2>4. QED
    BY <2>1, <2>3 DEF Fits
<1>16. Fits("CreateMasterDataEntities", CreateMasterDataEntities)
  <2>1. /\ IsTable(Brands)
        /\ IsTable(Categories)
        /\ IsTable(Channels)
        /\ IsTable(Regions)
        /\ IsTable(GenericUnits)
        /\ IsTable(ForecastingUnits)
        /\ IsTable(Skus)
        /\ IsTable(Tactics)
        /\ IsTable(Mechanics)
        /\ IsTable(Cpls)
    BY TablesAreTables DEF Brands, Categories, Channels, Regions,
       GenericUnits, ForecastingUnits, Skus, Tactics, Mechanics, Cpls
  <2>2. /\ Founded("brands", {"CreateMasterDataEntities"})
        /\ Founded("categories", {"CreateMasterDataEntities"})
        /\ Founded("channels", {"CreateMasterDataEntities"})
        /\ Founded("regions", {"CreateMasterDataEntities"})
        /\ Founded("generic_units", {"CreateMasterDataEntities"})
        /\ Founded("forecasting_units", {"CreateMasterDataEntities"})
        /\ Founded("skus", {"CreateMasterDataEntities"})
        /\ Founded("tactics", {"CreateMasterDataEntities"})
        /\ Founded("mechanics", {"CreateMasterDataEntities"})
        /\ Founded("cpls", {"CreateMasterDataEntities"})
    BY BasesAt DEF Founded
  <2>3. AllFit(CreateMasterDataEntities.up, {}, {"CreateMasterDataEntities"})
    BY FitCreate, FitAddColumns, FitReferences, <2>1, <2>2 DEF AllFit,
       CreateMasterDataEntities
  <2>4. /\ Untouched("cpls", Own("CreateMasterDataEntities"))
        /\ Untouched("mechanics", Own("CreateMasterDataEntities"))
        /\ Untouched("tactics", Own("CreateMasterDataEntities"))
        /\ Untouched("skus", Own("CreateMasterDataEntities"))
        /\ Untouched("forecasting_units", Own("CreateMasterDataEntities"))
        /\ Untouched("generic_units", Own("CreateMasterDataEntities"))
        /\ Untouched("regions", Own("CreateMasterDataEntities"))
        /\ Untouched("channels", Own("CreateMasterDataEntities"))
        /\ Untouched("categories", Own("CreateMasterDataEntities"))
        /\ Untouched("brands", Own("CreateMasterDataEntities"))
    BY MarksAt, OwnMarks DEF Untouched
  <2>5. \A columns :
          "id" \notin columns /\ "number_of_branches" \notin columns =>
            UntouchedColumns("customers", columns,
              Own("CreateMasterDataEntities"))
    BY MarksAt, MarkColumns, OwnMarks DEF UntouchedColumns
  <2>6. AllFit(CreateMasterDataEntities.down,
               Own("CreateMasterDataEntities"), {})
    BY FitDropColumns, FitDropTable, <2>4, <2>5 DEF AllFit,
       CreateMasterDataEntities
  <2>7. QED
    BY <2>3, <2>6 DEF Fits
<1>17. Fits("UpdateAgreementsMasterDataRelations",
            UpdateAgreementsMasterDataRelations)
  <2>1. \A columns :
          "id" \notin columns /\ "description" \notin columns
            /\ "kpi_results" \notin columns =>
            UntouchedColumns("agreements", columns,
              {})
    BY MarksAt, MarkColumns DEF UntouchedColumns
  <2>2. AllFit(UpdateAgreementsMasterDataRelations.up,
               {}, {"UpdateAgreementsMasterDataRelations"})
    BY FitAddColumns, FitDropColumns, FitReferences, FitView, <2>1 DEF AllFit,
       UpdateAgreementsMasterDataRelations
  <2>3. \A columns :
          "id" \notin columns /\ "description" \notin columns
            /\ "kpi_results" \notin columns =>
            UntouchedColumns("agreements", columns,
              Own("UpdateAgreementsMasterDataRelations"))
    BY MarksAt, MarkColumns, OwnMarks DEF UntouchedColumns
  <2>4. AllFit(UpdateAgreementsMasterDataRelations.down,
               Own("UpdateAgreementsMasterDataRelations"), {})
    BY FitReferences, FitAddColumns, FitDropColumns, <2>3 DEF AllFit,
       UpdateAgreementsMasterDataRelations
  <2>5. QED
    BY <2>2, <2>4 DEF Fits
<1>18. Fits("CreateKpis", CreateKpis)
  <2>1. IsTable(Kpis)
    BY TablesAreTables DEF Kpis
  <2>2. Founded("kpis", {"CreateKpis"})
    BY BasesAt DEF Founded
  <2>3. AllFit(CreateKpis.up, {}, {"CreateKpis"})
    BY FitCreate, <2>1, <2>2 DEF AllFit, CreateKpis
  <2>4. Untouched("kpis", Own("CreateKpis"))
    BY MarksAt, OwnMarks DEF Untouched
  <2>5. AllFit(CreateKpis.down, Own("CreateKpis"), {})
    BY FitDropTable, <2>4 DEF AllFit, CreateKpis
  <2>6. QED
    BY <2>3, <2>5 DEF Fits
<1>19. Fits("CreatePlans", CreatePlans)
  <2>1. /\ IsTable(Plans)
        /\ IsTable(PlanFus)
        /\ IsTable(PlanSkus)
    BY TablesAreTables DEF Plans, PlanFus, PlanSkus
  <2>2. /\ Founded("plans", {"CreatePlans"})
        /\ Founded("plan_fus", {"CreatePlans"})
        /\ Founded("plan_skus", {"CreatePlans"})
    BY BasesAt DEF Founded
  <2>3. AllFit(CreatePlans.up, {}, {"CreatePlans"})
    BY FitLabels, FitCreate, <2>1, <2>2 DEF AllFit, CreatePlans
  <2>4. /\ Untouched("plan_skus", Own("CreatePlans"))
        /\ Untouched("plan_fus", Own("CreatePlans"))
        /\ Untouched("plans", Own("CreatePlans"))
    BY MarksAt, OwnMarks DEF Untouched
  <2>5. AllFit(CreatePlans.down, Own("CreatePlans"), {})
    BY FitReferences, FitDropTable, FitLabels, <2>4 DEF AllFit, CreatePlans
  <2>6. QED
    BY <2>3, <2>5 DEF Fits
<1>20. Fits("AddPlanToApprovalRequestTypeEnum",
           AddPlanToApprovalRequestTypeEnum)
  <2>1. AllFit(AddPlanToApprovalRequestTypeEnum.up,
               {}, {"AddPlanToApprovalRequestTypeEnum"})
    BY FitLabels DEF AllFit, AddPlanToApprovalRequestTypeEnum
  <2>2. AllFit(AddPlanToApprovalRequestTypeEnum.down,
               Own("AddPlanToApprovalRequestTypeEnum"), {})
    BY DEF AllFit, AddPlanToApprovalRequestTypeEnum
  <2>3. QED
    BY <2>1, <2>2 DEF Fits
<1>21. Fits("AddChannelCategoryToBudgetEnvelope",
            AddChannelCategoryToBudgetEnvelope)
  <2>1. AllFit(AddChannelCategoryToBudgetEnvelope.up,
               {}, {"AddChannelCategoryToBudgetEnvelope"})
    BY FitAddColumns DEF AllFit, AddChannelCategoryToBudgetEnvelope
  <2>2. \A columns :
          "id" \notin columns =>
            UntouchedColumns("budget_envelopes", columns,
              Own("AddChannelCategoryToBudgetEnvelope"))
    BY MarksAt, MarkColumns, OwnMarks DEF UntouchedColumns
  <2>3. AllFit(AddChannelCategoryToBudgetEnvelope.down,
               Own("AddChannelCategoryToBudgetEnvelope"), {})
    BY FitDropColumns, <2>2 DEF AllFit, AddChannelCategoryToBudgetEnvelope
  <2>4. QED
    BY <2>1, <2>3 DEF Fits
<1>22. Fits("RemoveOldChannelColumnFromAgreements",
            RemoveOldChannelColumnFromAgreements)
  <2>1. \A columns :
          "id" \notin columns /\ "description" \notin columns
            /\ "kpi_results" \notin columns =>
            UntouchedColumns("agreements", columns,
              {})
    BY MarksAt, MarkColumns DEF UntouchedColumns
  <2>2. AllFit(RemoveOldChannelColumnFromAgreements.up,
               {}, {"RemoveOldChannelColumnFromAgreements"})
    BY FitDropColumns, <2>1 DEF AllFit, RemoveOldChannelColumnFromAgreements
  <2>3. AllFit(RemoveOldChannelColumnFromAgreements.down,
               Own("RemoveOldChannelColumnFromAgreements"), {})
    BY FitAddColumns DEF AllFit, RemoveOldChannelColumnFromAgreements
  <2>4. QED
    BY <2>2, <2>3 DEF Fits
<1>23. Fits("AddAdditionalParamsToAgreements", AddAdditionalParamsToAgreements)
  <2>1. AllFit(AddAdditionalParamsToAgreements.up,
               {}, {"AddAdditionalParamsToAgreements"})
    BY FitAddColumns DEF AllFit, AddAdditionalParamsToAgreements
  <2>2. \A columns :
          "id" \notin columns /\ "description" \notin columns =>
            UntouchedColumns("agreements", columns,
              Own("AddAdditionalParamsToAgreements"))
    BY MarksAt, MarkColumns, OwnMarks DEF UntouchedColumns
  <2>3. AllFit(AddAdditionalParamsToAgreements.down,
               Own("AddAdditionalParamsToAgreements"), {})
    BY FitDropColumns, <2>2 DEF AllFit, AddAdditionalParamsToAgreements
  <2>4. QED
    BY <2>1, <2>3 DEF Fits
<1>24. Fits("MakeFuIdNullableInAgreements", MakeFuIdNullableInAgreements)
  <2>1. AllFit(MakeFuIdNullableInAgreements.up,
               {}, {"MakeFuIdNullableInAgreements"})
    BY FitReferences, FitRequire DEF AllFit, MakeFuIdNullableInAgreements
  <2>2. AllFit(MakeFuIdNullableInAgreements.down,
               Own("MakeFuIdNullableInAgreements"), {})
    BY FitReferences, FitRequire DEF AllFit, MakeFuIdNullableInAgreements
  <2>3. QED
    BY <2>1, <2>2 DEF Fits
<1>25. Fits("UpdateBudgetAllocationStructure", UpdateBudgetAllocationStructure)
  <2>1. /\ IsTable(BudgetAllocations)
        /\ IsTable(BudgetTransactionLogs)
        /\ IsTable(BudgetAlertConfigurations)
    BY TablesAreTables DEF BudgetAllocations, BudgetTransactionLogs,
       BudgetAlertConfigurations
  <2>2. /\ Founded("budget_allocations",
           {"UpdateBudgetAllocationStructure"})
        /\ Founded("budget_transaction_logs",
           {"UpdateBudgetAllocationStructure"})
        /\ Founded("budget_alert_configurations",
           {"UpdateBudgetAllocationStructure"})
    BY BasesAt DEF Founded
  <2>3. \A columns :
          UntouchedColumns("budget_allocations", columns,
            {})
    BY MarksAt, MarkColumns DEF UntouchedColumns
  <2>4. AllFit(UpdateBudgetAllocationStructure.up,
               {}, {"UpdateBudgetAllocationStructure"})
    BY FitCreate, FitReferences, FitDropColumns, FitAddColumns, <2>1, <2>2,
       <2>3 DEF AllFit, UpdateBudgetAllocationStructure
  <2>5. /\ Untouched("budget_alert_configurations",
           Own("UpdateBudgetAllocationStructure"))
        /\ Untouched("budget_transaction_logs",
           Own("UpdateBudgetAllocationStructure"))
    BY MarksAt, OwnMarks DEF Untouched
  <2>6. \A columns :
          UntouchedColumns("budget_allocations", columns,
            Own("UpdateBudgetAllocationStructure"))
    BY MarksAt, MarkColumns, OwnMarks DEF UntouchedColumns
  <2>7. AllFit(UpdateBudgetAllocationStructure.down,
               Own("UpdateBudgetAllocationStructure"), {})
    BY FitDropTable, FitDropColumns, <2>5, <2>6 DEF AllFit,
       UpdateBudgetAllocationStructure
  <2>8. QED
    BY <2>4, <2>7 DEF Fits
<1>26. Fits("AddFinanceManagerAndCategoryManagerRoles",
            AddFinanceManagerAndCategoryManagerRoles)
  <2>1. AllFit(AddFinanceManagerAndCategoryManagerRoles.up,
               {}, {"AddFinanceManagerAndCategoryManagerRoles"})
    BY FitLabels DEF AllFit, AddFinanceManagerAndCategoryManagerRoles
  <2>2. AllFit(AddFinanceManagerAndCategoryManagerRoles.down,
               Own("AddFinanceManagerAndCategoryManagerRoles"), {})
    BY DEF AllFit, AddFinanceManagerAndCategoryManagerRoles
  <2>3. QED
    BY <2>1, <2>2 DEF Fits
<1>27. Fits("AddSpendManagementTables", AddSpendManagementTables)
  <2>1. /\ IsTable(PlanMechanicValues)
        /\ IsTable(MechanicSpendBreakdowns)
        /\ IsTable(SpendLtaAgreements)
        /\ IsTable(SpendBudgetAllocations)
    BY TablesAreTables DEF PlanMechanicValues, MechanicSpendBreakdowns,
       SpendLtaAgreements, SpendBudgetAllocations
  <2>2. /\ Founded("plan_mechanic_values", {"AddSpendManagementTables"})
        /\ Founded("mechanic_spend_breakdown",
           {"AddSpendManagementTables"})
        /\ Founded("lta_agreements", {"AddSpendManagementTables"})
        /\ Founded("budget_allocations", {"AddSpendManagementTables"})
    BY BasesAt DEF Founded
  <2>3. AllFit(AddSpendManagementTables.up, {}, {"AddSpendManagementTables"})
    BY FitAddColumns, FitCreate, <2>1, <2>2 DEF AllFit,
       AddSpendManagementTables
  <2>4. /\ Untouched("budget_allocations",
           Own("AddSpendManagementTables"))
        /\ Untouched("lta_agreements", Own("AddSpendManagementTables"))
        /\ Untouched("mechanic_spend_breakdown",
           Own("AddSpendManagementTables"))
        /\ Untouched("plan_mechanic_values",
           Own("AddSpendManagementTables"))
    BY MarksAt, OwnMarks DEF Untouched
  <2>5. /\ \A columns :
          "id" \notin columns /\ "calculated_kpis" \notin columns =>
            UntouchedColumns("plan_skus", columns,
              Own("AddSpendManagementTables"))
        /\ \A columns :
          "id" \notin columns /\ "input_type" \notin columns =>
            UntouchedColumns("mechanics", columns,
              Own("AddSpendManagementTables"))
    BY MarksAt, MarkColumns, OwnMarks DEF UntouchedColumns
  <2>6. AllFit(AddSpendManagementTables.down,
               Own("AddSpendManagementTables"), {})
    BY FitDropColumns, FitDropTable, <2>4, <2>5 DEF AllFit,
       AddSpendManagementTables
  <2>7. QED
    BY <2>3, <2>6 DEF Fits
<1>28. Fits("AddPromoMechanicsConfig", AddPromoMechanicsConfig)
  <2>1. AllFit(AddPromoMechanicsConfig.up, {}, {"AddPromoMechanicsConfig"})
    BY FitAddColumns DEF AllFit, AddPromoMechanicsConfig
  <2>2. \A columns :
          "id" \notin columns /\ "spending_type" \notin columns =>
            UntouchedColumns("mechanics", columns,
              Own("AddPromoMechanicsConfig"))
    BY MarksAt, MarkColumns, OwnMarks DEF UntouchedColumns
  <2>3. AllFit(AddPromoMechanicsConfig.down,
               Own("AddPromoMechanicsConfig"), {})
    BY FitDropColumns, <2>2 DEF AllFit, AddPromoMechanicsConfig
  <2>4. QED
    BY <2>1, <2>3 DEF Fits
<1>29. Fits("UpdateLTAAgreementsStructure", UpdateLTAAgreementsStructure)
  <2>1. /\ IsTable(LtaAgreements)
        /\ IsTable(LtaRates)
        /\ IsTable(LtaPlanOverrides)
    BY TablesAreTables DEF LtaAgreements, LtaRates, LtaPlanOverrides
  <2>2. /\ Founded("lta_agreements", {"UpdateLTAAgreementsStructure"})
        /\ Founded("lta_rates", {"UpdateLTAAgreementsStructure"})
        /\ Founded("lta_plan_overrides", {"UpdateLTAAgreementsStructure"})
    BY BasesAt DEF Founded
  <2>3. \A columns :
          UntouchedColumns("lta_agreements", columns,
            {})
    BY MarksAt, MarkColumns DEF UntouchedColumns
  <2>4. AllFit(UpdateLTAAgreementsStructure.up,
               {}, {"UpdateLTAAgreementsStructure"})
    BY FitCreate, FitReferences, FitDropColumns, FitAddColumns, <2>1, <2>2,
       <2>3 DEF AllFit, UpdateLTAAgreementsStructure
  <2>5. /\ Untouched("lta_plan_overrides",
           Own("UpdateLTAAgreementsStructure"))
        /\ Untouched("lta_rates", Own("UpdateLTAAgreementsStructure"))
    BY MarksAt, OwnMarks DEF Untouched
  <2>6. \A columns :
          UntouchedColumns("lta_agreements", columns,
            Own("UpdateLTAAgreementsStructure"))
    BY MarksAt, MarkColumns, OwnMarks DEF UntouchedColumns
  <2>7. AllFit(UpdateLTAAgreementsStructure.down,
               Own("UpdateLTAAgreementsStructure"), {})
    BY FitDropTable, FitDropColumns, <2>5, <2>6 DEF AllFit,
       UpdateLTAAgreementsStructure
  <2>8. QED
    BY <2>4, <2>7 DEF Fits
<1>30. Fits("AddApprovalWorkflowFieldsToPlans",
           AddApprovalWorkflowFieldsToPlans)
  <2>1. IsTable(PlanApprovalHistory)
    BY TablesAreTables DEF PlanApprovalHistory
  <2>2. Founded("plan_approval_history",
           {"AddApprovalWorkflowFieldsToPlans"})
    BY BasesAt DEF Founded
  <2>3. AllFit(AddApprovalWorkflowFieldsToPlans.up,
               {}, {"AddApprovalWorkflowFieldsToPlans"})
    BY FitLabels, FitAddColumns, FitReferences, FitCreate, <2>1, <2>2 DEF
       AllFit, AddApprovalWorkflowFieldsToPlans
  <2>4. Untouched("plan_approval_history",
           Own("AddApprovalWorkflowFieldsToPlans"))
    BY MarksAt, OwnMarks DEF Untouched
  <2>5. \A columns :
          UntouchedColumns("plans", columns,
            Own("AddApprovalWorkflowFieldsToPlans"))
    BY MarksAt, MarkColumns, OwnMarks DEF UntouchedColumns
  <2>6. AllFit(AddApprovalWorkflowFieldsToPlans.down,
               Own("AddApprovalWorkflowFieldsToPlans"), {})
    BY FitDropTable, FitReferences, FitDropColumns, <2>4, <2>5 DEF AllFit,
       AddApprovalWorkflowFieldsToPlans
  <2>7. QED
    BY <2>3, <2>6 DEF Fits
<1>31. Fits("AddFiscalPeriodToAgreementTransaction",
            AddFiscalPeriodToAgreementTransaction)
  <2>1. AllFit(AddFiscalPeriodToAgreementTransaction.up,
               {}, {"AddFiscalPeriodToAgreementTransaction"})
    BY FitAddColumns DEF AllFit, AddFiscalPeriodToAgreementTransaction
  <2>2. \A columns :
          "id" \notin columns =>
            UntouchedColumns("agreement_transactions", columns,
              Own("AddFiscalPeriodToAgreementTransaction"))
    BY MarksAt, MarkColumns, OwnMarks DEF UntouchedColumns
  <2>3. AllFit(AddFiscalPeriodToAgreementTransaction.down,
               Own("AddFiscalPeriodToAgreementTransaction"), {})
    BY FitDropColumns, <2>2 DEF AllFit, AddFiscalPeriodToAgreementTransaction
  <2>4. QED
    BY <2>1, <2>3 DEF Fits
<1>32. Fits("CreateOnInvoiceTables", CreateOnInvoiceTables)
  <2>1. /\ IsTable(OnInvoiceBatches)
        /\ IsTable(OnInvoiceEntries)
    BY TablesAreTables DEF OnInvoiceBatches, OnInvoiceEntries
  <2>2. /\ Founded("on_invoice_batches", {"CreateOnInvoiceTables"})
        /\ Founded("on_invoice_entries", {"CreateOnInvoiceTables"})
    BY BasesAt DEF Founded
  <2>3. AllFit(CreateOnInvoiceTables.up, {}, {"CreateOnInvoiceTables"})
    BY FitCreate, <2>1, <2>2 DEF AllFit, CreateOnInvoiceTables
  <2>4. /\ Untouched("on_invoice_entries", Own("CreateOnInvoiceTables"))
        /\ Untouched("on_invoice_batches", Own("CreateOnInvoiceTables"))
    BY MarksAt, OwnMarks DEF Untouched
  <2>5. AllFit(CreateOnInvoiceTables.down, Own("CreateOnInvoiceTables"), {})
    BY FitReferences, FitDropTable, <2>4 DEF AllFit, CreateOnInvoiceTables
  <2>6. QED
    BY <2>3, <2>5 DEF Fits
<1>33. Fits("AddCalculatedKpisToPlans", AddCalculatedKpisToPlans)
  <2>1. AllFit(AddCalculatedKpisToPlans.up, {}, {"AddCalculatedKpisToPlans"})
    BY FitAddColumns DEF AllFit, AddCalculatedKpisToPlans
  <2>2. /\ \A columns :
          "id" \notin columns =>
            UntouchedColumns("plan_skus", columns,
              Own("AddCalculatedKpisToPlans"))
        /\ \A columns :
          UntouchedColumns("plan_fus", columns,
            Own("AddCalculatedKpisToPlans"))
    BY MarksAt, MarkColumns, OwnMarks DEF UntouchedColumns
  <2>3. AllFit(AddCalculatedKpisToPlans.down,
               Own("AddCalculatedKpisToPlans"), {})
    BY FitDropColumns, <2>2 DEF AllFit, AddCalculatedKpisToPlans
  <2>4. QED
    BY <2>1, <2>3 DEF Fits
<1>34. QED
  BY <1>1, <1>2, <1>3, <1>4, <1>5, <1>6, <1>7, <1>8, <1>9, <1>10, <1>11,
     <1>12, <1>13, <1>14, <1>15, <1>16, <1>17, <1>18, <1>19, <1>20, <1>21,
     <1>22, <1>23, <1>24, <1>25, <1>26, <1>27, <1>28, <1>29, <1>30, <1>31,
     <1>32, <1>33 DEF Migration

-----------------------------------------------------------------------------
(* The schema stays well formed.                                           *)

LEMMA MigrationsWellFormed ==
  ASSUME NEW name \in DOMAIN Migration
  PROVE  /\ AllWellFormed(Migration[name].up)
         /\ AllWellFormed(Migration[name].down)
BY MigrationsFit DEF Fits, AllFit, Fit, AllWellFormed

LEMMA NamesKnown ==
  /\ Timeline \in Seq(Names)
  /\ Names = DOMAIN Migration
<1>1. Timeline \in Seq(Range(Timeline))
  BY DEF Timeline, Range
<1>2. QED
  BY <1>1, MigrationAssumption DEF Names

\* A migration that succeeds was run on a schema no statement was refused on.
LEMMA ExecuteOk ==
  ASSUME NEW s, Sound(s), NEW statements, AllWellFormed(statements),
         Execute(s, statements).ok
  PROVE  s.ok
<1>1. PICK f : Course(f, s, statements)
  BY ExecuteCourse
<1>2. Len(statements) \in Nat
  BY DEF AllWellFormed
<1>3. CASE Len(statements) = 0
  BY <1>1, <1>3 DEF Course
<1>4. CASE Len(statements) # 0
  <2>1. 1 \in 1..Len(statements) /\ 1 - 1 = 0
    BY <1>2, <1>4
  <2>2. f[1 - 1].ok
    BY <1>1, <2>1, CourseOk
  <2>3. QED
    BY <1>1, <2>1, <2>2 DEF Course
<1>5. QED
  BY <1>3, <1>4

\* f[n] is the schema after n of the migrations.
Passage(f, names) ==
  /\ f[0] = schema
  /\ f[Len(names)] = After(names)
  /\ \A n \in 0..Len(names) : Sound(f[n]) /\ f[n].ok
  /\ \A n \in 1..Len(names) :
       f[n] = Execute(f[n - 1], Migration[names[n]].up)

LEMMA AfterPassage ==
  ASSUME NEW names \in Seq(Names), Sound(schema), After(names).ok
  PROVE  \E f : Passage(f, names)
<1>1. PICK f : /\ Migrates(f, schema, names, Len(names))
               /\ After(names) = f[Len(names)]
  BY AfterIs
<1>2. /\ f[0] = schema
      /\ \A n \in 1..Len(names) :
           f[n] = Execute(f[n - 1], Migration[names[n]].up)
  BY <1>1 DEF Migrates
<1>3. \A n \in 1..Len(names) : AllWellFormed(Migration[names[n]].up)
  <2>1. \A n \in 1..Len(names) : names[n] \in DOMAIN Migration
    BY NamesKnown
  <2>2. QED
    BY <2>1, MigrationsWellFormed
<1>4. \A n \in 0..Len(names) : Sound(f[n])
  <2> DEFINE F == {n \in 0..Len(names) : ~Sound(f[n])}
  <2>1. SUFFICES ASSUME F # {} PROVE FALSE
    OBVIOUS
  <2>2. F \in SUBSET Nat
    OBVIOUS
  <2>3. PICK n \in F : n = 0 \/ n - 1 \in Nat \ F
    <3> HIDE DEF F
    <3>1. QED
      BY <2>1, <2>2, Smallest
  <2>4. n # 0
    BY <1>2, <2>3
  <2>5. n \in 1..Len(names) /\ Sound(f[n - 1])
    BY <2>3, <2>4
  <2>6. Sound(f[n])
    BY <1>2, <1>3, <2>5, ExecuteSound DEF AllWellFormed
  <2>7. QED
    BY <2>3, <2>6
<1>5. \A n \in 0..Len(names) : f[n].ok
  <2> DEFINE F == {k \in 0..Len(names) : ~f[Len(names) - k].ok}
  <2>1. ASSUME F # {} PROVE FALSE
    <3>1. F \in SUBSET Nat
      OBVIOUS
    <3>2. PICK k \in F : k = 0 \/ k - 1 \in Nat \ F
      <4> HIDE DEF F
      <4>1. QED
        BY <2>1, <3>1, Smallest
    <3>3. k # 0
      BY <1>1, <3>2
    <3>4. PICK n \in 1..Len(names) : n = Len(names) - k + 1
      BY <3>2, <3>3
    <3>5. /\ n - 1 = Len(names) - k
          /\ n = Len(names) - (k - 1)
          /\ k - 1 \in 0..Len(names)
      BY <3>2, <3>3, <3>4
    <3>6. f[n].ok /\ ~f[n - 1].ok
      BY <3>2, <3>3, <3>5
    <3>7. Sound(f[n - 1])
      BY <1>4, <3>4
    <3>8. PICK up : /\ up = Migration[names[n]].up
                    /\ AllWellFormed(up)
                    /\ f[n] = Execute(f[n - 1], up)
      BY <1>2, <1>3, <3>4
    <3>9. Execute(f[n - 1], up).ok
      BY <3>6, <3>8
    <3>10. QED
      BY <3>6, <3>7, <3>8, <3>9, ExecuteOk
  <2>2. \A n \in 0..Len(names) :
          /\ Len(names) - n \in 0..Len(names)
          /\ Len(names) - (Len(names) - n) = n
    OBVIOUS
  <2>3. QED
    BY <2>1, <2>2
<1>6. QED
  BY <1>1, <1>2, <1>4, <1>5 DEF Passage

Inv ==
  /\ schema.ok
  /\ Sound(schema)
  /\ released \subseteq Names
  /\ history \in Seq(released)
  /\ runners \in [Runners -> Seq(released)]

LEMMA PendingReleased ==
  Pending \in Seq(released)
<1>1. Pending \in Seq(Names \cap (released \ Range(history)))
  BY NamesKnown, KeptSequence DEF Pending
<1>2. QED
  BY <1>1, SeqMonotonic

LEMMA InitInv ==
  ASSUME Init
  PROVE  Inv
<1>1. Sound(EmptySchema)
  BY DEF Sound, EmptySchema
<1>2. EmptySchema.ok
  BY DEF EmptySchema
<1>3. runners \in [Runners -> Seq(released)]
  <2>1. <<>> \in Seq(released)
    BY EmptySeq
  <2>2. QED
    BY <2>1 DEF Init
<1>4. QED
  BY <1>1, <1>2, <1>3, EmptySeq, MigrationAssumption DEF Init, Inv

LEMMA NextInv ==
  ASSUME Inv, [Next]_vars
  PROVE  Inv'
<1>1. ASSUME NEW name \in Names, Release(name)
      PROVE  Inv'
  <2>1. released \subseteq released' /\ released' \subseteq Names
    BY <1>1 DEF Release, Inv
  <2>2. history \in Seq(released')
    BY <2>1, SeqMonotonic DEF Inv
  <2>3. \A r \in Runners : runners[r] \in Seq(released')
    BY <2>1, SeqMonotonic DEF Inv
  <2>4. QED
    BY <1>1, <2>1, <2>2, <2>3 DEF Release, Inv
<1>2. ASSUME NEW r \in Runners, Start(r)
      PROVE  Inv'
  BY <1>2, PendingReleased DEF Start, Inv
<1>3. ASSUME NEW r \in Runners, Apply(r)
      PROVE  Inv'
  <2>1. runners[r] \in Seq(Names)
    BY SeqMonotonic DEF Inv
  <2>2. Sound(schema') /\ schema'.ok
    <3>1. PICK f : Passage(f, runners[r])
      BY <1>3, <2>1, AfterPassage DEF Apply, Inv
    <3>2. Len(runners[r]) \in 0..Len(runners[r])
      BY <2>1
    <3>3. QED
      BY <1>3, <3>1, <3>2 DEF Passage, Apply
  <2>3. history' \in Seq(released)
    BY <1>3, ConcatProperties DEF Apply, Inv
  <2>4. runners' \in [Runners -> Seq(released)]
    BY <1>3, EmptySeq DEF Apply, Inv
  <2>5. QED
    BY <1>3, <2>2, <2>3, <2>4 DEF Apply, Inv
<1>4. ASSUME NEW r \in Runners, Rollback(r)
      PROVE  Inv'
  BY <1>4, EmptySeq DEF Rollback, Inv
<1>5. ASSUME Revert
      PROVE  Inv'
  <2>1. Last(history) \in DOMAIN Migration
    <3>1. Len(history) \in Nat \ {0}
      BY <1>5, EmptySeq DEF Revert, Inv
    <3>2. history[Len(history)] \in released
      BY <3>1, ElementOfSeq DEF Inv
    <3>3. QED
      BY <3>2, NamesKnown DEF Last, Inv
  <2>2. AllWellFormed(Migration[Last(history)].down)
    BY <2>1, MigrationsWellFormed
  <2>3. Sound(schema') /\ schema'.ok
    BY <1>5, <2>2, ExecuteSound DEF Revert, BeforeLast, AllWellFormed, Inv
  <2>4. history' \in Seq(released)
    <3>1. history' \in Seq(released \cap (Names \ {Last(history)}))
      BY <1>5, KeptSequence DEF Revert, Inv
    <3>2. QED
      BY <3>1, SeqMonotonic
  <2>5. QED
    BY <1>5, <2>3, <2>4 DEF Revert, Inv
<1>6. ASSUME NEW table \in Populated, Insert(table)
      PROVE  Inv'
  <2>1. PICK nulls \in SUBSET (ColumnsOf(schema, table)
                                 \ schema.tables[table].required) :
          schema' = [schema EXCEPT !.rows = @ \cup {table},
                                   !.nulls = @ \cup ({table} \X nulls)]
    BY <1>6 DEF Insert
  <2>2. PICK rows, all : /\ rows = schema.rows \cup {table}
                         /\ all = schema.nulls \cup ({table} \X nulls)
    OBVIOUS
  <2>3. schema' = [schema EXCEPT !.rows = rows, !.nulls = all]
    BY <2>1, <2>2
  <2>4. /\ rows \subseteq DOMAIN schema.tables
        /\ \A null \in all : null[1] \in rows
        /\ \A other \in DOMAIN schema.tables :
             \A column \in schema.tables[other].required :
               <<other, column>> \notin all
    BY <1>6, <2>1, <2>2 DEF Insert, Exists, Sound, Inv
  <2>5. Sound([schema EXCEPT !.rows = rows, !.nulls = all])
    BY <2>4, RowsSound DEF Inv
  <2>6. schema'.ok = schema.ok
    BY <2>3, Fields DEF Inv
  <2>7. QED
    BY <1>6, <2>3, <2>5, <2>6 DEF Insert, Inv
<1>7. ASSUME UNCHANGED vars
      PROVE  Inv'
  BY <1>7 DEF vars, Inv
<1>8. QED
  BY <1>1, <1>2, <1>3, <1>4, <1>5, <1>6, <1>7 DEF Next

LEMMA InvSchemaTypeOK ==
  ASSUME Inv
  PROVE  SchemaTypeOK
BY DEF Inv, Sound, IsTable, SchemaTypeOK

\* Whatever the migrations released, however many processes run them, and
\* whichever runs are refused or reverted: no foreign key dangles, every row
\* is in a table, a column that must have a value is there and no row lacks
\* it, and what the history records was released.
THEOREM TypeCorrect == Spec => []SchemaTypeOK
<1>1. Init => Inv
  BY InitInv
<1>2. Inv /\ [Next]_vars => Inv'
  BY NextInv
<1>3. Inv => SchemaTypeOK
  BY InvSchemaTypeOK
<1>4. QED
  BY <1>1, <1>2, <1>3, PTL DEF Spec

-----------------------------------------------------------------------------
(* Each mark is made by its migration; the tables of the bases are dropped *)
(* by theirs.                                                              *)

LEMMA StatementsMake ==
  ASSUME NEW table, NEW columns, NEW references, NEW column
  PROVE  /\ column \in columns.columns =>
              Makes(CreateTable(table, columns, references), table, column)
         /\ column \in columns =>
              /\ Makes(AddColumns(table, columns), table, column)
              /\ AddColumns(table, columns).do = "add"
         /\ Drops(DropTable(table), table)
BY DEF Makes, Drops, CreateTable, AddColumns, DropTable

LEMMA TablesHaveId ==
  ASSUME NEW required, NEW optional
  PROVE  "id" \in Table(required, optional).columns
BY DEF Table, Columns

\* Where up() makes the mark of the migration, and how.
MakesMark(name, statements) ==
  \E n \in 1..Len(statements) :
    /\ Makes(statements[n], Mark[name][1], Mark[name][2])
    /\ name \in DOMAIN Needs => statements[n].do = "add"

LEMMA MarksMade ==
  ASSUME NEW name \in DOMAIN Mark
  PROVE  MakesMark(name, Migration[name].up)
<1>1. MakesMark("CreateTenants", CreateTenants.up)
  <2>1. 1 \in 1..Len(CreateTenants.up)
    BY DEF CreateTenants
  <2>2. Makes(CreateTenants.up[1], "tenants", "id")
    BY StatementsMake DEF CreateTenants, Tenants, Columns
  <2>3. "CreateTenants" \notin DOMAIN Needs
    BY DEF Needs
  <2>4. Mark["CreateTenants"] = <<"tenants", "id">>
    BY DEF Mark
  <2>5. QED
    BY <2>1, <2>2, <2>3, <2>4 DEF MakesMark
<1>2. MakesMark("CreateUsers", CreateUsers.up)
  <2>1. 2 \in 1..Len(CreateUsers.up)
    BY DEF CreateUsers
  <2>2. Makes(CreateUsers.up[2], "users", "id")
    BY StatementsMake, TablesHaveId DEF CreateUsers, Users
  <2>3. "CreateUsers" \notin DOMAIN Needs
    BY DEF Needs
  <2>4. Mark["CreateUsers"] = <<"users", "id">>
    BY DEF Mark
  <2>5. QED
    BY <2>1, <2>2, <2>3, <2>4 DEF MakesMark
<1>3. MakesMark("CreateCustomers", CreateCustomers.up)
  <2>1. 1 \in 1..Len(CreateCustomers.up)
    BY DEF CreateCustomers
  <2>2. Makes(CreateCustomers.up[1], "customers", "id")
    BY StatementsMake, TablesHaveId DEF CreateCustomers, Customers
  <2>3. "CreateCustomers" \notin DOMAIN Needs
    BY DEF Needs
  <2>4. Mark["CreateCustomers"] = <<"customers", "id">>
    BY DEF Mark
  <2>5. QED
    BY <2>1, <2>2, <2>3, <2>4 DEF MakesMark
<1>4. MakesMark("AddNumberOfBranchesToCustomers",
               AddNumberOfBranchesToCustomers.up)
  <2>1. 1 \in 1..Len(AddNumberOfBranchesToCustomers.up)
    BY DEF AddNumberOfBranchesToCustomers
  <2>2. /\ Makes(AddNumberOfBranchesToCustomers.up[1],
                 "customers", "number_of_branches")
        /\ AddNumberOfBranchesToCustomers.up[1].do = "add"
    BY StatementsMake DEF AddNumberOfBranchesToCustomers
  <2>3. Mark["AddNumberOfBranchesToCustomers"] =
          <<"customers", "number_of_branches">>
    BY DEF Mark
  <2>4. QED
    BY <2>1, <2>2, <2>3 DEF MakesMark
<1>5. MakesMark("CreateBudgetEnvelopes", CreateBudgetEnvelopes.up)
  <2>1. 1 \in 1..Len(CreateBudgetEnvelopes.up)
    BY DEF CreateBudgetEnvelopes
  <2>2. Makes(CreateBudgetEnvelopes.up[1], "budget_envelopes", "id")
    BY StatementsMake, TablesHaveId DEF CreateBudgetEnvelopes, BudgetEnvelopes
  <2>3. "CreateBudgetEnvelopes" \notin DOMAIN Needs
    BY DEF Needs
  <2>4. Mark["CreateBudgetEnvelopes"] = <<"budget_envelopes", "id">>
    BY DEF Mark
  <2>5. QED
    BY <2>1, <2>2, <2>3, <2>4 DEF MakesMark
<1>6. MakesMark("CreateBudgetTransactions", CreateBudgetTransactions.up)
  <2>1. 1 \in 1..Len(CreateBudgetTransactions.up)
    BY DEF CreateBudgetTransactions
  <2>2. Makes(CreateBudgetTransactions.up[1], "budget_transactions", "id")
    BY StatementsMake, TablesHaveId DEF CreateBudgetTransactions,
       BudgetTransactions
  <2>3. "CreateBudgetTransactions" \notin DOMAIN Needs
    BY DEF Needs
  <2>4. Mark["CreateBudgetTransactions"] = <<"budget_transactions", "id">>
    BY DEF Mark
  <2>5. QED
    BY <2>1, <2>2, <2>3, <2>4 DEF MakesMark
<1>7. MakesMark("CreateLedgerEntries", CreateLedgerEntries.up)
  <2>1. 1 \in 1..Len(CreateLedgerEntries.up)
    BY DEF CreateLedgerEntries
  <2>2. Makes(CreateLedgerEntries.up[1], "ledger_entries", "id")
    BY StatementsMake, TablesHaveId DEF CreateLedgerEntries, LedgerEntries
  <2>3. "CreateLedgerEntries" \notin DOMAIN Needs
    BY DEF Needs
  <2>4. Mark["CreateLedgerEntries"] = <<"ledger_entries", "id">>
    BY DEF Mark
  <2>5. QED
    BY <2>1, <2>2, <2>3, <2>4 DEF MakesMark
<1>8. MakesMark("CreateBudgetReservations", CreateBudgetReservations.up)
  <2>1. 1 \in 1..Len(CreateBudgetReservations.up)
    BY DEF CreateBudgetReservations
  <2>2. Makes(CreateBudgetReservations.up[1], "budget_reservations", "id")
    BY StatementsMake, TablesHaveId DEF CreateBudgetReservations,
       BudgetReservations
  <2>3. "CreateBudgetReservations" \notin DOMAIN Needs
    BY DEF Needs
  <2>4. Mark["CreateBudgetReservations"] = <<"budget_reservations", "id">>
    BY DEF Mark
  <2>5. QED
    BY <2>1, <2>2, <2>3, <2>4 DEF MakesMark
<1>9. MakesMark("CreateNotifications", CreateNotifications.up)
  <2>1. 1 \in 1..Len(CreateNotifications.up)
    BY DEF CreateNotifications
  <2>2. Makes(CreateNotifications.up[1], "notifications", "id")
    BY StatementsMake, TablesHaveId DEF CreateNotifications, Notifications
  <2>3. "CreateNotifications" \notin DOMAIN Needs
    BY DEF Needs
  <2>4. Mark["CreateNotifications"] = <<"notifications", "id">>
    BY DEF Mark
  <2>5. QED
    BY <2>1, <2>2, <2>3, <2>4 DEF MakesMark
<1>10. MakesMark("CreateAdminAuditLogs", CreateAdminAuditLogs.up)
  <2>1. 1 \in 1..Len(CreateAdminAuditLogs.up)
    BY DEF CreateAdminAuditLogs
  <2>2. Makes(CreateAdminAuditLogs.up[1], "admin_audit_logs", "id")
    BY StatementsMake DEF CreateAdminAuditLogs, AdminAuditLogs, Columns
  <2>3. "CreateAdminAuditLogs" \notin DOMAIN Needs
    BY DEF Needs
  <2>4. Mark["CreateAdminAuditLogs"] = <<"admin_audit_logs", "id">>
    BY DEF Mark
  <2>5. QED
    BY <2>1, <2>2, <2>3, <2>4 DEF MakesMark
<1>11. MakesMark("CreateAgreements", CreateAgreements.up)
  <2>1. 1 \in 1..Len(CreateAgreements.up)
    BY DEF CreateAgreements
  <2>2. Makes(CreateAgreements.up[1], "agreements", "id")
    BY StatementsMake, TablesHaveId DEF CreateAgreements, Agreements
  <2>3. "CreateAgreements" \notin DOMAIN Needs
    BY DEF Needs
  <2>4. Mark["CreateAgreements"] = <<"agreements", "id">>
    BY DEF Mark
  <2>5. QED
    BY <2>1, <2>2, <2>3, <2>4 DEF MakesMark
<1>12. MakesMark("CreateApprovalRequests", CreateApprovalRequests.up)
  <2>1. 2 \in 1..Len(CreateApprovalRequests.up)
    BY DEF CreateApprovalRequests
  <2>2. Makes(CreateApprovalRequests.up[2], "approval_requests", "id")
    BY StatementsMake, TablesHaveId DEF CreateApprovalRequests,
       ApprovalRequests
  <2>3. "CreateApprovalRequests" \notin DOMAIN Needs
    BY DEF Needs
  <2>4. Mark["CreateApprovalRequests"] = <<"approval_requests", "id">>
    BY DEF Mark
  <2>5. QED
    BY <2>1, <2>2, <2>3, <2>4 DEF MakesMark
<1>13. MakesMark("CreateAgreementTransactions",
               CreateAgreementTransactions.up)
  <2>1. 1 \in 1..Len(CreateAgreementTransactions.up)
    BY DEF CreateAgreementTransactions
  <2>2. Makes(CreateAgreementTransactions.up[1], "agreement_transactions", "id")
    BY StatementsMake, TablesHaveId DEF CreateAgreementTransactions,
       AgreementTransactions
  <2>3. "CreateAgreementTransactions" \notin DOMAIN Needs
    BY DEF Needs
  <2>4. Mark["CreateAgreementTransactions"] =
          <<"agreement_transactions", "id">>
    BY DEF Mark
  <2>5. QED
    BY <2>1, <2>2, <2>3, <2>4 DEF MakesMark
<1>14. MakesMark("AddMissingFieldsToAgreements",
               AddMissingFieldsToAgreements.up)
  <2>1. 1 \in 1..Len(AddMissingFieldsToAgreements.up)
    BY DEF AddMissingFieldsToAgreements
  <2>2. /\ Makes(AddMissingFieldsToAgreements.up[1],
                 "agreements", "description")
        /\ AddMissingFieldsToAgreements.up[1].do = "add"
    BY StatementsMake DEF AddMissingFieldsToAgreements
  <2>3. Mark["AddMissingFieldsToAgreements"] =
          <<"agreements", "description">>
    BY DEF Mark
  <2>4. QED
    BY <2>1, <2>2, <2>3 DEF MakesMark
<1>15. MakesMark("CreateMasterDataEntities", CreateMasterDataEntities.up)
  <2>1. 9 \in 1..Len(CreateMasterDataEntities.up)
    BY DEF CreateMasterDataEntities
  <2>2. Makes(CreateMasterDataEntities.up[9], "mechanics", "id")
    BY StatementsMake, TablesHaveId DEF CreateMasterDataEntities, Mechanics
  <2>3. "CreateMasterDataEntities" \notin DOMAIN Needs
    BY DEF Needs
  <2>4. Mark["CreateMasterDataEntities"] = <<"mechanics", "id">>
    BY DEF Mark
  <2>5. QED
    BY <2>1, <2>2, <2>3, <2>4 DEF MakesMark
<1>16. MakesMark("CreateKpis", CreateKpis.up)
  <2>1. 1 \in 1..Len(CreateKpis.up)
    BY DEF CreateKpis
  <2>2. Makes(CreateKpis.up[1], "kpis", "id")
    BY StatementsMake, TablesHaveId DEF CreateKpis, Kpis
  <2>3. "CreateKpis" \notin DOMAIN Needs
    BY DEF Needs
  <2>4. Mark["CreateKpis"] = <<"kpis", "id">>
    BY DEF Mark
  <2>5. QED
    BY <2>1, <2>2, <2>3, <2>4 DEF MakesMark
<1>17. MakesMark("CreatePlans", CreatePlans.up)
  <2>1. 4 \in 1..Len(CreatePlans.up)
    BY DEF CreatePlans
  <2>2. Makes(CreatePlans.up[4], "plan_skus", "id")
    BY StatementsMake, TablesHaveId DEF CreatePlans, PlanSkus
  <2>3. "CreatePlans" \notin DOMAIN Needs
    BY DEF Needs
  <2>4. Mark["CreatePlans"] = <<"plan_skus", "id">>
    BY DEF Mark
  <2>5. QED
    BY <2>1, <2>2, <2>3, <2>4 DEF MakesMark
<1>18. MakesMark("AddAdditionalParamsToAgreements",
               AddAdditionalParamsToAgreements.up)
  <2>1. 1 \in 1..Len(AddAdditionalParamsToAgreements.up)
    BY DEF AddAdditionalParamsToAgreements
  <2>2. /\ Makes(AddAdditionalParamsToAgreements.up[1],
                 "agreements", "kpi_results")
        /\ AddAdditionalParamsToAgreements.up[1].do = "add"
    BY StatementsMake DEF AddAdditionalParamsToAgreements
  <2>3. Mark["AddAdditionalParamsToAgreements"] =
          <<"agreements", "kpi_results">>
    BY DEF Mark
  <2>4. QED
    BY <2>1, <2>2, <2>3 DEF MakesMark
<1>19. MakesMark("AddSpendManagementTables", AddSpendManagementTables.up)
  <2>1. 1 \in 1..Len(AddSpendManagementTables.up)
    BY DEF AddSpendManagementTables
  <2>2. /\ Makes(AddSpendManagementTables.up[1],
                 "mechanics", "spending_type")
        /\ AddSpendManagementTables.up[1].do = "add"
    BY StatementsMake DEF AddSpendManagementTables
  <2>3. Mark["AddSpendManagementTables"] = <<"mechanics", "spending_type">>
    BY DEF Mark
  <2>4. QED
    BY <2>1, <2>2, <2>3 DEF MakesMark
<1>20. MakesMark("AddPromoMechanicsConfig", AddPromoMechanicsConfig.up)
  <2>1. 1 \in 1..Len(AddPromoMechanicsConfig.up)
    BY DEF AddPromoMechanicsConfig
  <2>2. /\ Makes(AddPromoMechanicsConfig.up[1], "mechanics", "input_type")
        /\ AddPromoMechanicsConfig.up[1].do = "add"
    BY StatementsMake DEF AddPromoMechanicsConfig
  <2>3. Mark["AddPromoMechanicsConfig"] = <<"mechanics", "input_type">>
    BY DEF Mark
  <2>4. QED
    BY <2>1, <2>2, <2>3 DEF MakesMark
<1>21. MakesMark("AddApprovalWorkflowFieldsToPlans",
               AddApprovalWorkflowFieldsToPlans.up)
  <2>1. 4 \in 1..Len(AddApprovalWorkflowFieldsToPlans.up)
    BY DEF AddApprovalWorkflowFieldsToPlans
  <2>2. Makes(AddApprovalWorkflowFieldsToPlans.up[4],
              "plan_approval_history", "id")
    BY StatementsMake DEF AddApprovalWorkflowFieldsToPlans,
       PlanApprovalHistory, Columns
  <2>3. "AddApprovalWorkflowFieldsToPlans" \notin DOMAIN Needs
    BY DEF Needs
  <2>4. Mark["AddApprovalWorkflowFieldsToPlans"] =
          <<"plan_approval_history", "id">>
    BY DEF Mark
  <2>5. QED
    BY <2>1, <2>2, <2>3, <2>4 DEF MakesMark
<1>22. MakesMark("AddFiscalPeriodToAgreementTransaction",
               AddFiscalPeriodToAgreementTransaction.up)
  <2>1. 1 \in 1..Len(AddFiscalPeriodToAgreementTransaction.up)
    BY DEF AddFiscalPeriodToAgreementTransaction
  <2>2. /\ Makes(AddFiscalPeriodToAgreementTransaction.up[1],
                 "agreement_transactions", "fiscal_period")
        /\ AddFiscalPeriodToAgreementTransaction.up[1].do = "add"
    BY StatementsMake DEF AddFiscalPeriodToAgreementTransaction
  <2>3. Mark["AddFiscalPeriodToAgreementTransaction"] =
          <<"agreement_transactions", "fiscal_period">>
    BY DEF Mark
  <2>4. QED
    BY <2>1, <2>2, <2>3 DEF MakesMark
<1>23. MakesMark("CreateOnInvoiceTables", CreateOnInvoiceTables.up)
  <2>1. 1 \in 1..Len(CreateOnInvoiceTables.up)
    BY DEF CreateOnInvoiceTables
  <2>2. Makes(CreateOnInvoiceTables.up[1], "on_invoice_batches", "id")
    BY StatementsMake, TablesHaveId DEF CreateOnInvoiceTables,
       OnInvoiceBatches
  <2>3. "CreateOnInvoiceTables" \notin DOMAIN Needs
    BY DEF Needs
  <2>4. Mark["CreateOnInvoiceTables"] = <<"on_invoice_batches", "id">>
    BY DEF Mark
  <2>5. QED
    BY <2>1, <2>2, <2>3, <2>4 DEF MakesMark
<1>24. MakesMark("AddCalculatedKpisToPlans", AddCalculatedKpisToPlans.up)
  <2>1. 1 \in 1..Len(AddCalculatedKpisToPlans.up)
    BY DEF AddCalculatedKpisToPlans
  <2>2. /\ Makes(AddCalculatedKpisToPlans.up[1],
                 "plan_skus", "calculated_kpis")
        /\ AddCalculatedKpisToPlans.up[1].do = "add"
    BY StatementsMake DEF AddCalculatedKpisToPlans
  <2>3. Mark["AddCalculatedKpisToPlans"] = <<"plan_skus", "calculated_kpis">>
    BY DEF Mark
  <2>4. QED
    BY <2>1, <2>2, <2>3 DEF MakesMark
<1>25. name \in DOMAIN Migration
  BY DEF Mark, Migration
<1>26. QED
  BY <1>1, <1>2, <1>3, <1>4, <1>5, <1>6, <1>7, <1>8, <1>9, <1>10, <1>11,
     <1>12, <1>13, <1>14, <1>15, <1>16, <1>17, <1>18, <1>19, <1>20, <1>21,
     <1>22, <1>23, <1>24, <1>25 DEF Mark, Migration

LEMMA BasesDropped ==
  ASSUME NEW base \in Bases
  PROVE  \E n \in 1..Len(Migration[base].down) :
           Drops(Migration[base].down[n], Mark[base][1])
<1>1. ASSUME base = "CreateCustomers"
      PROVE  \E n \in 1..Len(Migration[base].down) :
               Drops(Migration[base].down[n], Mark[base][1])
  <2>1. Migration[base] = CreateCustomers
    BY <1>1 DEF Migration
  <2>2. Mark[base][1] = "customers"
    BY <1>1 DEF Mark
  <2>3. /\ 1 \in 1..Len(CreateCustomers.down)
        /\ Drops(CreateCustomers.down[1], "customers")
    BY StatementsMake DEF CreateCustomers
  <2>4. QED
    BY <2>1, <2>2, <2>3
<1>2. ASSUME base = "CreateAgreements"
      PROVE  \E n \in 1..Len(Migration[base].down) :
               Drops(Migration[base].down[n], Mark[base][1])
  <2>1. Migration[base] = CreateAgreements
    BY <1>2 DEF Migration
  <2>2. Mark[base][1] = "agreements"
    BY <1>2 DEF Mark
  <2>3. /\ 1 \in 1..Len(CreateAgreements.down)
        /\ Drops(CreateAgreements.down[1], "agreements")
    BY StatementsMake DEF CreateAgreements
  <2>4. QED
    BY <2>1, <2>2, <2>3
<1>3. ASSUME base = "CreateMasterDataEntities"
      PROVE  \E n \in 1..Len(Migration[base].down) :
               Drops(Migration[base].down[n], Mark[base][1])
  <2>1. Migration[base] = CreateMasterDataEntities
    BY <1>3 DEF Migration
  <2>2. Mark[base][1] = "mechanics"
    BY <1>3 DEF Mark
  <2>3. /\ 3 \in 1..Len(CreateMasterDataEntities.down)
        /\ Drops(CreateMasterDataEntities.down[3], "mechanics")
    BY StatementsMake DEF CreateMasterDataEntities
  <2>4. QED
    BY <2>1, <2>2, <2>3
<1>4. ASSUME base = "CreateAgreementTransactions"
      PROVE  \E n \in 1..Len(Migration[base].down) :
               Drops(Migration[base].down[n], Mark[base][1])
  <2>1. Migration[base] = CreateAgreementTransactions
    BY <1>4 DEF Migration
  <2>2. Mark[base][1] = "agreement_transactions"
    BY <1>4 DEF Mark
  <2>3. /\ 1 \in 1..Len(CreateAgreementTransactions.down)
        /\ Drops(CreateAgreementTransactions.down[1], "agreement_transactions")
    BY StatementsMake DEF CreateAgreementTransactions
  <2>4. QED
    BY <2>1, <2>2, <2>3
<1>5. ASSUME base = "CreatePlans"
      PROVE  \E n \in 1..Len(Migration[base].down) :
               Drops(Migration[base].down[n], Mark[base][1])
  <2>1. Migration[base] = CreatePlans
    BY <1>5 DEF Migration
  <2>2. Mark[base][1] = "plan_skus"
    BY <1>5 DEF Mark
  <2>3. /\ 4 \in 1..Len(CreatePlans.down)
        /\ Drops(CreatePlans.down[4], "plan_skus")
    BY StatementsMake DEF CreatePlans
  <2>4. QED
    BY <2>1, <2>2, <2>3
<1>6. QED
  BY <1>1, <1>2, <1>3, <1>4, <1>5 DEF Bases

-----------------------------------------------------------------------------
(* What a migration makes of the marks.                                    *)

Marked(s, name) == Mark[name][2] \in ColumnsOf(s, Mark[name][1])

Stands(s, base) == Exists(s, Mark[base][1])

LEMMA NeedsBases ==
  ASSUME NEW name \in DOMAIN Needs
  PROVE  /\ Needs[name] \in Bases
         /\ Needs[name] # name
         /\ name \in DOMAIN Mark
         /\ Mark[name][1] = Mark[Needs[name]][1]
BY DEF Needs, Bases, Mark

LEMMA MarksOrLooks ==
  ASSUME NEW name \in DOMAIN Migration
  PROVE  /\ name \in DOMAIN Mark \/ name \in LookFirst
         /\ name \in DOMAIN Mark => name \notin LookFirst
         /\ name \in Bases => name \notin LookFirst
BY DEF Migration, Mark, LookFirst, Bases

LEMMA UpKeeps ==
  ASSUME NEW s, Sound(s), NEW name \in DOMAIN Migration,
         NEW other \in DOMAIN Mark, Marked(s, other)
  PROVE  Marked(Execute(s, Migration[name].up), other)
<1>1. AllFit(Migration[name].up, {}, {name})
  BY MigrationsFit DEF Fits
<1>2. AllWellFormed(Migration[name].up)
  BY <1>1 DEF AllFit, Fit, AllWellFormed
<1>3. \A n \in 1..Len(Migration[name].up) :
        ~Hits(Migration[name].up[n], Mark[other][1], Mark[other][2])
  BY <1>1 DEF AllFit, Fit
<1>4. QED
  BY <1>2, <1>3, ExecuteKeeps DEF Marked

LEMMA UpFounds ==
  ASSUME NEW s, Sound(s), NEW name \in DOMAIN Migration,
         NEW base \in Bases \ {name},
         Stands(Execute(s, Migration[name].up), base)
  PROVE  Stands(s, base)
<1>1. AllFit(Migration[name].up, {}, {name})
  BY MigrationsFit DEF Fits
<1>2. AllWellFormed(Migration[name].up)
  BY <1>1 DEF AllFit, Fit, AllWellFormed
<1>3. \A n \in 1..Len(Migration[name].up) :
        ~Creates(Migration[name].up[n], Mark[base][1])
  BY <1>1 DEF AllFit, Fit
<1>4. QED
  BY <1>2, <1>3, ExecuteCreates DEF Stands

\* A migration whose mark is there is refused.
LEMMA UpMarks ==
  ASSUME NEW s, Sound(s), NEW name \in DOMAIN Mark,
         Execute(s, Migration[name].up).ok
  PROVE  /\ ~Marked(s, name)
         /\ Marked(Execute(s, Migration[name].up), name)
         /\ name \in DOMAIN Needs => Stands(s, Needs[name])
<1> DEFINE up == Migration[name].up
<1>1. name \in DOMAIN Migration
  BY DEF Mark, Migration
<1>2. AllFit(up, {}, {name})
  BY <1>1, MigrationsFit DEF Fits
<1>3. AllWellFormed(up)
  BY <1>2 DEF AllFit, Fit, AllWellFormed
<1>4. \A n \in 1..Len(up) : ~Hits(up[n], Mark[name][1], Mark[name][2])
  BY <1>2 DEF AllFit, Fit
<1>5. PICK m \in 1..Len(up) :
        /\ Makes(up[m], Mark[name][1], Mark[name][2])
        /\ name \in DOMAIN Needs => up[m].do = "add"
  BY MarksMade DEF MakesMark
<1>6. ASSUME name \in DOMAIN Needs
      PROVE  /\ up[m].do = "add"
             /\ \A n \in 1..Len(up) : ~Creates(up[n], Mark[name][1])
  <2>1. /\ Needs[name] \in Bases \ {name}
        /\ Mark[name][1] = Mark[Needs[name]][1]
    BY <1>6, NeedsBases
  <2>2. QED
    BY <1>2, <1>5, <1>6, <2>1 DEF AllFit, Fit
<1>7. /\ Mark[name][2] \notin ColumnsOf(s, Mark[name][1])
      /\ Mark[name][2] \in ColumnsOf(Execute(s, up), Mark[name][1])
      /\ name \in DOMAIN Needs => Exists(s, Mark[name][1])
  <2> HIDE DEF up
  <2>1. Execute(s, up).ok
    BY DEF up
  <2>2. QED
    BY <1>3, <1>4, <1>5, <1>6, <2>1, ExecuteMakes
<1>8. QED
  BY <1>7, NeedsBases DEF Marked, Stands

LEMMA DownKeeps ==
  ASSUME NEW s, Sound(s), NEW name \in DOMAIN Migration,
         NEW other \in DOMAIN Mark \ Own(name), Marked(s, other)
  PROVE  Marked(Execute(s, Migration[name].down), other)
<1>1. AllFit(Migration[name].down, Own(name), {})
  BY MigrationsFit DEF Fits
<1>2. AllWellFormed(Migration[name].down)
  BY <1>1 DEF AllFit, Fit, AllWellFormed
<1>3. \A n \in 1..Len(Migration[name].down) :
        ~Hits(Migration[name].down[n], Mark[other][1], Mark[other][2])
  BY <1>1 DEF AllFit, Fit
<1>4. QED
  BY <1>2, <1>3, ExecuteKeeps DEF Marked

LEMMA DownFounds ==
  ASSUME NEW s, Sound(s), NEW name \in DOMAIN Migration,
         Execute(s, Migration[name].down).ok, NEW base \in Bases,
         Stands(Execute(s, Migration[name].down), base)
  PROVE  Stands(s, base) /\ base # name
<1> DEFINE down == Migration[name].down
<1>1. AllFit(down, Own(name), {})
  BY MigrationsFit DEF Fits
<1>2. AllWellFormed(down)
  BY <1>1 DEF AllFit, Fit, AllWellFormed
<1>3. \A n \in 1..Len(down) : ~Creates(down[n], Mark[base][1])
  BY <1>1 DEF AllFit, Fit
<1>4. Stands(s, base)
  BY <1>2, <1>3, ExecuteCreates DEF Stands
<1>5. ASSUME base = name PROVE FALSE
  <2>1. PICK m \in 1..Len(down) : Drops(down[m], Mark[base][1])
    BY <1>5, BasesDropped
  <2>2. ~Exists(Execute(s, down), Mark[base][1])
    <3> HIDE DEF down
    <3>1. Execute(s, down).ok
      BY DEF down
    <3>2. QED
      BY <1>2, <1>3, <2>1, <3>1, ExecuteDrops
  <2>3. QED
    BY <2>2 DEF Stands
<1>6. QED
  BY <1>4, <1>5

-----------------------------------------------------------------------------
(* The history and the schema tell the same story.                         *)

\* Of the first k names of the history: only those that look first are there
\* twice; each mark stands; a table of the bases is there only if its
\* migration is; and a migration comes after the one it needs.
Recorded(s, names, k) ==
  /\ \A m, n \in 1..k :
       m # n /\ names[m] = names[n] => names[m] \in LookFirst
  /\ \A n \in 1..k : names[n] \in DOMAIN Mark => Marked(s, names[n])
  /\ \A base \in Bases : Stands(s, base) => \E n \in 1..k : names[n] = base
  /\ \A n \in 1..k : names[n] \in DOMAIN Needs =>
       \E m \in 1..(n - 1) : names[m] = Needs[names[n]]

LEMMA RecordedUp ==
  ASSUME NEW s, Sound(s), NEW names, NEW k \in Nat, Recorded(s, names, k),
         names[k + 1] \in DOMAIN Migration,
         Execute(s, Migration[names[k + 1]].up).ok
  PROVE  Recorded(Execute(s, Migration[names[k + 1]].up), names, k + 1)
<1>1. PICK name, t : /\ name = names[k + 1]
                     /\ t = Execute(s, Migration[name].up)
  OBVIOUS
<1>2. \A n \in 1..(k + 1) : n \in 1..k \/ n = k + 1
  OBVIOUS
<1>3. \A n \in 1..k : n \in 1..(k + 1) /\ n # k + 1
  OBVIOUS
<1>4. name \in DOMAIN Mark =>
        /\ ~Marked(s, name) /\ Marked(t, name)
        /\ name \in DOMAIN Needs => Stands(s, Needs[name])
  BY <1>1, UpMarks
<1>5. \A m, n \in 1..(k + 1) :
        m # n /\ names[m] = names[n] => names[m] \in LookFirst
  <2>1. \A n \in 1..k : names[n] = name => name \in LookFirst
    BY <1>1, <1>4, MarksOrLooks DEF Recorded
  <2>2. QED
    BY <1>1, <1>2, <2>1 DEF Recorded
<1>6. \A n \in 1..(k + 1) : names[n] \in DOMAIN Mark => Marked(t, names[n])
  <2>1. \A n \in 1..k : names[n] \in DOMAIN Mark => Marked(t, names[n])
    BY <1>1, UpKeeps DEF Recorded
  <2>2. QED
    BY <1>1, <1>2, <1>4, <2>1
<1>7. \A base \in Bases : Stands(t, base) =>
        \E n \in 1..(k + 1) : names[n] = base
  <2>1. \A base \in Bases : Stands(t, base) => base = name \/ Stands(s, base)
    BY <1>1, UpFounds
  <2>2. k + 1 \in 1..(k + 1)
    OBVIOUS
  <2>3. QED
    BY <1>1, <1>3, <2>1, <2>2 DEF Recorded
<1>8. \A n \in 1..(k + 1) : names[n] \in DOMAIN Needs =>
        \E m \in 1..(n - 1) : names[m] = Needs[names[n]]
  <2>1. name \in DOMAIN Needs =>
          \E m \in 1..((k + 1) - 1) : names[m] = Needs[name]
    <3>1. (k + 1) - 1 = k
      OBVIOUS
    <3>2. name \in DOMAIN Needs =>
            Needs[name] \in Bases /\ Stands(s, Needs[name])
      BY <1>4, NeedsBases
    <3>3. QED
      BY <3>1, <3>2 DEF Recorded
  <2>2. QED
    BY <1>1, <1>2, <2>1 DEF Recorded
<1>9. QED
  BY <1>1, <1>5, <1>6, <1>7, <1>8 DEF Recorded

LEMMA AfterRecorded ==
  ASSUME Sound(schema), history \in Seq(Names), NEW names \in Seq(Names),
         Recorded(schema, history, Len(history)), After(names).ok
  PROVE  Recorded(After(names), history \o names, Len(history \o names))
<1>1. PICK f : Passage(f, names)
  BY AfterPassage
<1>2. PICK g, L, K : /\ g = history \o names
                     /\ L = Len(history)
                     /\ K = Len(names)
  OBVIOUS
<1>3. /\ L \in Nat /\ K \in Nat /\ Len(g) = L + K
      /\ \A n \in 1..L : g[n] = history[n]
      /\ \A n \in 1..K : g[L + n] = names[n]
  BY <1>2, ConcatProperties
<1>4. Recorded(schema, g, L)
  BY <1>2, <1>3 DEF Recorded
<1> DEFINE F == {n \in 0..K : ~Recorded(f[n], g, L + n)}
<1>5. F = {}
  <2>1. SUFFICES ASSUME F # {} PROVE FALSE
    OBVIOUS
  <2>2. F \in SUBSET Nat
    OBVIOUS
  <2>3. PICK n \in F : n = 0 \/ n - 1 \in Nat \ F
    <3> HIDE DEF F
    <3>1. QED
      BY <2>1, <2>2, Smallest
  <2>4. n # 0
    <3>1. f[0] = schema /\ L + 0 = L
      BY <1>1, <1>3 DEF Passage
    <3>2. QED
      BY <1>4, <2>3, <3>1
  <2>5. n \in 1..K /\ Recorded(f[n - 1], g, L + (n - 1))
    BY <1>3, <2>3, <2>4
  <2>6. PICK k \in Nat : k = L + (n - 1) /\ k + 1 = L + n
    BY <1>3, <2>5
  <2>7. g[k + 1] = names[n] /\ names[n] \in DOMAIN Migration
    BY <1>2, <1>3, <2>5, <2>6, NamesKnown
  <2>8. /\ f[n] = Execute(f[n - 1], Migration[g[k + 1]].up)
        /\ f[n].ok
        /\ Sound(f[n - 1])
    BY <1>1, <1>2, <1>3, <2>5, <2>7 DEF Passage
  <2>9. Recorded(f[n], g, k + 1)
    BY <2>5, <2>6, <2>7, <2>8, RecordedUp
  <2>10. QED
    BY <2>3, <2>6, <2>9
<1>6. QED
  <2>1. K \in 0..K
    BY <1>3
  <2>2. Recorded(f[K], g, L + K)
    BY <1>5, <2>1
  <2>3. QED
    BY <1>1, <1>2, <1>3, <2>2 DEF Passage

\* What is kept of the names is embedded in them, in their order.
Embeds(e, kept, names, set, k) ==
  /\ \A i \in 1..Len(kept) :
       e[i] \in 1..k /\ kept[i] = names[e[i]] /\ kept[i] \in set
  /\ \A i, j \in 1..Len(kept) : i < j => e[i] < e[j]
  /\ \A m \in 1..k : names[m] \in set => \E i \in 1..Len(kept) : e[i] = m

LEMMA KeptEmbeds ==
  ASSUME NEW S, NEW names \in Seq(S), NEW set
  PROVE  \E e : Embeds(e, Kept(names, set), names, set, Len(names))
<1>1. PICK f : /\ Keeps(f, names, set, Len(names))
               /\ Kept(names, set) = f[Len(names)]
  BY KeptIs
<1> DEFINE Good(n) == f[n] \in Seq(S) /\ \E e : Embeds(e, f[n], names, set, n)
           F == {n \in 0..Len(names) : ~Good(n)}
<1>2. F = {}
  <2>1. SUFFICES ASSUME F # {} PROVE FALSE
    OBVIOUS
  <2>2. F \in SUBSET Nat
    OBVIOUS
  <2>3. PICK n \in F : n = 0 \/ n - 1 \in Nat \ F
    <3> HIDE DEF F
    <3>1. QED
      BY <2>1, <2>2, Smallest
  <2>4. n # 0
    <3>1. ASSUME n = 0 PROVE Good(0)
      <4>1. f[0] = <<>>
        BY <1>1 DEF Keeps
      <4>2. f[0] \in Seq(S) /\ Len(f[0]) = 0
        BY <4>1, EmptySeq
      <4>3. Embeds(<<>>, f[0], names, set, 0)
        BY <4>2 DEF Embeds
      <4>4. QED
        BY <4>2, <4>3
    <3>2. QED
      BY <2>3, <3>1
  <2>5. n \in 1..Len(names) /\ Good(n - 1)
    BY <2>3, <2>4
  <2>6. PICK e : Embeds(e, f[n - 1], names, set, n - 1)
    BY <2>5
  <2>7. PICK g : g = f[n - 1] /\ g \in Seq(S)
    BY <2>5
  <2>8. f[n] = IF names[n] \in set THEN Append(g, names[n]) ELSE g
    BY <1>1, <2>4, <2>5, <2>7 DEF Keeps
  <2>9. \A m \in 1..n : m \in 1..(n - 1) \/ m = n
    BY <2>5
  <2>10. \A m \in 1..(n - 1) : m \in 1..n /\ m < n
    BY <2>5
  <2>11. CASE names[n] \notin set
    <3>1. Embeds(e, g, names, set, n)
      BY <2>6, <2>7, <2>9, <2>10, <2>11 DEF Embeds
    <3>2. QED
      BY <2>3, <2>7, <2>8, <2>11, <3>1
  <2>12. CASE names[n] \in set
    <3>1. PICK h : /\ h = Append(g, names[n])
                   /\ h \in Seq(S)
                   /\ Len(h) = Len(g) + 1
                   /\ \A i \in 1..Len(g) : h[i] = g[i]
                   /\ h[Len(g) + 1] = names[n]
      <4>1. names[n] \in S
        BY <2>5
      <4>2. PICK x : x \in S /\ x = names[n]
        BY <4>1
      <4>3. PICK h : h = Append(g, x)
        OBVIOUS
      <4>4. /\ h \in Seq(S)
            /\ Len(h) = Len(g) + 1
            /\ \A i \in 1..Len(g) : h[i] = g[i]
            /\ h[Len(g) + 1] = x
        BY <2>7, <4>2, <4>3, AppendProperties
      <4>5. QED
        BY <4>2, <4>3, <4>4
    <3>2. Len(g) \in Nat
      BY <2>7
    <3>3. PICK d : d = [i \in 1..(Len(g) + 1) |->
                          IF i = Len(g) + 1 THEN n ELSE e[i]]
      OBVIOUS
    <3>4. \A i \in 1..Len(h) : i \in 1..Len(g) \/ i = Len(g) + 1
      BY <3>1, <3>2
    <3>5. /\ \A i \in 1..Len(g) : i \in 1..Len(h) /\ d[i] = e[i]
          /\ Len(g) + 1 \in 1..Len(h) /\ d[Len(g) + 1] = n
      BY <3>1, <3>2, <3>3
    <3>6. \A i \in 1..Len(h) :
            d[i] \in 1..n /\ h[i] = names[d[i]] /\ h[i] \in set
      <4>1. n \in 1..n
        BY <2>5
      <4>2. \A i \in 1..Len(g) :
              e[i] \in 1..(n - 1) /\ g[i] = names[e[i]] /\ g[i] \in set
        BY <2>6, <2>7 DEF Embeds
      <4>3. \A i \in 1..Len(g) :
              d[i] \in 1..n /\ h[i] = names[d[i]] /\ h[i] \in set
        BY <2>10, <3>1, <3>5, <4>2
      <4>4. QED
        BY <2>12, <3>1, <3>4, <3>5, <4>1, <4>3
    <3>7. \A i, j \in 1..Len(h) : i < j => d[i] < d[j]
      <4>1. \A i, j \in 1..Len(h) : i < j => i \in 1..Len(g)
        BY <3>1, <3>2
      <4>2. \A i \in 1..Len(g) : d[i] < n
        BY <2>6, <2>7, <2>10, <3>5 DEF Embeds
      <4>3. \A i, j \in 1..Len(g) : i < j => d[i] < d[j]
        BY <2>6, <2>7, <3>5 DEF Embeds
      <4>4. QED
        BY <3>4, <3>5, <4>1, <4>2, <4>3
    <3>8. \A m \in 1..n : names[m] \in set => \E i \in 1..Len(h) : d[i] = m
      BY <2>6, <2>7, <2>9, <3>5 DEF Embeds
    <3>9. Embeds(d, h, names, set, n)
      BY <3>6, <3>7, <3>8 DEF Embeds
    <3>10. QED
      BY <2>3, <2>8, <2>12, <3>1, <3>9
  <2>13. QED
    BY <2>11, <2>12
<1>3. Len(names) \in 0..Len(names)
  OBVIOUS
<1>4. QED
  BY <1>1, <1>2, <1>3

\* No row is left of the name that is reverted, nor of any that needs it.
LEMMA RevertRecorded ==
  ASSUME Sound(schema), history \in Seq(Names), history # <<>>,
         Recorded(schema, history, Len(history)), BeforeLast.ok,
         NEW kept, kept = Kept(history, Names \ {Last(history)})
  PROVE  Recorded(BeforeLast, kept, Len(kept))
<1>1. PICK L, last, t : /\ L = Len(history) /\ last = Last(history)
                        /\ t = BeforeLast
  OBVIOUS
<1>2. L \in Nat \ {0}
  BY <1>1, EmptySeq
<1>3. L \in 1..L /\ last = history[L] /\ last \in DOMAIN Migration
  <2>1. L \in 1..L /\ last = history[L]
    BY <1>1, <1>2 DEF Last
  <2>2. QED
    BY <1>1, <2>1, NamesKnown
<1>4. t = Execute(schema, Migration[last].down) /\ t.ok
  BY <1>1 DEF BeforeLast
<1>5. PICK e : Embeds(e, kept, history, Names \ {last}, L)
  BY <1>1, KeptEmbeds
<1>6. \A i \in 1..Len(kept) :
        /\ e[i] \in 1..L /\ kept[i] = history[e[i]] /\ kept[i] # last
  BY <1>5 DEF Embeds
<1>7. Recorded(schema, history, L)
  BY <1>1
<1>8. \A base \in Bases : base = last =>
        \A m \in 1..L : history[m] = base => m = L
  <2>1. last \in Bases => last \notin LookFirst
    BY <1>3, MarksOrLooks
  <2>2. QED
    BY <1>3, <1>7, <2>1 DEF Recorded
<1>9. \A n \in 1..Len(kept) : kept[n] \in DOMAIN Needs =>
        \E m \in 1..L : /\ m < e[n]
                        /\ history[m] = Needs[kept[n]]
                        /\ history[m] # last
  <2>1. SUFFICES ASSUME NEW n \in 1..Len(kept), kept[n] \in DOMAIN Needs
                 PROVE  \E m \in 1..L : /\ m < e[n]
                                        /\ history[m] = Needs[kept[n]]
                                        /\ history[m] # last
    OBVIOUS
  <2>2. e[n] \in 1..L /\ history[e[n]] = kept[n]
    BY <1>6
  <2>3. PICK m \in 1..(e[n] - 1) : history[m] = Needs[kept[n]]
    BY <1>7, <2>1, <2>2 DEF Recorded
  <2>4. m \in 1..L /\ m < e[n] /\ m # L
    BY <1>2, <2>2, <2>3
  <2>5. Needs[kept[n]] \in Bases
    BY <2>1, NeedsBases
  <2>6. QED
    BY <1>8, <2>3, <2>4, <2>5
<1>10. \A m, n \in 1..Len(kept) :
         m # n /\ kept[m] = kept[n] => kept[m] \in LookFirst
  <2>1. SUFFICES ASSUME NEW m \in 1..Len(kept), NEW n \in 1..Len(kept),
                        m # n, kept[m] = kept[n]
                 PROVE  kept[m] \in LookFirst
    OBVIOUS
  <2>2. e[m] \in 1..L /\ e[n] \in 1..L
    BY <1>6
  <2>3. m < n \/ n < m
    BY <2>1
  <2>4. e[m] < e[n] \/ e[n] < e[m]
    BY <1>5, <2>3 DEF Embeds
  <2>5. e[m] # e[n]
    BY <2>2, <2>4
  <2>6. history[e[m]] = kept[m] /\ history[e[n]] = kept[m]
    BY <1>6, <2>1
  <2>7. QED
    BY <1>7, <2>2, <2>5, <2>6 DEF Recorded
<1>11. \A n \in 1..Len(kept) : kept[n] \in DOMAIN Mark => Marked(t, kept[n])
  <2>1. SUFFICES ASSUME NEW n \in 1..Len(kept), kept[n] \in DOMAIN Mark
                 PROVE  Marked(t, kept[n])
    OBVIOUS
  <2>2. Marked(schema, kept[n])
    BY <1>6, <1>7, <2>1 DEF Recorded
  <2>3. kept[n] \notin Own(last)
    BY <1>6, <1>9 DEF Own
  <2>4. QED
    BY <1>3, <1>4, <2>1, <2>2, <2>3, DownKeeps
<1>12. \A base \in Bases : Stands(t, base) =>
         \E n \in 1..Len(kept) : kept[n] = base
  <2>1. SUFFICES ASSUME NEW base \in Bases, Stands(t, base)
                 PROVE  \E n \in 1..Len(kept) : kept[n] = base
    OBVIOUS
  <2>2. Stands(schema, base) /\ base # last
    BY <1>3, <1>4, <2>1, DownFounds
  <2>3. PICK m \in 1..L : history[m] = base
    BY <1>7, <2>2 DEF Recorded
  <2>4. history[m] \in Names \ {last}
    BY <1>1, <2>2, <2>3
  <2>5. PICK i \in 1..Len(kept) : e[i] = m
    BY <1>5, <2>4 DEF Embeds
  <2>6. QED
    BY <1>6, <2>3, <2>5
<1>13. \A n \in 1..Len(kept) : kept[n] \in DOMAIN Needs =>
         \E i \in 1..(n - 1) : kept[i] = Needs[kept[n]]
  <2>1. SUFFICES ASSUME NEW n \in 1..Len(kept), kept[n] \in DOMAIN Needs
                 PROVE  \E i \in 1..(n - 1) : kept[i] = Needs[kept[n]]
    OBVIOUS
  <2>2. PICK m \in 1..L : /\ m < e[n]
                          /\ history[m] = Needs[kept[n]]
                          /\ history[m] # last
    BY <1>9, <2>1
  <2>3. history[m] \in Names \ {last}
    BY <1>1, <2>2
  <2>4. PICK i \in 1..Len(kept) : e[i] = m
    BY <1>5, <2>3 DEF Embeds
  <2>5. kept[i] = Needs[kept[n]]
    BY <1>6, <2>2, <2>4
  <2>6. ~(n < i) /\ n # i
    <3>1. n < i => e[n] < e[i]
      BY <1>5 DEF Embeds
    <3>2. e[n] \in 1..L /\ e[i] \in 1..L
      BY <1>6
    <3>3. QED
      BY <2>2, <2>4, <3>1, <3>2
  <2>7. i \in 1..(n - 1)
    BY <2>6
  <2>8. QED
    BY <2>5, <2>7
<1>14. QED
  BY <1>1, <1>10, <1>11, <1>12, <1>13 DEF Recorded

\* Rows change no table.
LEMMA InsertRecorded ==
  ASSUME Inv, Recorded(schema, history, Len(history)),
         NEW table, Insert(table)
  PROVE  Recorded(schema', history', Len(history'))
<1>1. PICK nulls \in SUBSET (ColumnsOf(schema, table)
                               \ schema.tables[table].required) :
        schema' = [schema EXCEPT !.rows = @ \cup {table},
                                 !.nulls = @ \cup ({table} \X nulls)]
  BY DEF Insert
<1>2. schema'.tables = schema.tables
  BY <1>1, Fields DEF Inv
<1>3. history' = history
  BY DEF Insert
<1>4. \A name : Marked(schema', name) <=> Marked(schema, name)
  BY <1>2 DEF Marked, ColumnsOf, Exists
<1>5. \A name : Stands(schema', name) <=> Stands(schema, name)
  BY <1>2 DEF Stands, Exists
<1>6. QED
  BY <1>3, <1>4, <1>5 DEF Recorded

Told == Inv /\ Recorded(schema, history, Len(history))

LEMMA InitTold ==
  ASSUME Init
  PROVE  Told
<1>1. Len(history) = 0
  BY EmptySeq DEF Init
<1>2. \A base : ~Stands(schema, base)
  BY DEF Init, EmptySchema, Stands, Exists
<1>3. QED
  BY <1>1, <1>2, InitInv DEF Told, Recorded

LEMMA NextTold ==
  ASSUME Told, [Next]_vars
  PROVE  Told'
<1>1. Inv /\ Sound(schema) /\ Recorded(schema, history, Len(history))
  BY DEF Told, Inv
<1>2. Inv'
  BY <1>1, NextInv
<1>3. history \in Seq(Names)
  BY <1>1, SeqMonotonic DEF Inv
<1>4. ASSUME UNCHANGED <<schema, history>>
      PROVE  Told'
  BY <1>1, <1>2, <1>4 DEF Told, Recorded, Marked, Stands
<1>5. ASSUME NEW r \in Runners, Apply(r)
      PROVE  Told'
  <2>1. runners[r] \in Seq(Names)
    BY <1>1, SeqMonotonic DEF Inv
  <2>2. Recorded(schema', history', Len(history'))
    BY <1>1, <1>3, <1>5, <2>1, AfterRecorded DEF Apply
  <2>3. QED
    BY <1>2, <2>2 DEF Told
<1>6. ASSUME Revert
      PROVE  Told'
  BY <1>1, <1>2, <1>3, <1>6, RevertRecorded DEF Revert, Told
<1>7. ASSUME NEW table \in Populated, Insert(table)
      PROVE  Told'
  BY <1>1, <1>2, <1>7, InsertRecorded DEF Told
<1>8. ASSUME NEW name \in Names, Release(name)
      PROVE  Told'
  BY <1>4, <1>8 DEF Release
<1>9. ASSUME NEW r \in Runners, Start(r) \/ Rollback(r)
      PROVE  Told'
  BY <1>4, <1>9 DEF Start, Rollback
<1>10. CASE UNCHANGED vars
  BY <1>4, <1>10 DEF vars
<1>11. QED
  BY <1>5, <1>6, <1>7, <1>8, <1>9, <1>10 DEF Next

LEMMA ToldRecordedOnce ==
  ASSUME Told
  PROVE  RecordedOnce
<1>1. history \in Seq(released)
  BY DEF Told, Inv
<1>2. DOMAIN history = 1..Len(history)
  BY <1>1, LenProperties
<1>3. QED
  BY <1>2 DEF Told, Recorded, RecordedOnce

\* The schema always tells which migrations the history records: it has the
\* mark of each that makes one, and no table of a base that is not recorded;
\* and none that adds columns to a table is recorded before its creation.
THEOREM HistoryTold == Spec => []Told
<1>1. Init => Told
  BY InitTold
<1>2. Told /\ [Next]_vars => Told'
  BY NextTold
<1>3. QED
  BY <1>1, <1>2, PTL DEF Spec

\* Whatever is released in whatever order, and whichever runs read the same
\* history and commit after one another: a migration is recorded twice only
\* if every one of its statements looks before it changes anything.
THEOREM NeverTwice == Spec => []RecordedOnce
<1>1. Told => RecordedOnce
  BY ToldRecordedOnce
<1>2. QED
  BY <1>1, HistoryTold, PTL

-----------------------------------------------------------------------------
(* What each migration gives to the entities: <<migration, kind, table or  *)
(* type, what>>.                                                           *)

\* The tables, of those the entities are mapped to.
Founds ==
  {<<"CreateTenants", "table", "tenants", {}>>,
   <<"CreateUsers", "table", "users", {}>>,
   <<"CreateCustomers", "table", "customers", {}>>,
   <<"CreateBudgetEnvelopes", "table", "budget_envelopes", {}>>,
   <<"CreateBudgetTransactions", "table", "budget_transactions", {}>>,
   <<"CreateLedgerEntries", "table", "ledger_entries", {}>>,
   <<"CreateNotifications", "table", "notifications", {}>>,
   <<"CreateAdminAuditLogs", "table", "admin_audit_logs", {}>>,
   <<"CreateAgreements", "table", "agreements", {}>>,
   <<"CreateApprovalRequests", "table", "approval_requests", {}>>,
   <<"CreateAgreementTransactions", "table", "agreement_transactions", {}>>,
   <<"CreateMasterDataEntities", "table", "brands", {}>>,
   <<"CreateMasterDataEntities", "table", "categories", {}>>,
   <<"CreateMasterDataEntities", "table", "channels", {}>>,
   <<"CreateMasterDataEntities", "table", "regions", {}>>,
   <<"CreateMasterDataEntities", "table", "generic_units", {}>>,
   <<"CreateMasterDataEntities", "table", "forecasting_units", {}>>,
   <<"CreateMasterDataEntities", "table", "skus", {}>>,
   <<"CreateMasterDataEntities", "table", "tactics", {}>>,
   <<"CreateMasterDataEntities", "table", "mechanics", {}>>,
   <<"CreateMasterDataEntities", "table", "cpls", {}>>,
   <<"CreateKpis", "table", "kpis", {}>>,
   <<"CreatePlans", "table", "plans", {}>>,
   <<"CreatePlans", "table", "plan_fus", {}>>,
   <<"CreatePlans", "table", "plan_skus", {}>>,
   <<"UpdateBudgetAllocationStructure", "table", "budget_transaction_logs",
     {}>>,
   <<"UpdateBudgetAllocationStructure",
     "table", "budget_alert_configurations",
     {}>>,
   <<"AddSpendManagementTables", "table", "plan_mechanic_values", {}>>,
   <<"AddSpendManagementTables", "table", "mechanic_spend_breakdown", {}>>,
   <<"UpdateLTAAgreementsStructure", "table", "lta_rates", {}>>,
   <<"UpdateLTAAgreementsStructure", "table", "lta_plan_overrides", {}>>,
   <<"CreateOnInvoiceTables", "table", "on_invoice_batches", {}>>,
   <<"CreateOnInvoiceTables", "table", "on_invoice_entries", {}>>}

\* The columns it adds to a table.
Brings ==
  {<<"AddNumberOfBranchesToCustomers", "columns", "customers",
     {"number_of_branches"}>>,
   <<"AddMissingFieldsToAgreements", "columns", "agreements",
     {"description", "category_id", "reconciliation_period", "notes"}>>,
   <<"CreateMasterDataEntities", "columns", "customers", {"cpl_id"}>>,
   <<"UpdateAgreementsMasterDataRelations", "columns", "agreements",
     {"channel_id"}>>,
   <<"AddChannelCategoryToBudgetEnvelope", "columns", "budget_envelopes",
     {"channel", "category", "channel_id", "category_id"}>>,
   <<"AddAdditionalParamsToAgreements", "columns", "agreements",
     {"additional_params", "kpi_results"}>>,
   <<"UpdateBudgetAllocationStructure", "columns", "budget_allocations",
     {"period_type", "period_start", "period_end", "fiscal_year",
      "cpl_id", "channel", "category", "on_invoice_budget",
      "off_invoice_budget", "on_invoice_utilized",
      "off_invoice_utilized", "on_invoice_reserved",
      "off_invoice_reserved", "alert_threshold_80", "alert_threshold_95",
      "alert_threshold_100", "alert_recipients", "hard_limit_mode",
      "allow_carry_forward"}>>,
   <<"UpdateBudgetAllocationStructure", "columns", "budget_allocations",
     {"total_budget", "on_invoice_available", "off_invoice_available"}>>,
   <<"AddSpendManagementTables", "columns", "mechanics",
     {"spending_type", "calculation_formula", "applicability_rules",
      "input_constraints"}>>,
   <<"AddSpendManagementTables", "columns", "plan_skus",
     {"base_lta_on_invoice_spend", "base_lta_off_invoice_spend",
      "planned_lta_on_invoice_spend", "planned_lta_off_invoice_spend",
      "promo_on_invoice_spend", "promo_off_invoice_spend"}>>,
   <<"AddPromoMechanicsConfig", "columns", "mechanics",
     {"category", "input_type", "default_value", "step_increment",
      "decimal_places", "unit_symbol", "formula_variables",
      "formula_validation_status", "test_data", "applicable_channels",
      "applicable_categories", "applicable_cpls", "show_in_grid",
      "grid_column_order", "grid_column_width", "group_header",
      "track_against_budget", "budget_type",
      "requires_approval_threshold", "approval_flow",
      "mutually_exclusive_with", "max_combined_discount_percentage",
      "combination_warnings"}>>,
   <<"AddPromoMechanicsConfig", "columns", "mechanics",
     {"exclusion_rules"}>>,
   <<"UpdateLTAAgreementsStructure", "columns", "lta_agreements",
     {"agreement_name", "agreement_code", "effective_date", "status",
      "total_agreement_value", "notes", "expiry_date"}>>,
   <<"AddApprovalWorkflowFieldsToPlans", "columns", "plans",
     {"submission_notes", "submitted_at", "submitted_by",
      "pending_finance_review", "escalation_reason", "escalated_at",
      "escalated_by", "on_invoice_spend", "off_invoice_spend"}>>,
   <<"AddFiscalPeriodToAgreementTransaction",
     "columns", "agreement_transactions",
     {"fiscal_period"}>>,
   <<"AddCalculatedKpisToPlans", "columns", "plan_skus",
     {"calculated_kpis"}>>,
   <<"AddCalculatedKpisToPlans", "columns", "plan_fus",
     {"calculated_kpis"}>>}

\* The column it takes away that had to have a value and that the entity does
\* not write.
Spares ==
  {<<"UpdateAgreementsMasterDataRelations", "spares", "agreements",
     {"channel"}>>,
   <<"UpdateBudgetAllocationStructure", "spares", "budget_allocations",
     {"envelope_id"}>>,
   <<"UpdateLTAAgreementsStructure", "spares", "lta_agreements",
     {"channel_id"}>>}

\* The labels of the type it creates, and those it adds.
Enums ==
  {<<"CreateUsers", "labels", "users_role_enum",
     {"ADMIN", "PLANNER", "APPROVER", "FINANCE"}>>,
   <<"CreateApprovalRequests", "labels",
     "approval_requests_request_type_enum",
     {"AGREEMENT", "BUDGET_TRANSFER", "IMPORT_BATCH", "OTHER"}>>,
   <<"CreatePlans", "labels", "plans_plan_status_enum",
     {"DRAFT", "PENDING_APPROVAL", "APPROVED", "REJECTED"}>>}

Added ==
  {<<"AddPlanToApprovalRequestTypeEnum", "labels",
     "approval_requests_request_type_enum", {"PLAN"}>>,
   <<"AddFinanceManagerAndCategoryManagerRoles", "labels", "users_role_enum",
     {"FINANCE_MANAGER", "CATEGORY_MANAGER"}>>,
   <<"AddApprovalWorkflowFieldsToPlans", "labels", "plans_plan_status_enum",
     {"PENDING_FINANCE_REVIEW"}>>}

Gifts == Founds \cup Brings \cup Spares \cup Enums \cup Added

RequiredOf(s, table) ==
  IF Exists(s, table) THEN s.tables[table].required ELSE {}

Holds(s, gift) ==
  /\ gift[2] \in {"table", "columns", "spares"} => Exists(s, gift[3])
  /\ gift[2] = "columns" => gift[4] \subseteq ColumnsOf(s, gift[3])
  /\ gift[2] = "spares" => gift[4] \cap RequiredOf(s, gift[3]) = {}
  /\ gift[2] = "labels" => /\ gift[3] \in DOMAIN s.labels
                          /\ gift[4] \subseteq s.labels[gift[3]]

\* The columns a table has since it was created.
Core(table) ==
  {column \in Registered[table] :
     /\ \A gift \in Brings : gift[3] = table => column \notin gift[4]
     /\ <<table, column>> # <<"budget_allocations", "metadata">>}

\* The entity writes the column, or a migration takes it away.
Known(table, column) ==
  \/ column \in Registered[table]
  \/ \E gift \in Spares : gift[3] = table /\ column \in gift[4]

\* The foreign key that keeps the allocations while there are logs of them.
Logs == "budget_transaction_logs"

LogReference == <<Logs, "budget_allocation_id", "budget_allocations">>

\* What holds of a table or a type whenever it is there.
Shape(s) ==
  /\ \A table \in DOMAIN Registered : Exists(s, table) =>
       /\ Core(table) \subseteq ColumnsOf(s, table)
       /\ \A column \in RequiredOf(s, table) : Known(table, column)
  /\ \A gift \in Enums : gift[3] \in DOMAIN s.labels =>
       gift[4] \subseteq s.labels[gift[3]]
  /\ Exists(s, Logs) => LogReference \in s.references

-----------------------------------------------------------------------------
(* What a statement does to the required columns, to the foreign keys and  *)
(* to the labels.                                                          *)

\* The statement makes a column of a table that is there required.
Imposes(statement, table, column) ==
  /\ statement.table = table
  /\ \/ statement.do = "add missing" /\ column \in statement.required
     \/ statement.do = "require" /\ column = statement.column

Unrefers(statement, table) ==
  /\ statement.do \in {"drop table", "drop", "drop present", "unrefer",
                       "unrefer all"}
  /\ statement.table = table

Unlabels(statement, type) ==
  /\ statement.do = "drop type"
  /\ statement.type = type

LEMMA RequiredIn ==
  ASSUME NEW s, Sound(s), NEW table
  PROVE  RequiredOf(s, table) \subseteq ColumnsOf(s, table)
BY DEF RequiredOf, ColumnsOf, Exists, Sound, IsTable

LEMMA EffectRequires ==
  ASSUME NEW s, Sound(s), NEW statement, WellFormed(statement), NEW table,
         NEW column \in RequiredOf(Effect(s, statement), table),
         column \notin RequiredOf(s, table)
  PROVE  \/ Imposes(statement, table, column)
         \/ Creates(statement, table) /\ ~Exists(s, table)
<1>1. PICK e : e = Effect(s, statement) /\ column \in RequiredOf(e, table)
  OBVIOUS
<1>2. ASSUME e.tables = s.tables PROVE FALSE
  BY <1>1, <1>2 DEF RequiredOf, Exists
<1> DEFINE at == statement.table
<1>3. ASSUME NEW x, e.tables = [s.tables EXCEPT ![at] = x],
             column \in x.required => \/ column \in s.tables[at].required
                                      \/ Imposes(statement, at, column)
      PROVE  Imposes(statement, table, column)
  BY <1>1, <1>3 DEF RequiredOf, Exists
<1>4. CASE statement.do \in {"create", "create missing"}
  <2>1. /\ ~Exists(s, at)
        /\ e.tables = Extended(s.tables, at, statement.columns)
    BY ZenonT(60), <1>1, <1>2, <1>4, EffectChanges DEF Changed
  <2>2. QED
    BY <1>1, <1>4, <2>1 DEF RequiredOf, Exists, Extended, Creates
<1>5. CASE statement.do = "drop table"
  <2>1. e.tables = Without(s.tables, at)
    BY <1>1, <1>2, <1>5, EffectChanges DEF Changed
  <2>2. QED
    BY <1>1, <2>1 DEF RequiredOf, Exists, Without
<1>6. CASE statement.do \in {"add", "add missing"}
  <2>1. PICK required, columns :
          /\ e = WithColumns(s, at, required, columns)
          /\ required \subseteq statement.required
    BY <1>1, <1>6 DEF Effect
  <2>2. e.tables = Widened(s.tables, at, required, columns)
    BY <1>2, <2>1, WithColumnsTables
  <2>3. PICK x : x = [required |-> s.tables[at].required \cup required,
                      columns |-> s.tables[at].columns \cup columns]
    OBVIOUS
  <2>4. column \in x.required => \/ column \in s.tables[at].required
                                 \/ Imposes(statement, at, column)
    BY <1>6, <2>1, <2>3 DEF Imposes, WellFormed
  <2>5. QED
    BY <1>3, <2>2, <2>3, <2>4 DEF Widened
<1>7. CASE statement.do \in {"drop", "drop present"}
  <2>1. \E columns : e = WithoutColumns(s, at, columns)
    BY <1>1, <1>7 DEF Effect
  <2>2. PICK columns : e.tables = Narrowed(s.tables, at, columns)
    BY <1>2, <2>1, WithoutColumnsTables
  <2>3. PICK x : x = [required |-> s.tables[at].required \ columns,
                      columns |-> s.tables[at].columns \ columns]
    OBVIOUS
  <2>4. QED
    BY <1>3, <2>2, <2>3 DEF Narrowed
<1>8. CASE statement.do \in {"require", "relax"}
  <2>1. PICK required :
          /\ e = [s EXCEPT !.tables[at].required = required]
          /\ Exists(s, at)
          /\ column \in required => \/ column \in s.tables[at].required
                                    \/ Imposes(statement, at, column)
    <3>1. e # [s EXCEPT !.ok = FALSE]
      BY <1>2, RefusedTables
    <3>2. CASE statement.do = "require"
      <4>1. /\ statement.column \in ColumnsOf(s, at)
            /\ e = [s EXCEPT !.tables[at].required =
                                @ \cup {statement.column}]
        BY <1>1, <3>1, <3>2 DEF Effect, If
      <4>2. PICK required :
              required = s.tables[at].required \cup {statement.column}
        OBVIOUS
      <4>3. e = [s EXCEPT !.tables[at].required = required]
        BY <4>1, <4>2
      <4>4. QED
        <5>1. Exists(s, at)
          BY <4>1 DEF ColumnsOf
        <5>2. column \in required => \/ column \in s.tables[at].required
                                     \/ Imposes(statement, at, column)
          BY <3>2, <4>2 DEF Imposes
        <5>3. QED
          BY <4>3, <5>1, <5>2
    <3>3. CASE statement.do = "relax"
      <4>1. /\ statement.column \in ColumnsOf(s, at)
            /\ e = [s EXCEPT !.tables[at].required =
                                @ \ {statement.column}]
        BY <1>1, <3>1, <3>3 DEF Effect, If
      <4>2. PICK required :
              required = s.tables[at].required \ {statement.column}
        OBVIOUS
      <4>3. e = [s EXCEPT !.tables[at].required = required]
        BY <4>1, <4>2
      <4>4. QED
        <5>1. Exists(s, at)
          BY <4>1 DEF ColumnsOf
        <5>2. column \in required => column \in s.tables[at].required
          BY <4>2
        <5>3. QED
          BY <4>3, <5>1, <5>2
    <3>4. QED
      BY <1>8, <3>2, <3>3
  <2>2. PICK x : x = [s.tables[at] EXCEPT !.required = required]
    OBVIOUS
  <2>3. e.tables = [s.tables EXCEPT ![at] = x]
    BY <2>1, <2>2, Fields
  <2>4. x.required = required
    BY <2>1, <2>2 DEF Sound, Exists, IsTable
  <2>5. QED
    BY <1>3, <2>1, <2>3, <2>4
<1>9. CASE statement.do \in {"refer", "refer missing"}
  <2>1. \/ e = [s EXCEPT !.ok = FALSE]
        \/ e = WithReferences(s, at, statement.references)
    BY <1>1, <1>9 DEF Effect, If
  <2>2. e.tables = s.tables
    BY <2>1, RefusedTables, WithReferencesTables
  <2>3. QED
    BY <1>2, <2>2
<1>10. CASE statement.do \in {"unrefer", "unrefer all", "type", "label",
                              "label if possible", "drop type", "view",
                              "drop view", "delete rows"}
  <2>1. e.tables = s.tables
    BY <1>1, <1>10, Fields DEF Effect, If, WithLabels, WithoutReferences
  <2>2. QED
    BY <1>2, <2>1
<1>11. QED
  BY <1>4, <1>5, <1>6, <1>7, <1>8, <1>9, <1>10 DEF WellFormed, Kinds

\* A table stays until it is dropped.
LEMMA EffectStands ==
  ASSUME NEW s, Sound(s), NEW statement, WellFormed(statement), NEW table,
         Exists(s, table), ~Drops(statement, table)
  PROVE  Exists(Effect(s, statement), table)
<1>1. PICK e : e = Effect(s, statement)
  OBVIOUS
<1>2. Changed(s, e, statement)
  BY <1>1, EffectChanges
<1>3. table \in DOMAIN e.tables
  BY <1>2 DEF Changed, Drops, Exists, Extended, Without
<1>4. QED
  BY <1>1, <1>3 DEF Exists

\* A table that was not there is as it was created.
LEMMA EffectFounds ==
  ASSUME NEW s, Sound(s), NEW statement, WellFormed(statement), NEW table,
         Exists(Effect(s, statement), table), ~Exists(s, table)
  PROVE  /\ Creates(statement, table)
         /\ Effect(s, statement).tables[table] = statement.columns
<1>1. PICK e : e = Effect(s, statement)
  OBVIOUS
<1>2. Changed(s, e, statement)
  BY <1>1, EffectChanges
<1>3. table \in DOMAIN e.tables /\ table \notin DOMAIN s.tables
  BY <1>1 DEF Exists
<1>4. Creates(statement, table) /\ e.tables[table] = statement.columns
  BY ZenonT(60), <1>2, <1>3 DEF Changed, Creates, Extended, Without, Exists
<1>5. QED
  BY <1>1, <1>4

LEMMA RefusedReferences ==
  ASSUME NEW s, Sound(s), NEW e, e = [s EXCEPT !.ok = FALSE]
  PROVE  e.references = s.references /\ e.labels = s.labels
BY Fields

\* A foreign key stays until its column, its table or itself is dropped.
LEMMA EffectRefers ==
  ASSUME NEW s, Sound(s), NEW statement, WellFormed(statement),
         NEW reference \in s.references,
         ~Unrefers(statement, reference[1])
  PROVE  reference \in Effect(s, statement).references
<1>1. PICK e : e = Effect(s, statement)
  OBVIOUS
<1> DEFINE at == statement.table
<1>2. \A t, references :
        DOMAIN t = DOMAIN s /\ reference \in t.references =>
          reference \in WithReferences(t, at, references).references
  BY Fields DEF WithReferences, If
<1>3. CASE statement.do \in {"create", "create missing"}
  <2>1. \/ e = s
        \/ e = WithTable(s, at, statement.columns, statement.references)
    BY <1>1, <1>3 DEF Effect
  <2>2. PICK t : t = [s EXCEPT !.tables =
                        Extended(@, at, statement.columns)]
    OBVIOUS
  <2>3. DOMAIN t = DOMAIN s /\ t.references = s.references
    BY <2>2, Fields
  <2>4. reference \in
          WithTable(s, at, statement.columns, statement.references).references
    BY <1>2, <2>2, <2>3, RefusedReferences DEF WithTable, If
  <2>5. QED
    BY <1>1, <2>1, <2>4
<1>4. CASE statement.do \in {"refer", "refer missing"}
  BY <1>1, <1>2, <1>4, RefusedReferences DEF Effect, If
<1>5. CASE statement.do = "drop table"
  <2>1. e = WithoutTable(s, at) /\ at # reference[1]
    BY <1>1, <1>5 DEF Effect, Unrefers
  <2>2. PICK references :
          references = {other \in s.references : other[1] # at}
    OBVIOUS
  <2>3. reference \in references
    BY <2>1, <2>2
  <2>4. e.references = references \/ e.references = s.references
    BY <2>1, <2>2, RefusedReferences, Fields DEF WithoutTable, If
  <2>5. QED
    BY <1>1, <2>3, <2>4
<1>6. CASE statement.do \in {"drop", "drop present"}
  <2>1. /\ \E columns : e = WithoutColumns(s, at, columns)
        /\ at # reference[1]
    BY <1>1, <1>6 DEF Effect, Unrefers
  <2>2. PICK columns : e = WithoutColumns(s, at, columns)
    BY <2>1
  <2>3. PICK references :
          references = {other \in s.references :
                          other[1] = at => other[2] \notin columns}
    OBVIOUS
  <2>4. reference \in references
    BY <2>1, <2>3
  <2>5. e.references = references \/ e.references = s.references
    BY <2>2, <2>3, RefusedReferences, Fields DEF WithoutColumns, If
  <2>6. QED
    BY <1>1, <2>4, <2>5
<1>7. CASE statement.do \in {"unrefer", "unrefer all"}
  <2>1. /\ \E columns : e = WithoutReferences(s, at, columns)
        /\ at # reference[1]
    BY <1>1, <1>7 DEF Effect, Unrefers
  <2>2. PICK columns : e = WithoutReferences(s, at, columns)
    BY <2>1
  <2>3. e.references = {other \in s.references :
                          other[1] = at => other[2] \notin columns}
    BY <2>2, Fields DEF WithoutReferences
  <2>4. QED
    BY <1>1, <2>1, <2>3
<1>8. CASE statement.do \in {"add", "add missing", "require", "relax",
                             "type", "label", "label if possible",
                             "drop type", "view", "drop view",
                             "delete rows"}
  <2>1. e.references = s.references
    BY <1>1, <1>8, RefusedReferences, Fields
       DEF Effect, If, WithColumns, WithLabels
  <2>2. QED
    BY <1>1, <2>1
<1>9. QED
  BY <1>3, <1>4, <1>5, <1>6, <1>7, <1>8 DEF WellFormed, Kinds

\* The foreign keys of a new table are there if the statement succeeds.
Referred(table, references) ==
  {<<table, reference[1], reference[2]>> : reference \in references}

LEMMA EffectCreatesReferences ==
  ASSUME NEW s, Sound(s), NEW statement, NEW at, Creates(statement, at),
         ~Exists(s, at), Effect(s, statement).ok
  PROVE  Referred(at, statement.references)
           \subseteq Effect(s, statement).references
<1>1. PICK e : e = Effect(s, statement) /\ e.ok
  OBVIOUS
<1>2. e = WithTable(s, at, statement.columns, statement.references)
  BY <1>1 DEF Effect, Creates
<1>3. PICK t : t = [s EXCEPT !.tables = Extended(@, at, statement.columns)]
  OBVIOUS
<1>4. DOMAIN t = DOMAIN s
  BY <1>3
<1>5. e = WithReferences(t, at, statement.references)
  BY <1>2, <1>3 DEF WithTable, If
<1>6. PICK new : new = Referred(at, statement.references)
  OBVIOUS
<1>7. e = [t EXCEPT !.references = @ \cup new]
  <2>1. ~[t EXCEPT !.ok = FALSE].ok
    BY <1>4, Fields
  <2>2. QED
    BY <1>1, <1>5, <1>6, <2>1 DEF WithReferences, If, Referred
<1>8. e.references = t.references \cup new
  BY <1>4, <1>7, Fields
<1>9. QED
  BY <1>1, <1>6, <1>8

\* A type keeps its labels until it is dropped; a new one is as created.
LEMMA EffectLabels ==
  ASSUME NEW s, Sound(s), NEW statement, WellFormed(statement), NEW type
  PROVE  /\ type \in DOMAIN s.labels /\ ~Unlabels(statement, type) =>
              /\ type \in DOMAIN Effect(s, statement).labels
              /\ s.labels[type] \subseteq Effect(s, statement).labels[type]
         /\ type \notin DOMAIN s.labels
              /\ type \in DOMAIN Effect(s, statement).labels =>
                /\ statement.do = "type" /\ statement.type = type
                /\ Effect(s, statement).labels[type] = statement.labels
<1>1. PICK e : e = Effect(s, statement)
  OBVIOUS
<1> DEFINE at == statement.type
<1>2. CASE e.labels = s.labels
  BY <1>1, <1>2
<1>3. CASE statement.do = "type"
  <2>1. \/ e.labels = s.labels
        \/ /\ at \notin DOMAIN s.labels
           /\ e.labels = Extended(s.labels, at, statement.labels)
    BY <1>1, <1>3, Fields DEF Effect
  <2>2. QED
    BY <1>1, <1>2, <1>3, <2>1 DEF Extended
<1>4. CASE statement.do \in {"label", "label if possible"}
  <2>1. \/ e.labels = s.labels
        \/ e = WithLabels(s, at, statement.labels)
    BY <1>1, <1>4, RefusedReferences DEF Effect, If
  <2>2. PICK labels :
          labels = [s.labels EXCEPT ![at] = @ \cup statement.labels]
    OBVIOUS
  <2>3. e.labels = s.labels \/ e.labels = labels
    BY <2>1, <2>2, Fields DEF WithLabels
  <2>4. QED
    BY <1>1, <1>2, <1>4, <2>2, <2>3
<1>5. CASE statement.do = "drop type"
  <2>1. e.labels = [other \in DOMAIN s.labels \ {at} |-> s.labels[other]]
    BY <1>1, <1>5, Fields DEF Effect
  <2>2. QED
    BY <1>1, <1>5, <2>1 DEF Unlabels
<1>6. CASE statement.do \in {"create", "create missing"}
  <2>1. \/ e = s
        \/ e = WithTable(s, statement.table, statement.columns,
                         statement.references)
    BY <1>1, <1>6 DEF Effect
  <2>2. PICK t : t = [s EXCEPT !.tables =
                        Extended(@, statement.table, statement.columns)]
    OBVIOUS
  <2>3. DOMAIN t = DOMAIN s /\ t.labels = s.labels
    BY <2>2, Fields
  <2>4. WithReferences(t, statement.table, statement.references).labels
          = t.labels
    BY <2>3, Fields DEF WithReferences, If
  <2>5. QED
    BY <1>2, <2>1, <2>2, <2>3, <2>4, RefusedReferences DEF WithTable, If
<1>7. CASE statement.do \in {"drop table", "drop", "drop present"}
  <2>1. e.labels = s.labels
    BY <1>1, <1>7, RefusedReferences, Fields
       DEF Effect, If, WithoutTable, WithoutColumns
  <2>2. QED
    BY <1>2, <2>1
<1>8. CASE statement.do \in {"add", "add missing", "require", "relax"}
  <2>1. e.labels = s.labels
    BY <1>1, <1>8, RefusedReferences, Fields DEF Effect, If, WithColumns
  <2>2. QED
    BY <1>2, <2>1
<1>9. CASE statement.do \in {"refer", "refer missing", "unrefer",
                             "unrefer all", "view", "drop view",
                             "delete rows"}
  <2>1. e.labels = s.labels
    BY <1>1, <1>9, RefusedReferences, Fields
       DEF Effect, If, WithReferences, WithoutReferences
  <2>2. QED
    BY <1>2, <2>1
<1>10. QED
  BY <1>3, <1>4, <1>5, <1>6, <1>7, <1>8, <1>9 DEF WellFormed, Kinds

-----------------------------------------------------------------------------
(* What a statement may do to them.                                        *)

\* The statement may take the gift away.
Takes(statement, gift) ==
  \/ /\ gift[2] \in {"table", "columns", "spares"}
     /\ Drops(statement, gift[3])
  \/ /\ gift[2] = "columns"
     /\ \E column \in gift[4] : Hits(statement, gift[3], column)
  \/ /\ gift[2] = "spares"
     /\ \E column \in gift[4] : Imposes(statement, gift[3], column)
  \/ /\ gift[2] = "labels"
     /\ Unlabels(statement, gift[3])

\* The statement keeps the shape.
Suits(statement) ==
  /\ WellFormed(statement)
  /\ \A table \in DOMAIN Registered : Creates(statement, table) =>
       /\ Core(table) \subseteq statement.columns.columns
       /\ \A column \in statement.columns.required : Known(table, column)
  /\ \A table \in DOMAIN Registered : \A column \in Core(table) :
       Hits(statement, table, column) => Drops(statement, table)
  /\ \A table \in DOMAIN Registered : \A column :
       Imposes(statement, table, column) => Known(table, column)
  /\ \A gift \in Enums : statement.do = "type" /\ statement.type = gift[3] =>
       gift[4] \subseteq statement.labels
  /\ Creates(statement, Logs) =>
       <<"budget_allocation_id", "budget_allocations">>
         \in statement.references
  /\ Unrefers(statement, Logs) => Drops(statement, Logs)

LEMMA EffectShape ==
  ASSUME NEW s, Sound(s), Shape(s), NEW statement, Suits(statement),
         Effect(s, statement).ok
  PROVE  Shape(Effect(s, statement))
<1>1. PICK e : e = Effect(s, statement) /\ e.ok /\ WellFormed(statement)
  BY DEF Suits
<1>2. ASSUME NEW table \in DOMAIN Registered, Exists(e, table)
      PROVE  /\ Core(table) \subseteq ColumnsOf(e, table)
             /\ \A column \in RequiredOf(e, table) : Known(table, column)
  <2>1. ~Drops(statement, table)
    BY <1>1, <1>2, EffectDrops
  <2>2. CASE Exists(s, table)
    <3>1. \A column \in Core(table) : column \in ColumnsOf(e, table)
      BY <1>1, <2>1, <2>2, EffectKeeps DEF Suits, Shape
    <3>2. \A column \in RequiredOf(e, table) : Known(table, column)
      BY <1>1, <2>2, EffectRequires DEF Suits, Shape
    <3>3. QED
      BY <3>1, <3>2
  <2>3. CASE ~Exists(s, table)
    <3>1. /\ Creates(statement, table)
          /\ e.tables[table] = statement.columns
      BY <1>1, <1>2, <2>3, EffectFounds
    <3>2. /\ ColumnsOf(e, table) = statement.columns.columns
          /\ RequiredOf(e, table) = statement.columns.required
      BY <1>2, <3>1 DEF ColumnsOf, RequiredOf
    <3>3. QED
      BY <3>1, <3>2 DEF Suits
  <2>4. QED
    BY <2>2, <2>3
<1>3. ASSUME NEW gift \in Enums, gift[3] \in DOMAIN e.labels
      PROVE  gift[4] \subseteq e.labels[gift[3]]
  <2>1. CASE gift[3] \in DOMAIN s.labels /\ ~Unlabels(statement, gift[3])
    BY <1>1, <2>1, EffectLabels DEF Shape
  <2>2. CASE gift[3] \notin DOMAIN s.labels
    BY <1>1, <1>3, <2>2, EffectLabels DEF Suits
  <2>3. CASE Unlabels(statement, gift[3])
    <3>1. e.labels = [type \in DOMAIN s.labels \ {gift[3]} |->
                        s.labels[type]]
      BY <1>1, <2>3, Fields DEF Unlabels, Effect
    <3>2. QED
      BY <1>3, <3>1
  <2>4. QED
    BY <2>1, <2>2, <2>3
<1>4. ASSUME Exists(e, Logs)
      PROVE  LogReference \in e.references
  <2>1. ~Drops(statement, Logs)
    BY <1>1, <1>4, EffectDrops
  <2>2. CASE Exists(s, Logs)
    <3>1. LogReference \in s.references /\ ~Unrefers(statement, Logs)
      BY <2>1, <2>2 DEF Shape, Suits
    <3>2. LogReference[1] = Logs
      BY DEF LogReference
    <3>3. QED
      BY <1>1, <3>1, <3>2, EffectRefers
  <2>3. CASE ~Exists(s, Logs)
    <3>1. Creates(statement, Logs)
      BY <1>1, <1>4, <2>3, EffectFounds
    <3>2. LogReference \in Referred(Logs, statement.references)
      <4>1. <<"budget_allocation_id", "budget_allocations">>
              \in statement.references
        BY <3>1 DEF Suits
      <4>2. QED
        BY <4>1 DEF LogReference, Referred
    <3>3. Referred(Logs, statement.references) \subseteq e.references
      BY <1>1, <2>3, <3>1, EffectCreatesReferences
    <3>4. QED
      BY <3>2, <3>3
  <2>4. QED
    BY <2>2, <2>3
<1>5. QED
  BY <1>1, <1>2, <1>3, <1>4 DEF Shape

LEMMA EffectHolds ==
  ASSUME NEW s, Sound(s), NEW statement, WellFormed(statement), NEW gift,
         Holds(s, gift), ~Takes(statement, gift)
  PROVE  Holds(Effect(s, statement), gift)
<1>1. PICK e : e = Effect(s, statement)
  OBVIOUS
<1>2. gift[2] \in {"table", "columns", "spares"} => Exists(e, gift[3])
  BY <1>1, EffectStands DEF Holds, Takes
<1>3. ASSUME gift[2] = "columns"
      PROVE  gift[4] \subseteq ColumnsOf(e, gift[3])
  <2>1. \A column \in gift[4] : column \in ColumnsOf(e, gift[3])
    BY <1>1, <1>3, EffectKeeps DEF Holds, Takes
  <2>2. QED
    BY <2>1
<1>4. ASSUME gift[2] = "spares"
      PROVE  gift[4] \cap RequiredOf(e, gift[3]) = {}
  <2>1. \A column \in gift[4] : column \notin RequiredOf(e, gift[3])
    BY <1>1, <1>4, EffectRequires DEF Holds, Takes
  <2>2. QED
    BY <2>1
<1>5. gift[2] = "labels" => /\ gift[3] \in DOMAIN e.labels
                            /\ gift[4] \subseteq e.labels[gift[3]]
  BY <1>1, EffectLabels DEF Holds, Takes
<1>6. QED
  BY <1>1, <1>2, <1>3, <1>4, <1>5 DEF Holds

\* The statement gives the gift, if it succeeds on a schema of that shape.
Gives(s, statement, gift) ==
  \/ /\ gift[2] = "table"
     /\ Creates(statement, gift[3])
  \/ /\ gift[2] = "columns"
     /\ statement.do \in {"add", "add missing"}
     /\ statement.table = gift[3]
     /\ gift[4] \subseteq statement.columns
  \/ /\ gift[2] = "spares"
     /\ statement.do = "drop present"
     /\ statement.table = gift[3]
     /\ gift[4] \subseteq statement.columns
     /\ Exists(s, gift[3])
  \/ /\ gift[2] = "labels"
     /\ statement.type = gift[3]
     /\ \/ statement.do = "type" /\ gift \in Enums
        \/ statement.do = "label" /\ gift[4] \subseteq statement.labels
        \/ /\ statement.do = "label if possible"
           /\ gift[4] \subseteq statement.labels
           /\ gift[3] \in DOMAIN s.labels

LEMMA EffectGives ==
  ASSUME NEW s, Sound(s), Shape(s), NEW statement, Suits(statement),
         Effect(s, statement).ok, NEW gift, Gives(s, statement, gift)
  PROVE  Holds(Effect(s, statement), gift)
<1>1. PICK e : e = Effect(s, statement) /\ e.ok /\ WellFormed(statement)
  BY DEF Suits
<1>2. PICK at : at = gift[3]
  OBVIOUS
<1>3. ASSUME gift[2] = "table", Creates(statement, at)
      PROVE  Exists(e, at)
  <2>1. /\ statement.do \in {"create", "create missing"}
        /\ statement.table = at
        /\ IsTable(statement.columns)
    BY <1>1, <1>3 DEF Creates, WellFormed
  <2>2. \/ e = s /\ Exists(s, at)
        \/ e = WithTable(s, at, statement.columns, statement.references)
    BY <1>1, <2>1 DEF Effect
  <2>3. CASE e = s /\ Exists(s, at)
    BY <2>3
  <2>4. CASE e = WithTable(s, at, statement.columns, statement.references)
    <3>1. PICK columns, references :
            /\ e = WithTable(s, at, columns, references)
            /\ IsTable(columns)
      BY <2>1, <2>4
    <3>2. e.tables = Extended(s.tables, at, columns)
      BY <1>1, <3>1, WithTableTables
    <3>3. QED
      BY <3>2 DEF Exists, Extended
  <2>5. QED
    BY <2>2, <2>3, <2>4
<1>4. ASSUME gift[2] = "columns", statement.do \in {"add", "add missing"},
             statement.table = at, gift[4] \subseteq statement.columns
      PROVE  Exists(e, at) /\ gift[4] \subseteq ColumnsOf(e, at)
  <2>1. PICK required, columns :
          /\ e = WithColumns(s, at, required, columns)
          /\ statement.columns \subseteq columns \cup ColumnsOf(s, at)
    <3>1. CASE statement.do = "add"
      <4>1. e = WithColumns(s, at, statement.required, statement.columns)
        BY <1>1, <1>4, <3>1 DEF Effect
      <4>2. QED
        BY <4>1
    <3>2. CASE statement.do = "add missing"
      <4>1. e = WithColumns(s, at,
                            statement.required \cap Missing(s, statement),
                            Missing(s, statement))
        BY <1>1, <1>4, <3>2 DEF Effect
      <4>2. statement.columns
              \subseteq Missing(s, statement) \cup ColumnsOf(s, at)
        BY <1>4 DEF Missing
      <4>3. QED
        BY <4>1, <4>2
    <3>3. QED
      BY <1>4, <3>1, <3>2
  <2>2. /\ Exists(s, at)
        /\ e.tables = Widened(s.tables, at, required, columns)
    BY <1>1, <2>1, WithColumnsTables
  <2>3. Exists(e, at)
    BY <2>2 DEF Exists, Widened
  <2>4. e.tables[at].columns = s.tables[at].columns \cup columns
    BY <2>2 DEF Exists, Widened
  <2>5. ColumnsOf(e, at) = ColumnsOf(s, at) \cup columns
    BY <2>2, <2>3, <2>4 DEF ColumnsOf
  <2>6. QED
    BY <1>4, <2>1, <2>3, <2>5
<1>5. ASSUME gift[2] = "spares", statement.do = "drop present",
             statement.table = at, gift[4] \subseteq statement.columns,
             Exists(s, at)
      PROVE  Exists(e, at) /\ gift[4] \cap RequiredOf(e, at) = {}
  <2>1. PICK columns :
          /\ columns = statement.columns \cap ColumnsOf(s, at)
          /\ e = WithoutColumns(s, at, columns)
    BY <1>1, <1>5 DEF Effect
  <2>2. e.tables = Narrowed(s.tables, at, columns)
    BY <1>1, <2>1, WithoutColumnsTables
  <2>3. Exists(e, at)
    BY <1>5, <2>2 DEF Exists, Narrowed
  <2>4. e.tables[at].required = s.tables[at].required \ columns
    <3>1. PICK x : x = [required |-> s.tables[at].required \ columns,
                        columns |-> s.tables[at].columns \ columns]
      OBVIOUS
    <3>2. e.tables = [s.tables EXCEPT ![at] = x]
      BY <2>2, <3>1 DEF Narrowed
    <3>3. e.tables[at] = x
      BY <1>5, <3>2 DEF Exists
    <3>4. QED
      BY <3>1, <3>3
  <2>5. s.tables[at].required \subseteq ColumnsOf(s, at)
    BY <1>5, RequiredIn DEF RequiredOf
  <2>6. QED
    BY <1>5, <2>1, <2>3, <2>4, <2>5 DEF RequiredOf
<1>6. ASSUME gift[2] = "labels", statement.type = at
      PROVE  at \in DOMAIN e.labels /\ gift[4] \subseteq e.labels[at]
  <2>1. CASE statement.do = "type" /\ gift \in Enums
    <3>1. at \in DOMAIN e.labels
      <4>1. \/ at \in DOMAIN s.labels /\ e = s
            \/ e.labels = Extended(s.labels, at, statement.labels)
        BY <1>1, <1>6, <2>1, Fields DEF Effect
      <4>2. QED
        BY <4>1 DEF Extended
    <3>2. Shape(e)
      BY <1>1, EffectShape
    <3>3. QED
      BY <1>2, <2>1, <3>1, <3>2 DEF Shape
  <2>2. CASE /\ statement.do \in {"label", "label if possible"}
             /\ gift[4] \subseteq statement.labels
             /\ \/ statement.do = "label"
                \/ at \in DOMAIN s.labels
    <3>1. /\ at \in DOMAIN s.labels
          /\ e = WithLabels(s, at, statement.labels)
      <4>1. [s EXCEPT !.ok = FALSE].ok = FALSE
        BY Fields
      <4>2. QED
        BY <1>1, <1>6, <2>2, <4>1 DEF Effect, If
    <3>2. PICK labels :
            labels = [s.labels EXCEPT ![at] = @ \cup statement.labels]
      OBVIOUS
    <3>3. e.labels = labels
      BY <3>1, <3>2, Fields DEF WithLabels
    <3>4. QED
      BY <2>2, <3>1, <3>2, <3>3
  <2>3. QED
    BY <1>2, <1>6, <2>1, <2>2 DEF Gives
<1>7. QED
  BY <1>1, <1>2, <1>3, <1>4, <1>5, <1>6 DEF Gives, Holds

-----------------------------------------------------------------------------
(* What a list of statements does to them.                                 *)

AllSuit(statements) ==
  /\ Len(statements) \in Nat
  /\ \A n \in 1..Len(statements) : Suits(statements[n])

LEMMA SuitWellFormed ==
  ASSUME NEW statements, AllSuit(statements)
  PROVE  AllWellFormed(statements)
BY DEF AllSuit, Suits, AllWellFormed

LEMMA CourseShape ==
  ASSUME NEW s, Shape(s), NEW statements, AllSuit(statements), NEW f,
         Course(f, s, statements), Execute(s, statements).ok
  PROVE  \A n \in 0..Len(statements) : Shape(f[n])
<1>1. Len(statements) \in Nat /\ AllWellFormed(statements)
  BY SuitWellFormed DEF AllSuit
<1> DEFINE F == {n \in 0..Len(statements) : ~Shape(f[n])}
<1>2. SUFFICES ASSUME F # {} PROVE FALSE
  OBVIOUS
<1>3. F \in SUBSET Nat
  OBVIOUS
<1>4. PICK n \in F : n = 0 \/ n - 1 \in Nat \ F
  <2> HIDE DEF F
  <2>1. QED
    BY <1>2, <1>3, Smallest
<1>5. n # 0
  BY <1>4 DEF Course
<1>6. n \in 1..Len(statements) /\ n - 1 \in 0..Len(statements)
  BY <1>1, <1>4, <1>5
<1>7. Shape(f[n - 1])
  BY <1>4, <1>6
<1>8. Sound(f[n - 1]) /\ Suits(statements[n])
  BY <1>6 DEF Course, AllSuit
<1>9. f[n] = Effect(f[n - 1], statements[n]) /\ f[n].ok
  BY <1>1, <1>6, CourseOk
<1>10. Shape(f[n])
  BY <1>7, <1>8, <1>9, EffectShape
<1>11. QED
  BY <1>4, <1>10

LEMMA ExecuteShape ==
  ASSUME NEW s, Sound(s), Shape(s), NEW statements, AllSuit(statements),
         Execute(s, statements).ok
  PROVE  Shape(Execute(s, statements))
<1>1. AllWellFormed(statements)
  BY SuitWellFormed
<1>2. PICK f : Course(f, s, statements)
  BY <1>1, ExecuteCourse
<1>3. \A n \in 0..Len(statements) : Shape(f[n])
  BY <1>2, CourseShape
<1>4. Len(statements) \in 0..Len(statements)
  BY DEF AllSuit
<1>5. QED
  BY <1>2, <1>3, <1>4 DEF Course

\* A gift is there until a statement takes it away.
LEMMA CourseHolds ==
  ASSUME NEW s, NEW statements, AllWellFormed(statements), NEW f,
         Course(f, s, statements), NEW gift,
         \A n \in 1..Len(statements) : ~Takes(statements[n], gift),
         NEW from \in 0..Len(statements), Holds(f[from], gift)
  PROVE  \A n \in from..Len(statements) : Holds(f[n], gift)
<1>1. Len(statements) \in Nat
  BY DEF AllWellFormed
<1> DEFINE F == {n \in from..Len(statements) : ~Holds(f[n], gift)}
<1>2. SUFFICES ASSUME F # {} PROVE FALSE
  OBVIOUS
<1>3. F \in SUBSET Nat
  BY <1>1
<1>4. PICK n \in F : n = 0 \/ n - 1 \in Nat \ F
  <2> HIDE DEF F
  <2>1. QED
    BY <1>2, <1>3, Smallest
<1>5. n # from
  BY <1>4
<1>6. n \in 1..Len(statements) /\ n - 1 \in from..Len(statements)
  BY <1>1, <1>4, <1>5
<1>7. Holds(f[n - 1], gift)
  BY <1>4, <1>6
<1>8. Sound(f[n - 1]) /\ WellFormed(statements[n])
  BY <1>1, <1>6 DEF Course, AllWellFormed
<1>9. Holds(Effect(f[n - 1], statements[n]), gift)
  BY <1>6, <1>7, <1>8, EffectHolds
<1>10. \/ f[n] = Effect(f[n - 1], statements[n])
       \/ f[n] = f[n - 1]
  BY <1>6 DEF Course
<1>11. QED
  BY <1>4, <1>7, <1>9, <1>10

LEMMA ExecuteHolds ==
  ASSUME NEW s, Sound(s), NEW statements, AllWellFormed(statements),
         NEW gift, Holds(s, gift),
         \A n \in 1..Len(statements) : ~Takes(statements[n], gift)
  PROVE  Holds(Execute(s, statements), gift)
<1>1. PICK f : Course(f, s, statements)
  BY ExecuteCourse
<1>2. /\ 0 \in 0..Len(statements)
      /\ Len(statements) \in 0..Len(statements)
      /\ Holds(f[0], gift)
  BY <1>1 DEF AllWellFormed, Course
<1>3. \A n \in 0..Len(statements) : Holds(f[n], gift)
  BY <1>1, <1>2, CourseHolds
<1>4. QED
  BY <1>1, <1>2, <1>3 DEF Course

\* The statement gives the gift, whatever the schema.
Grants(statement, gift) ==
  \/ /\ gift[2] = "table"
     /\ Creates(statement, gift[3])
  \/ /\ gift[2] = "columns"
     /\ statement.do \in {"add", "add missing"}
     /\ statement.table = gift[3]
     /\ gift[4] \subseteq statement.columns
  \/ /\ gift[2] = "labels"
     /\ statement.type = gift[3]
     /\ \/ statement.do = "type" /\ gift \in Enums
        \/ statement.do = "label" /\ gift[4] \subseteq statement.labels

\* It gives it where the table or the type is.
Completes(statement, gift) ==
  \/ /\ gift[2] = "spares"
     /\ statement.do = "drop present"
     /\ statement.table = gift[3]
     /\ gift[4] \subseteq statement.columns
  \/ /\ gift[2] = "labels"
     /\ statement.do = "label if possible"
     /\ statement.type = gift[3]
     /\ gift[4] \subseteq statement.labels

\* The gift that the other rests on.
Ground(gift) ==
  IF gift[2] = "labels" THEN <<gift[1], "labels", gift[3], {}>>
  ELSE <<gift[1], "table", gift[3], {}>>

\* One of the statements gives the gift, or completes what one before it or
\* the schema had.
Brought(s, statements, gift) ==
  \E m \in 1..Len(statements) :
    \/ Grants(statements[m], gift)
    \/ /\ Completes(statements[m], gift)
       /\ \/ Holds(s, Ground(gift))
          \/ \E k \in 1..(m - 1) : Grants(statements[k], Ground(gift))
          \/ /\ gift[2] = "spares"
             /\ \E k \in 1..(m - 1) :
                  Grants(statements[k], <<gift[1], "columns", gift[3], {}>>)

LEMMA GrantsGives ==
  ASSUME NEW s, NEW statement, NEW gift, Grants(statement, gift)
  PROVE  Gives(s, statement, gift)
BY DEF Grants, Gives

LEMMA CompletesGives ==
  ASSUME NEW s, NEW statement, NEW gift, Completes(statement, gift),
         Holds(s, Ground(gift))
  PROVE  Gives(s, statement, gift)
BY DEF Completes, Gives, Ground, Holds

LEMMA CourseGives ==
  ASSUME NEW s, Shape(s), NEW statements, AllSuit(statements), NEW f,
         Course(f, s, statements), Execute(s, statements).ok, NEW gift,
         \A n \in 1..Len(statements) : ~Takes(statements[n], gift),
         NEW m \in 1..Len(statements), Gives(f[m - 1], statements[m], gift)
  PROVE  \A n \in m..Len(statements) : Holds(f[n], gift)
<1>1. AllWellFormed(statements) /\ Len(statements) \in Nat
  BY SuitWellFormed DEF AllSuit
<1>2. m - 1 \in 0..Len(statements) /\ m \in 0..Len(statements)
  BY <1>1
<1>3. f[m] = Effect(f[m - 1], statements[m]) /\ f[m].ok
  BY <1>1, CourseOk
<1>4. Sound(f[m - 1]) /\ Shape(f[m - 1]) /\ Suits(statements[m])
  BY <1>2, CourseShape DEF Course, AllSuit
<1>5. Holds(f[m], gift)
  BY <1>3, <1>4, EffectGives
<1>6. QED
  BY <1>1, <1>2, <1>5, CourseHolds

LEMMA ExecuteGives ==
  ASSUME NEW s, Sound(s), Shape(s), NEW statements, AllSuit(statements),
         Execute(s, statements).ok, NEW gift, Brought(s, statements, gift),
         \A n \in 1..Len(statements) : ~Takes(statements[n], gift)
  PROVE  Holds(Execute(s, statements), gift)
<1>1. AllWellFormed(statements) /\ Len(statements) \in Nat
  BY SuitWellFormed DEF AllSuit
<1>2. PICK f : Course(f, s, statements)
  BY <1>1, ExecuteCourse
<1>3. PICK m \in 1..Len(statements) :
        \/ Grants(statements[m], gift)
        \/ /\ Completes(statements[m], gift)
           /\ \/ Holds(s, Ground(gift))
              \/ \E k \in 1..(m - 1) : Grants(statements[k], Ground(gift))
              \/ /\ gift[2] = "spares"
                 /\ \E k \in 1..(m - 1) :
                      Grants(statements[k],
                             <<gift[1], "columns", gift[3], {}>>)
  BY DEF Brought
<1>4. m - 1 \in 0..Len(statements)
  BY <1>1
<1>5. ASSUME Completes(statements[m], gift)
      PROVE  Gives(f[m - 1], statements[m], gift)
  <2>1. PICK ground : ground = Ground(gift)
    OBVIOUS
  <2>2. PICK column : column = <<gift[1], "columns", gift[3], {}>>
    OBVIOUS
  <2>3. gift[2] \in {"spares", "labels"}
    BY <1>5 DEF Completes
  <2>4. \A n \in 1..Len(statements) :
          /\ ~Takes(statements[n], ground)
          /\ gift[2] = "spares" => ~Takes(statements[n], column)
    BY <2>1, <2>2, <2>3 DEF Ground, Takes
  <2>5. CASE Holds(s, ground)
    <3>1. 0 \in 0..Len(statements) /\ Holds(f[0], ground)
      BY <1>1, <1>2, <2>5 DEF Course
    <3>2. \A n \in 0..Len(statements) : Holds(f[n], ground)
      BY <1>1, <1>2, <2>4, <3>1, CourseHolds
    <3>3. QED
      BY <1>4, <1>5, <2>1, <3>2, CompletesGives
  <2>6. ASSUME NEW k \in 1..(m - 1), Grants(statements[k], ground)
        PROVE  Gives(f[m - 1], statements[m], gift)
    <3>1. k \in 1..Len(statements) /\ m - 1 \in k..Len(statements)
      BY <1>1
    <3>2. Gives(f[k - 1], statements[k], ground)
      BY <2>6, GrantsGives
    <3>3. Holds(f[m - 1], ground)
      BY <1>2, <2>4, <3>1, <3>2, CourseGives
    <3>4. QED
      BY <1>5, <2>1, <3>3, CompletesGives
  <2>7. ASSUME gift[2] = "spares",
               NEW k \in 1..(m - 1), Grants(statements[k], column)
        PROVE  Gives(f[m - 1], statements[m], gift)
    <3>1. k \in 1..Len(statements) /\ m - 1 \in k..Len(statements)
      BY <1>1
    <3>2. Gives(f[k - 1], statements[k], column)
      BY <2>7, GrantsGives
    <3>3. Holds(f[m - 1], column)
      BY <1>2, <2>4, <2>7, <3>1, <3>2, CourseGives
    <3>4. Holds(f[m - 1], ground)
      BY <2>1, <2>2, <2>7, <3>3 DEF Holds, Ground
    <3>5. QED
      BY <1>5, <2>1, <3>4, CompletesGives
  <2>8. Grants(statements[m], gift) => Gives(f[m - 1], statements[m], gift)
    BY GrantsGives
  <2>9. QED
    BY <1>3, <2>1, <2>2, <2>5, <2>6, <2>7, <2>8
<1>6. Gives(f[m - 1], statements[m], gift)
  BY <1>3, <1>5, GrantsGives
<1>7. Len(statements) \in m..Len(statements)
  BY <1>1
<1>8. Holds(f[Len(statements)], gift)
  BY <1>2, <1>6, <1>7, CourseGives
<1>9. QED
  BY <1>2, <1>8 DEF Course

-----------------------------------------------------------------------------
(* Which statements keep the shape, and which gifts they may take.         *)

\* The statement keeps the shape and takes no gift but those of some
\* migrations.
Meets(statement, taken) ==
  /\ Suits(statement)
  /\ \A gift \in Gifts : gift[1] \notin taken => ~Takes(statement, gift)

\* The table is created as the shape asks.
Serving(table, columns, references) ==
  /\ IsTable(columns)
  /\ table \in DOMAIN Registered =>
       /\ Core(table) \subseteq columns.columns
       /\ \A column \in columns.required : Known(table, column)
  /\ table = Logs => <<"budget_allocation_id", "budget_allocations">>
                       \in references

\* Nothing but the gifts of some migrations concerns the table.
Lone(table, taken) ==
  \A gift \in Gifts : gift[2] # "labels" /\ gift[3] = table =>
    gift[1] \in taken

\* The columns are in no shape, and but for some migrations in no gift.
Spared(table, columns, taken) ==
  /\ table # Logs
  /\ table \in DOMAIN Registered => Core(table) \cap columns = {}
  /\ \A gift \in Brings : gift[3] = table /\ gift[1] \notin taken =>
       gift[4] \cap columns = {}

\* The columns may be made required.
Bearable(table, required, taken) ==
  /\ table \in DOMAIN Registered =>
       \A column \in required : Known(table, column)
  /\ \A gift \in Spares : gift[3] = table /\ gift[1] \notin taken =>
       gift[4] \cap required = {}

LEMMA GiftKinds ==
  ASSUME NEW gift \in Gifts
  PROVE  /\ gift[2] = "table" => gift \in Founds
         /\ gift[2] = "columns" => gift \in Brings
         /\ gift[2] = "spares" => gift \in Spares
         /\ gift[2] = "labels" => gift \in Enums \cup Added
         /\ gift[2] \in {"table", "columns", "spares", "labels"}
<1>1. \A other \in Founds : other[2] = "table"
  BY DEF Founds
<1>2. \A other \in Brings : other[2] = "columns"
  BY DEF Brings
<1>3. \A other \in Spares : other[2] = "spares"
  BY DEF Spares
<1>4. \A other \in Enums \cup Added : other[2] = "labels"
  BY DEF Enums, Added
<1>5. QED
  BY <1>1, <1>2, <1>3, <1>4 DEF Gifts

LEMMA MeetsCreate ==
  ASSUME NEW taken, NEW table, NEW columns, NEW references,
         Serving(table, columns, references)
  PROVE  /\ Meets(CreateTable(table, columns, references), taken)
         /\ Meets(CreateMissingTable(table, columns, references), taken)
BY StatementsWellFormed
   DEF Meets, Serving, Suits, Takes, Hits, Creates, Drops, Imposes, Unrefers,
       Unlabels, CreateTable, CreateMissingTable

LEMMA MeetsDropTable ==
  ASSUME NEW taken, NEW table, Lone(table, taken)
  PROVE  Meets(DropTable(table), taken)
<1>1. PICK statement : statement = DropTable(table)
  OBVIOUS
<1>2. Suits(statement)
  BY <1>1, StatementsWellFormed
     DEF Suits, Hits, Creates, Drops, Imposes, Unrefers, DropTable
<1>3. ASSUME NEW gift \in Gifts, gift[1] \notin taken
      PROVE  ~Takes(statement, gift)
  BY <1>1, <1>3, GiftKinds
     DEF Lone, Takes, Hits, Drops, Imposes, Unlabels, DropTable
<1>4. QED
  BY <1>1, <1>2, <1>3 DEF Meets

LEMMA MeetsDropColumns ==
  ASSUME NEW taken, NEW table, NEW columns, Spared(table, columns, taken)
  PROVE  /\ Meets(DropColumns(table, columns), taken)
         /\ Meets(DropPresentColumns(table, columns), taken)
<1>1. ASSUME NEW statement,
             statement.do = "drop" \/ statement.do = "drop present",
             statement.table = table, statement.columns = columns,
             WellFormed(statement)
      PROVE  Meets(statement, taken)
  <2>1. Suits(statement)
    BY <1>1 DEF Spared, Suits, Hits, Creates, Drops, Imposes, Unrefers
  <2>2. ASSUME NEW gift \in Gifts, gift[1] \notin taken
        PROVE  ~Takes(statement, gift)
    BY <1>1, <2>2, GiftKinds
       DEF Spared, Takes, Hits, Drops, Imposes, Unlabels
  <2>3. QED
    BY <2>1, <2>2 DEF Meets
<1>2. PICK x : x = DropColumns(table, columns)
  OBVIOUS
<1>3. x.do = "drop" /\ x.table = table /\ x.columns = columns
  BY <1>2 DEF DropColumns
<1>4. PICK y : y = DropPresentColumns(table, columns)
  OBVIOUS
<1>5. y.do = "drop present" /\ y.table = table /\ y.columns = columns
  BY <1>4 DEF DropPresentColumns
<1>6. WellFormed(x) /\ WellFormed(y)
  BY <1>2, <1>4, StatementsWellFormed
<1>7. Meets(x, taken) /\ Meets(y, taken)
  BY <1>1, <1>3, <1>5, <1>6
<1>8. QED
  BY <1>2, <1>4, <1>7

LEMMA MeetsAddColumns ==
  ASSUME NEW taken, NEW table, NEW columns, NEW required,
         Bearable(table, required, taken)
  PROVE  Meets(AddMissingColumns(table, required, columns), taken)
<1>1. PICK statement : statement = AddMissingColumns(table, required, columns)
  OBVIOUS
<1>2. /\ statement.do = "add missing"
      /\ statement.table = table
      /\ statement.required = required
      /\ WellFormed(statement)
  BY <1>1, StatementsWellFormed DEF AddMissingColumns
<1>3. Suits(statement)
  BY <1>2 DEF Bearable, Suits, Hits, Creates, Drops, Imposes, Unrefers
<1>4. ASSUME NEW gift \in Gifts, gift[1] \notin taken
      PROVE  ~Takes(statement, gift)
  BY <1>2, <1>4, GiftKinds
     DEF Bearable, Takes, Hits, Drops, Imposes, Unlabels
<1>5. QED
  BY <1>1, <1>3, <1>4 DEF Meets

LEMMA MeetsAdd ==
  ASSUME NEW taken, NEW table, NEW columns
  PROVE  /\ Meets(AddColumns(table, columns), taken)
         /\ Meets(AddMissingColumns(table, {}, columns), taken)
<1>1. Meets(AddColumns(table, columns), taken)
  BY StatementsWellFormed
     DEF Meets, Suits, Takes, Hits, Creates, Drops, Imposes, Unrefers,
         Unlabels, AddColumns
<1>2. Meets(AddMissingColumns(table, {}, columns), taken)
  <2>1. Bearable(table, {}, taken)
    BY DEF Bearable
  <2>2. QED
    BY <2>1, MeetsAddColumns
<1>3. QED
  BY <1>1, <1>2

LEMMA MeetsRequire ==
  ASSUME NEW taken, NEW table, NEW column, Bearable(table, {column}, taken)
  PROVE  /\ Meets(Require(table, column), taken)
         /\ Meets(Relax(table, column), taken)
<1>1. SUFFICES ASSUME NEW statement,
                      \/ statement = Require(table, column)
                      \/ statement = Relax(table, column)
               PROVE  Meets(statement, taken)
  OBVIOUS
<1>2. /\ statement.do \in {"require", "relax"}
      /\ statement.table = table
      /\ statement.column = column
      /\ WellFormed(statement)
  <2>1. WellFormed(statement)
    BY <1>1, StatementsWellFormed
  <2>2. QED
    BY <1>1, <2>1 DEF Require, Relax
<1>3. Suits(statement)
  BY <1>2 DEF Bearable, Suits, Hits, Creates, Drops, Imposes, Unrefers
<1>4. ASSUME NEW gift \in Gifts, gift[1] \notin taken
      PROVE  ~Takes(statement, gift)
  BY <1>2, <1>4, GiftKinds
     DEF Bearable, Takes, Hits, Drops, Imposes, Unlabels
<1>5. QED
  BY <1>3, <1>4 DEF Meets

LEMMA MeetsReferences ==
  ASSUME NEW taken, NEW table, NEW references
  PROVE  /\ Meets(AddReferences(table, references), taken)
         /\ Meets(AddMissingReferences(table, references), taken)
         /\ table # Logs =>
              /\ Meets(DropReferences(table, references), taken)
              /\ Meets(DropAllReferences(table), taken)
BY StatementsWellFormed
   DEF Meets, Suits, Takes, Hits, Creates, Drops, Imposes, Unrefers,
       Unlabels, AddReferences, AddMissingReferences, DropReferences,
       DropAllReferences

LEMMA MeetsLabels ==
  ASSUME NEW taken, NEW type, NEW labels
  PROVE  /\ (\A gift \in Enums : gift[3] = type => gift[4] \subseteq labels)
              => Meets(CreateType(type, labels), taken)
         /\ Meets(AddLabels(type, labels), taken)
         /\ Meets(AddLabelsIfPossible(type, labels), taken)
         /\ (\A gift \in Enums \cup Added : gift[3] = type =>
               gift[1] \in taken) => Meets(DropType(type), taken)
<1>1. ASSUME \A gift \in Enums : gift[3] = type => gift[4] \subseteq labels
      PROVE  Meets(CreateType(type, labels), taken)
  BY <1>1, StatementsWellFormed
     DEF Meets, Suits, Takes, Hits, Creates, Drops, Imposes, Unrefers,
         Unlabels, CreateType
<1>2. /\ Meets(AddLabels(type, labels), taken)
      /\ Meets(AddLabelsIfPossible(type, labels), taken)
  BY StatementsWellFormed
     DEF Meets, Suits, Takes, Hits, Creates, Drops, Imposes, Unrefers,
         Unlabels, AddLabels, AddLabelsIfPossible
<1>3. ASSUME \A gift \in Enums \cup Added : gift[3] = type =>
               gift[1] \in taken
      PROVE  Meets(DropType(type), taken)
  BY <1>3, StatementsWellFormed, GiftKinds
     DEF Meets, Suits, Takes, Hits, Creates, Drops, Imposes, Unrefers,
         Unlabels, DropType
<1>4. QED
  BY <1>1, <1>2, <1>3

LEMMA MeetsView ==
  ASSUME NEW taken, NEW tables
  PROVE  /\ Meets(CreateView(tables), taken)
         /\ Meets(DropView, taken)
         /\ Meets(DeleteRows(tables), taken)
BY StatementsWellFormed
   DEF Meets, Suits, Takes, Hits, Creates, Drops, Imposes, Unrefers,
       Unlabels, CreateView, DropView, DeleteRows

-----------------------------------------------------------------------------
(* The tables are created as the shape asks.                               *)

LEMMA ServingWhole ==
  ASSUME NEW table, NEW columns, NEW references, IsTable(columns),
         table # Logs,
         table \in DOMAIN Registered => Core(table) \subseteq columns.columns,
         table \in DOMAIN Registered =>
           \A column \in columns.required : Known(table, column)
  PROVE  Serving(table, columns, references)
BY DEF Serving

LEMMA TablesServe ==
  /\ Serving("tenants", Tenants, {})
  /\ Serving("users", Users, UsersReferences)
  /\ Serving("customers", Customers, CustomersReferences)
  /\ Serving("budget_envelopes", BudgetEnvelopes, BudgetEnvelopesReferences)
  /\ Serving("budget_transactions", BudgetTransactions,
             BudgetTransactionsReferences)
  /\ Serving("ledger_entries", LedgerEntries, LedgerEntriesReferences)
  /\ Serving("budget_reservations", BudgetReservations,
             BudgetReservationsReferences)
  /\ Serving("notifications", Notifications, NotificationsReferences)
  /\ Serving("admin_audit_logs", AdminAuditLogs, AdminAuditLogsReferences)
  /\ Serving("agreements", Agreements, AgreementsReferences)
  /\ Serving("approval_requests", ApprovalRequests,
             ApprovalRequestsReferences)
  /\ Serving("agreement_transactions", AgreementTransactions,
             AgreementTransactionsReferences)
  /\ Serving("brands", Brands, BrandsReferences)
  /\ Serving("categories", Categories, CategoriesReferences)
  /\ Serving("channels", Channels, ChannelsReferences)
  /\ Serving("regions", Regions, RegionsReferences)
  /\ Serving("generic_units", GenericUnits, GenericUnitsReferences)
  /\ Serving("forecasting_units", ForecastingUnits,
             ForecastingUnitsReferences)
  /\ Serving("skus", Skus, SkusReferences)
  /\ Serving("tactics", Tactics, TacticsReferences)
  /\ Serving("mechanics", Mechanics, MechanicsReferences)
  /\ Serving("cpls", Cpls, CplsReferences)
  /\ Serving("kpis", Kpis, KpisReferences)
  /\ Serving("plans", Plans, PlansReferences)
  /\ Serving("plan_fus", PlanFus, PlanFusReferences)
  /\ Serving("plan_skus", PlanSkus, PlanSkusReferences)
  /\ Serving("budget_allocations", BudgetAllocations, {})
  /\ Serving("budget_transaction_logs", BudgetTransactionLogs,
             BudgetTransactionLogsReferences)
  /\ Serving("budget_alert_configurations", BudgetAlertConfigurations, {})
  /\ Serving("plan_mechanic_values", PlanMechanicValues,
             PlanMechanicValuesReferences)
  /\ Serving("mechanic_spend_breakdown", MechanicSpendBreakdowns,
             MechanicSpendBreakdownsReferences)
  /\ Serving("lta_agreements", SpendLtaAgreements,
             SpendLtaAgreementsReferences)
  /\ Serving("budget_allocations", SpendBudgetAllocations,
             SpendBudgetAllocationsReferences)
  /\ Serving("lta_agreements", LtaAgreements, {})
  /\ Serving("lta_rates", LtaRates, LtaRatesReferences)
  /\ Serving("lta_plan_overrides", LtaPlanOverrides,
             LtaPlanOverridesReferences)
  /\ Serving("plan_approval_history", PlanApprovalHistory,
             PlanApprovalHistoryReferences)
  /\ Serving("on_invoice_batches", OnInvoiceBatches,
             OnInvoiceBatchesReferences)
  /\ Serving("on_invoice_entries", OnInvoiceEntries,
             OnInvoiceEntriesReferences)
<1>1. Serving("tenants", Tenants, {})
  <2>1. IsTable(Tenants)
    BY TablesAreTables DEF Tenants
  <2>2. /\ "tenants" \in DOMAIN Registered
        /\ Registered["tenants"] = Tenant
    BY DEF Registered
  <2>3. Core("tenants") \subseteq Tenants.columns
    BY <2>2 DEF Core, Tenant, Columns, Tenants
  <2>4. \A column \in Tenants.required : Known("tenants", column)
    BY <2>2 DEF Known, Tenant, Columns, Tenants
  <2>5. QED
    BY <2>1, <2>2, <2>3, <2>4, ServingWhole DEF Logs
<1>2. Serving("users", Users, UsersReferences)
  <2>1. IsTable(Users)
    BY TablesAreTables DEF Users
  <2>2. /\ "users" \in DOMAIN Registered
        /\ Registered["users"] = User
    BY DEF Registered
  <2>3. Core("users") \subseteq Users.columns
    BY <2>2 DEF Core, Entity, User, Columns, Table, Users
  <2>4. \A column \in Users.required : Known("users", column)
    BY <2>2 DEF Known, Entity, User, Columns, Table, Users
  <2>5. QED
    BY <2>1, <2>2, <2>3, <2>4, ServingWhole DEF Logs
<1>3. Serving("customers", Customers, CustomersReferences)
  <2>1. IsTable(Customers)
    BY TablesAreTables DEF Customers
  <2>2. /\ "customers" \in DOMAIN Registered
        /\ Registered["customers"] = Customer
    BY DEF Registered
  <2>3. /\ <<"AddNumberOfBranchesToCustomers", "columns", "customers",
             {"number_of_branches"}>>
              \in Brings
        /\ <<"CreateMasterDataEntities", "columns", "customers",
             {"cpl_id"}>>
              \in Brings
    BY DEF Brings
  <2>4. Core("customers")
          \subseteq Customer \ {"number_of_branches", "cpl_id"}
    BY <2>2, <2>3 DEF Core
  <2>5. Core("customers") \subseteq Customers.columns
    BY <2>4 DEF Entity, Customer, Columns, Table, Customers
  <2>6. \A column \in Customers.required : Known("customers", column)
    BY <2>2 DEF Known, Entity, Customer, Columns, Table, Customers
  <2>7. QED
    BY <2>1, <2>2, <2>5, <2>6, ServingWhole DEF Logs
<1>4. Serving("budget_envelopes", BudgetEnvelopes, BudgetEnvelopesReferences)
  <2>1. IsTable(BudgetEnvelopes)
    BY TablesAreTables DEF BudgetEnvelopes
  <2>2. /\ "budget_envelopes" \in DOMAIN Registered
        /\ Registered["budget_envelopes"] = BudgetEnvelope
    BY DEF Registered
  <2>3. /\ <<"AddChannelCategoryToBudgetEnvelope",
             "columns", "budget_envelopes",
             {"channel", "category", "channel_id", "category_id"}>>
              \in Brings
    BY DEF Brings
  <2>4. Core("budget_envelopes")
          \subseteq BudgetEnvelope \ {"channel", "category", "channel_id",
                                    "category_id"}
    BY <2>2, <2>3 DEF Core
  <2>5. Core("budget_envelopes") \subseteq BudgetEnvelopes.columns
    BY <2>4 DEF Entity, BudgetEnvelope, Columns, Table, BudgetEnvelopes
  <2>6. \A column \in BudgetEnvelopes.required :
          Known("budget_envelopes", column)
    BY <2>2 DEF Known, Entity, BudgetEnvelope, Columns, Table, BudgetEnvelopes
  <2>7. QED
    BY <2>1, <2>2, <2>5, <2>6, ServingWhole DEF Logs
<1>5. Serving("budget_transactions", BudgetTransactions,
              BudgetTransactionsReferences)
  <2>1. IsTable(BudgetTransactions)
    BY TablesAreTables DEF BudgetTransactions
  <2>2. /\ "budget_transactions" \in DOMAIN Registered
        /\ Registered["budget_transactions"] = BudgetTransaction
    BY DEF Registered
  <2>3. Core("budget_transactions") \subseteq BudgetTransactions.columns
    BY <2>2
       DEF Core, Entity, BudgetTransaction, Columns, Table, BudgetTransactions
  <2>4. \A column \in BudgetTransactions.required :
          Known("budget_transactions", column)
    BY <2>2
       DEF Known, Entity, BudgetTransaction, Columns, Table,
           BudgetTransactions
  <2>5. QED
    BY <2>1, <2>2, <2>3, <2>4, ServingWhole DEF Logs
<1>6. Serving("ledger_entries", LedgerEntries, LedgerEntriesReferences)
  <2>1. IsTable(LedgerEntries)
    BY TablesAreTables DEF LedgerEntries
  <2>2. /\ "ledger_entries" \in DOMAIN Registered
        /\ Registered["ledger_entries"] = LedgerEntry
    BY DEF Registered
  <2>3. Core("ledger_entries") \subseteq LedgerEntries.columns
    BY <2>2 DEF Core, Entity, LedgerEntry, Columns, Table, LedgerEntries
  <2>4. \A column \in LedgerEntries.required : Known("ledger_entries", column)
    BY <2>2 DEF Known, Entity, LedgerEntry, Columns, Table, LedgerEntries
  <2>5. QED
    BY <2>1, <2>2, <2>3, <2>4, ServingWhole DEF Logs
<1>7. Serving("budget_reservations", BudgetReservations,
              BudgetReservationsReferences)
  <2>1. IsTable(BudgetReservations)
    BY TablesAreTables DEF BudgetReservations
  <2>2. "budget_reservations" \notin DOMAIN Registered
    BY DEF Registered
  <2>3. QED
    BY <2>1, <2>2, ServingWhole DEF Logs
<1>8. Serving("notifications", Notifications, NotificationsReferences)
  <2>1. IsTable(Notifications)
    BY TablesAreTables DEF Notifications
  <2>2. /\ "notifications" \in DOMAIN Registered
        /\ Registered["notifications"] = Notification
    BY DEF Registered
  <2>3. Core("notifications") \subseteq Notifications.columns
    BY <2>2 DEF Core, Entity, Notification, Columns, Table, Notifications
  <2>4. \A column \in Notifications.required : Known("notifications", column)
    BY <2>2 DEF Known, Entity, Notification, Columns, Table, Notifications
  <2>5. QED
    BY <2>1, <2>2, <2>3, <2>4, ServingWhole DEF Logs
<1>9. Serving("admin_audit_logs", AdminAuditLogs, AdminAuditLogsReferences)
  <2>1. IsTable(AdminAuditLogs)
    BY TablesAreTables DEF AdminAuditLogs
  <2>2. /\ "admin_audit_logs" \in DOMAIN Registered
        /\ Registered["admin_audit_logs"] = AdminAuditLog
    BY DEF Registered
  <2>3. Core("admin_audit_logs") \subseteq AdminAuditLogs.columns
    BY <2>2 DEF Core, AdminAuditLog, Columns, AdminAuditLogs
  <2>4. \A column \in AdminAuditLogs.required :
          Known("admin_audit_logs", column)
    BY <2>2 DEF Known, AdminAuditLog, Columns, AdminAuditLogs
  <2>5. QED
    BY <2>1, <2>2, <2>3, <2>4, ServingWhole DEF Logs
<1>10. Serving("agreements", Agreements, AgreementsReferences)
  <2>1. IsTable(Agreements)
    BY TablesAreTables DEF Agreements
  <2>2. /\ "agreements" \in DOMAIN Registered
        /\ Registered["agreements"] = Agreement
    BY DEF Registered
  <2>3. /\ <<"AddMissingFieldsToAgreements", "columns", "agreements",
             {"description", "category_id", "reconciliation_period",
              "notes"}>>
              \in Brings
        /\ <<"UpdateAgreementsMasterDataRelations", "columns", "agreements",
             {"channel_id"}>>
              \in Brings
        /\ <<"AddAdditionalParamsToAgreements", "columns", "agreements",
             {"additional_params", "kpi_results"}>>
              \in Brings
    BY DEF Brings
  <2>4. Core("agreements")
          \subseteq Agreement \ {"description", "category_id",
                               "reconciliation_period", "notes", "channel_id",
                               "additional_params", "kpi_results"}
    BY <2>2, <2>3 DEF Core
  <2>5. Core("agreements") \subseteq Agreements.columns
    BY <2>4 DEF Entity, Agreement, Columns, Table, Agreements
  <2>6. \A column \in Agreements.required : Known("agreements", column)
    BY <2>2 DEF Known, Spares, Entity, Agreement, Columns, Table, Agreements
  <2>7. QED
    BY <2>1, <2>2, <2>5, <2>6, ServingWhole DEF Logs
<1>11. Serving("approval_requests", ApprovalRequests,
               ApprovalRequestsReferences)
  <2>1. IsTable(ApprovalRequests)
    BY TablesAreTables DEF ApprovalRequests
  <2>2. /\ "approval_requests" \in DOMAIN Registered
        /\ Registered["approval_requests"] = ApprovalRequest
    BY DEF Registered
  <2>3. Core("approval_requests") \subseteq ApprovalRequests.columns
    BY <2>2
       DEF Core, Entity, ApprovalRequest, Columns, Table, ApprovalRequests
  <2>4. \A column \in ApprovalRequests.required :
          Known("approval_requests", column)
    BY <2>2
       DEF Known, Entity, ApprovalRequest, Columns, Table, ApprovalRequests
  <2>5. QED
    BY <2>1, <2>2, <2>3, <2>4, ServingWhole DEF Logs
<1>12. Serving("agreement_transactions", AgreementTransactions,
               AgreementTransactionsReferences)
  <2>1. IsTable(AgreementTransactions)
    BY TablesAreTables DEF AgreementTransactions
  <2>2. /\ "agreement_transactions" \in DOMAIN Registered
        /\ Registered["agreement_transactions"] = AgreementTransaction
    BY DEF Registered
  <2>3. /\ <<"AddFiscalPeriodToAgreementTransaction",
             "columns", "agreement_transactions",
             {"fiscal_period"}>>
              \in Brings
    BY DEF Brings
  <2>4. Core("agreement_transactions")
          \subseteq AgreementTransaction \ {"fiscal_period"}
    BY <2>2, <2>3 DEF Core
  <2>5. Core("agreement_transactions") \subseteq AgreementTransactions.columns
    BY <2>4
       DEF Entity, AgreementTransaction, Columns, Table, AgreementTransactions
  <2>6. \A column \in AgreementTransactions.required :
          Known("agreement_transactions", column)
    BY <2>2
       DEF Known, Entity, AgreementTransaction, Columns, Table,
           AgreementTransactions
  <2>7. QED
    BY <2>1, <2>2, <2>5, <2>6, ServingWhole DEF Logs
<1>13. Serving("brands", Brands, BrandsReferences)
  <2>1. IsTable(Brands)
    BY TablesAreTables DEF Brands
  <2>2. /\ "brands" \in DOMAIN Registered
        /\ Registered["brands"] = Brand
    BY DEF Registered
  <2>3. Core("brands") \subseteq Brands.columns
    BY <2>2 DEF Core, Entity, Brand, Columns, Table, Brands
  <2>4. \A column \in Brands.required : Known("brands", column)
    BY <2>2 DEF Known, Entity, Brand, Columns, Table, Brands
  <2>5. QED
    BY <2>1, <2>2, <2>3, <2>4, ServingWhole DEF Logs
<1>14. Serving("categories", Categories, CategoriesReferences)
  <2>1. IsTable(Categories)
    BY TablesAreTables DEF Categories
  <2>2. /\ "categories" \in DOMAIN Registered
        /\ Registered["categories"] = Category
    BY DEF Registered
  <2>3. Core("categories") \subseteq Categories.columns
    BY <2>2 DEF Core, Entity, Category, Columns, Table, Categories
  <2>4. \A column \in Categories.required : Known("categories", column)
    BY <2>2 DEF Known, Entity, Category, Columns, Table, Categories
  <2>5. QED
    BY <2>1, <2>2, <2>3, <2>4, ServingWhole DEF Logs
<1>15. Serving("channels", Channels, ChannelsReferences)
  <2>1. IsTable(Channels)
    BY TablesAreTables DEF Channels
  <2>2. /\ "channels" \in DOMAIN Registered
        /\ Registered["channels"] = Channel
    BY DEF Registered
  <2>3. Core("channels") \subseteq Channels.columns
    BY <2>2 DEF Core, Entity, Channel, Columns, Table, Channels
  <2>4. \A column \in Channels.required : Known("channels", column)
    BY <2>2 DEF Known, Entity, Channel, Columns, Table, Channels
  <2>5. QED
    BY <2>1, <2>2, <2>3, <2>4, ServingWhole DEF Logs
<1>16. Serving("regions", Regions, RegionsReferences)
  <2>1. IsTable(Regions)
    BY TablesAreTables DEF Regions
  <2>2. /\ "regions" \in DOMAIN Registered
        /\ Registered["regions"] = Region
    BY DEF Registered
  <2>3. Core("regions") \subseteq Regions.columns
    BY <2>2 DEF Core, Entity, Region, Columns, Table, Regions
  <2>4. \A column \in Regions.required : Known("regions", column)
    BY <2>2 DEF Known, Entity, Region, Columns, Table, Regions
  <2>5. QED
    BY <2>1, <2>2, <2>3, <2>4, ServingWhole DEF Logs
<1>17. Serving("generic_units", GenericUnits, GenericUnitsReferences)
  <2>1. IsTable(GenericUnits)
    BY TablesAreTables DEF GenericUnits
  <2>2. /\ "generic_units" \in DOMAIN Registered
        /\ Registered["generic_units"] = GenericUnit
    BY DEF Registered
  <2>3. Core("generic_units") \subseteq GenericUnits.columns
    BY <2>2 DEF Core, Entity, GenericUnit, Columns, Table, GenericUnits
  <2>4. \A column \in GenericUnits.required : Known("generic_units", column)
    BY <2>2 DEF Known, Entity, GenericUnit, Columns, Table, GenericUnits
  <2>5. QED
    BY <2>1, <2>2, <2>3, <2>4, ServingWhole DEF Logs
<1>18. Serving("forecasting_units", ForecastingUnits,
               ForecastingUnitsReferences)
  <2>1. IsTable(ForecastingUnits)
    BY TablesAreTables DEF ForecastingUnits
  <2>2. /\ "forecasting_units" \in DOMAIN Registered
        /\ Registered["forecasting_units"] = ForecastingUnit
    BY DEF Registered
  <2>3. Core("forecasting_units") \subseteq ForecastingUnits.columns
    BY <2>2
       DEF Core, Entity, ForecastingUnit, Columns, Table, ForecastingUnits
  <2>4. \A column \in ForecastingUnits.required :
          Known("forecasting_units", column)
    BY <2>2
       DEF Known, Entity, ForecastingUnit, Columns, Table, ForecastingUnits
  <2>5. QED
    BY <2>1, <2>2, <2>3, <2>4, ServingWhole DEF Logs
<1>19. Serving("skus", Skus, SkusReferences)
  <2>1. IsTable(Skus)
    BY TablesAreTables DEF Skus
  <2>2. /\ "skus" \in DOMAIN Registered
        /\ Registered["skus"] = Sku
    BY DEF Registered
  <2>3. Core("skus") \subseteq Skus.columns
    BY <2>2 DEF Core, Entity, Sku, Columns, Table, Skus
  <2>4. \A column \in Skus.required : Known("skus", column)
    BY <2>2 DEF Known, Entity, Sku, Columns, Table, Skus
  <2>5. QED
    BY <2>1, <2>2, <2>3, <2>4, ServingWhole DEF Logs
<1>20. Serving("tactics", Tactics, TacticsReferences)
  <2>1. IsTable(Tactics)
    BY TablesAreTables DEF Tactics
  <2>2. /\ "tactics" \in DOMAIN Registered
        /\ Registered["tactics"] = Tactic
    BY DEF Registered
  <2>3. Core("tactics") \subseteq Tactics.columns
    BY <2>2 DEF Core, Entity, Tactic, Columns, Table, Tactics
  <2>4. \A column \in Tactics.required : Known("tactics", column)
    BY <2>2 DEF Known, Entity, Tactic, Columns, Table, Tactics
  <2>5. QED
    BY <2>1, <2>2, <2>3, <2>4, ServingWhole DEF Logs
<1>21. Serving("mechanics", Mechanics, MechanicsReferences)
  <2>1. IsTable(Mechanics)
    BY TablesAreTables DEF Mechanics
  <2>2. /\ "mechanics" \in DOMAIN Registered
        /\ Registered["mechanics"] = Mechanic
    BY DEF Registered
  <2>3. /\ <<"AddSpendManagementTables", "columns", "mechanics",
             {"spending_type", "calculation_formula", "applicability_rules",
              "input_constraints"}>>
              \in Brings
        /\ <<"AddPromoMechanicsConfig", "columns", "mechanics",
             {"category", "input_type", "default_value", "step_increment",
              "decimal_places", "unit_symbol", "formula_variables",
              "formula_validation_status", "test_data", "applicable_channels",
              "applicable_categories", "applicable_cpls", "show_in_grid",
              "grid_column_order", "grid_column_width", "group_header",
              "track_against_budget", "budget_type",
              "requires_approval_threshold", "approval_flow",
              "mutually_exclusive_with", "max_combined_discount_percentage",
              "combination_warnings"}>>
              \in Brings
        /\ <<"AddPromoMechanicsConfig", "columns", "mechanics",
             {"exclusion_rules"}>>
              \in Brings
    BY DEF Brings
  <2>4. Core("mechanics")
          \subseteq Mechanic \ {"spending_type", "calculation_formula",
                              "applicability_rules", "input_constraints",
                              "category", "input_type", "default_value",
                              "step_increment", "decimal_places",
                              "unit_symbol", "formula_variables",
                              "formula_validation_status", "test_data",
                              "applicable_channels", "applicable_categories",
                              "applicable_cpls", "show_in_grid",
                              "grid_column_order", "grid_column_width",
                              "group_header", "track_against_budget",
                              "budget_type", "requires_approval_threshold",
                              "approval_flow", "mutually_exclusive_with",
                              "max_combined_discount_percentage",
                              "combination_warnings", "exclusion_rules"}
    BY <2>2, <2>3 DEF Core
  <2>5. Core("mechanics") \subseteq Mechanics.columns
    BY <2>4 DEF Entity, Mechanic, Columns, Table, Mechanics
  <2>6. \A column \in Mechanics.required : Known("mechanics", column)
    BY <2>2 DEF Known, Entity, Mechanic, Columns, Table, Mechanics
  <2>7. QED
    BY <2>1, <2>2, <2>5, <2>6, ServingWhole DEF Logs
<1>22. Serving("cpls", Cpls, CplsReferences)
  <2>1. IsTable(Cpls)
    BY TablesAreTables DEF Cpls
  <2>2. /\ "cpls" \in DOMAIN Registered
        /\ Registered["cpls"] = Cpl
    BY DEF Registered
  <2>3. Core("cpls") \subseteq Cpls.columns
    BY <2>2 DEF Core, Entity, Cpl, Columns, Table, Cpls
  <2>4. \A column \in Cpls.required : Known("cpls", column)
    BY <2>2 DEF Known, Entity, Cpl, Columns, Table, Cpls
  <2>5. QED
    BY <2>1, <2>2, <2>3, <2>4, ServingWhole DEF Logs
<1>23. Serving("kpis", Kpis, KpisReferences)
  <2>1. IsTable(Kpis)
    BY TablesAreTables DEF Kpis
  <2>2. /\ "kpis" \in DOMAIN Registered
        /\ Registered["kpis"] = Kpi
    BY DEF Registered
  <2>3. Core("kpis") \subseteq Kpis.columns
    BY <2>2 DEF Core, Entity, Kpi, Columns, Table, Kpis
  <2>4. \A column \in Kpis.required : Known("kpis", column)
    BY <2>2 DEF Known, Entity, Kpi, Columns, Table, Kpis
  <2>5. QED
    BY <2>1, <2>2, <2>3, <2>4, ServingWhole DEF Logs
<1>24. Serving("plans", Plans, PlansReferences)
  <2>1. IsTable(Plans)
    BY TablesAreTables DEF Plans
  <2>2. /\ "plans" \in DOMAIN Registered
        /\ Registered["plans"] = Plan
    BY DEF Registered
  <2>3. /\ <<"AddApprovalWorkflowFieldsToPlans", "columns", "plans",
             {"submission_notes", "submitted_at", "submitted_by",
              "pending_finance_review", "escalation_reason", "escalated_at",
              "escalated_by", "on_invoice_spend", "off_invoice_spend"}>>
              \in Brings
    BY DEF Brings
  <2>4. Core("plans")
          \subseteq Plan \ {"submission_notes", "submitted_at",
          "submitted_by",
                          "pending_finance_review", "escalation_reason",
                          "escalated_at", "escalated_by", "on_invoice_spend",
                          "off_invoice_spend"}
    BY <2>2, <2>3 DEF Core
  <2>5. Core("plans") \subseteq Plans.columns
    BY <2>4 DEF Entity, Plan, Columns, Table, Plans
  <2>6. \A column \in Plans.required : Known("plans", column)
    BY <2>2 DEF Known, Entity, Plan, Columns, Table, Plans
  <2>7. QED
    BY <2>1, <2>2, <2>5, <2>6, ServingWhole DEF Logs
<1>25. Serving("plan_fus", PlanFus, PlanFusReferences)
  <2>1. IsTable(PlanFus)
    BY TablesAreTables DEF PlanFus
  <2>2. /\ "plan_fus" \in DOMAIN Registered
        /\ Registered["plan_fus"] = PlanFu
    BY DEF Registered
  <2>3. /\ <<"AddCalculatedKpisToPlans", "columns", "plan_fus",
             {"calculated_kpis"}>>
              \in Brings
    BY DEF Brings
  <2>4. Core("plan_fus")
          \subseteq PlanFu \ {"calculated_kpis"}
    BY <2>2, <2>3 DEF Core
  <2>5. Core("plan_fus") \subseteq PlanFus.columns
    BY <2>4 DEF Entity, PlanFu, Columns, Table, PlanFus
  <2>6. \A column \in PlanFus.required : Known("plan_fus", column)
    BY <2>2 DEF Known, Entity, PlanFu, Columns, Table, PlanFus
  <2>7. QED
    BY <2>1, <2>2, <2>5, <2>6, ServingWhole DEF Logs
<1>26. Serving("plan_skus", PlanSkus, PlanSkusReferences)
  <2>1. IsTable(PlanSkus)
    BY TablesAreTables DEF PlanSkus
  <2>2. /\ "plan_skus" \in DOMAIN Registered
        /\ Registered["plan_skus"] = PlanSku
    BY DEF Registered
  <2>3. /\ <<"AddSpendManagementTables", "columns", "plan_skus",
             {"base_lta_on_invoice_spend", "base_lta_off_invoice_spend",
              "planned_lta_on_invoice_spend", "planned_lta_off_invoice_spend",
              "promo_on_invoice_spend", "promo_off_invoice_spend"}>>
              \in Brings
        /\ <<"AddCalculatedKpisToPlans", "columns", "plan_skus",
             {"calculated_kpis"}>>
              \in Brings
    BY DEF Brings
  <2>4. Core("plan_skus")
          \subseteq PlanSku \ {"base_lta_on_invoice_spend",
                             "base_lta_off_invoice_spend",
                             "planned_lta_on_invoice_spend",
                             "planned_lta_off_invoice_spend",
                             "promo_on_invoice_spend",
                             "promo_off_invoice_spend", "calculated_kpis"}
    BY <2>2, <2>3 DEF Core
  <2>5. Core("plan_skus") \subseteq PlanSkus.columns
    BY <2>4 DEF Entity, PlanSku, Columns, Table, PlanSkus
  <2>6. \A column \in PlanSkus.required : Known("plan_skus", column)
    BY <2>2 DEF Known, Entity, PlanSku, Columns, Table, PlanSkus
  <2>7. QED
    BY <2>1, <2>2, <2>5, <2>6, ServingWhole DEF Logs
<1>27. Serving("budget_allocations", BudgetAllocations, {})
  <2>1. IsTable(BudgetAllocations)
    BY TablesAreTables DEF BudgetAllocations
  <2>2. /\ "budget_allocations" \in DOMAIN Registered
        /\ Registered["budget_allocations"] = BudgetAllocation
    BY DEF Registered
  <2>3. /\ <<"UpdateBudgetAllocationStructure",
             "columns", "budget_allocations",
             {"period_type", "period_start", "period_end", "fiscal_year",
              "cpl_id", "channel", "category", "on_invoice_budget",
              "off_invoice_budget", "on_invoice_utilized",
              "off_invoice_utilized", "on_invoice_reserved",
              "off_invoice_reserved", "alert_threshold_80",
              "alert_threshold_95", "alert_threshold_100", "alert_recipients",
              "hard_limit_mode", "allow_carry_forward"}>>
              \in Brings
        /\ <<"UpdateBudgetAllocationStructure",
             "columns", "budget_allocations",
             {"total_budget", "on_invoice_available",
              "off_invoice_available"}>>
              \in Brings
    BY DEF Brings
  <2>4. Core("budget_allocations")
          \subseteq BudgetAllocation \ {"period_type", "period_start",
                                      "period_end", "fiscal_year", "cpl_id",
                                      "channel", "category",
                                      "on_invoice_budget",
                                      "off_invoice_budget",
                                      "on_invoice_utilized",
                                      "off_invoice_utilized",
                                      "on_invoice_reserved",
                                      "off_invoice_reserved",
                                      "alert_threshold_80",
                                      "alert_threshold_95",
                                      "alert_threshold_100",
                                      "alert_recipients", "hard_limit_mode",
                                      "allow_carry_forward", "total_budget",
                                      "on_invoice_available",
                                      "off_invoice_available", "metadata"}
    BY <2>2, <2>3 DEF Core
  <2>5. Core("budget_allocations") \subseteq BudgetAllocations.columns
    BY <2>4 DEF Entity, BudgetAllocation, Columns, Table, BudgetAllocations
  <2>6. \A column \in BudgetAllocations.required :
          Known("budget_allocations", column)
    BY <2>2
       DEF Known, Spares, Entity, BudgetAllocation, Columns, Table,
           BudgetAllocations
  <2>7. QED
    BY <2>1, <2>2, <2>5, <2>6, ServingWhole DEF Logs
<1>28. Serving("budget_transaction_logs", BudgetTransactionLogs,
               BudgetTransactionLogsReferences)
  <2>1. IsTable(BudgetTransactionLogs)
    BY TablesAreTables DEF BudgetTransactionLogs
  <2>2. /\ "budget_transaction_logs" \in DOMAIN Registered
        /\ Registered["budget_transaction_logs"] = BudgetTransactionLog
    BY DEF Registered
  <2>3. Core("budget_transaction_logs")
          \subseteq BudgetTransactionLogs.columns
    BY <2>2
       DEF Core, Entity, BudgetTransactionLog, Columns, Table,
           BudgetTransactionLogs
  <2>4. \A column \in BudgetTransactionLogs.required :
          Known("budget_transaction_logs", column)
    BY <2>2
       DEF Known, Entity, BudgetTransactionLog, Columns, Table,
           BudgetTransactionLogs
  <2>5. <<"budget_allocation_id", "budget_allocations">>
          \in BudgetTransactionLogsReferences
    BY DEF BudgetTransactionLogsReferences
  <2>6. QED
    BY <2>1, <2>2, <2>3, <2>4, <2>5 DEF Serving
<1>29. Serving("budget_alert_configurations", BudgetAlertConfigurations, {})
  <2>1. IsTable(BudgetAlertConfigurations)
    BY TablesAreTables DEF BudgetAlertConfigurations
  <2>2. /\ "budget_alert_configurations" \in DOMAIN Registered
        /\ Registered["budget_alert_configurations"] = BudgetAlertConfiguration
    BY DEF Registered
  <2>3. Core("budget_alert_configurations")
          \subseteq BudgetAlertConfigurations.columns
    BY <2>2
       DEF Core, Entity, BudgetAlertConfiguration, Columns, Table,
           BudgetAlertConfigurations
  <2>4. \A column \in BudgetAlertConfigurations.required :
          Known("budget_alert_configurations", column)
    BY <2>2
       DEF Known, Entity, BudgetAlertConfiguration, Columns, Table,
           BudgetAlertConfigurations
  <2>5. QED
    BY <2>1, <2>2, <2>3, <2>4, ServingWhole DEF Logs
<1>30. Serving("plan_mechanic_values", PlanMechanicValues,
               PlanMechanicValuesReferences)
  <2>1. IsTable(PlanMechanicValues)
    BY TablesAreTables DEF PlanMechanicValues
  <2>2. /\ "plan_mechanic_values" \in DOMAIN Registered
        /\ Registered["plan_mechanic_values"] = PlanMechanicValue
    BY DEF Registered
  <2>3. Core("plan_mechanic_values") \subseteq PlanMechanicValues.columns
    BY <2>2
       DEF Core, Entity, PlanMechanicValue, Columns, Table, PlanMechanicValues
  <2>4. \A column \in PlanMechanicValues.required :
          Known("plan_mechanic_values", column)
    BY <2>2
       DEF Known, Entity, PlanMechanicValue, Columns, Table,
           PlanMechanicValues
  <2>5. QED
    BY <2>1, <2>2, <2>3, <2>4, ServingWhole DEF Logs
<1>31. Serving("mechanic_spend_breakdown", MechanicSpendBreakdowns,
               MechanicSpendBreakdownsReferences)
  <2>1. IsTable(MechanicSpendBreakdowns)
    BY TablesAreTables DEF MechanicSpendBreakdowns
  <2>2. /\ "mechanic_spend_breakdown" \in DOMAIN Registered
        /\ Registered["mechanic_spend_breakdown"] = MechanicSpendBreakdown
    BY DEF Registered
  <2>3. Core("mechanic_spend_breakdown")
          \subseteq MechanicSpendBreakdowns.columns
    BY <2>2
       DEF Core, Entity, MechanicSpendBreakdown, Columns, Table,
           MechanicSpendBreakdowns
  <2>4. \A column \in MechanicSpendBreakdowns.required :
          Known("mechanic_spend_breakdown", column)
    BY <2>2
       DEF Known, Entity, MechanicSpendBreakdown, Columns, Table,
           MechanicSpendBreakdowns
  <2>5. QED
    BY <2>1, <2>2, <2>3, <2>4, ServingWhole DEF Logs
<1>32. Serving("lta_agreements", SpendLtaAgreements,
               SpendLtaAgreementsReferences)
  <2>1. IsTable(SpendLtaAgreements)
    BY TablesAreTables DEF SpendLtaAgreements
  <2>2. /\ "lta_agreements" \in DOMAIN Registered
        /\ Registered["lta_agreements"] = LTAAgreement
    BY DEF Registered
  <2>3. /\ <<"UpdateLTAAgreementsStructure", "columns", "lta_agreements",
             {"agreement_name", "agreement_code", "effective_date", "status",
              "total_agreement_value", "notes", "expiry_date"}>>
              \in Brings
    BY DEF Brings
  <2>4. Core("lta_agreements")
          \subseteq LTAAgreement \ {"agreement_name", "agreement_code",
                                  "effective_date", "status",
                                  "total_agreement_value", "notes",
                                  "expiry_date"}
    BY <2>2, <2>3 DEF Core
  <2>5. Core("lta_agreements") \subseteq SpendLtaAgreements.columns
    BY <2>4 DEF Entity, LTAAgreement, Columns, Table, SpendLtaAgreements
  <2>6. \A column \in SpendLtaAgreements.required :
          Known("lta_agreements", column)
    BY <2>2
       DEF Known, Spares, Entity, LTAAgreement, Columns, Table,
           SpendLtaAgreements
  <2>7. QED
    BY <2>1, <2>2, <2>5, <2>6, ServingWhole DEF Logs
<1>33. Serving("budget_allocations", SpendBudgetAllocations,
               SpendBudgetAllocationsReferences)
  <2>1. IsTable(SpendBudgetAllocations)
    BY TablesAreTables DEF SpendBudgetAllocations
  <2>2. /\ "budget_allocations" \in DOMAIN Registered
        /\ Registered["budget_allocations"] = BudgetAllocation
    BY DEF Registered
  <2>3. /\ <<"UpdateBudgetAllocationStructure",
             "columns", "budget_allocations",
             {"period_type", "period_start", "period_end", "fiscal_year",
              "cpl_id", "channel", "category", "on_invoice_budget",
              "off_invoice_budget", "on_invoice_utilized",
              "off_invoice_utilized", "on_invoice_reserved",
              "off_invoice_reserved", "alert_threshold_80",
              "alert_threshold_95", "alert_threshold_100", "alert_recipients",
              "hard_limit_mode", "allow_carry_forward"}>>
              \in Brings
        /\ <<"UpdateBudgetAllocationStructure",
             "columns", "budget_allocations",
             {"total_budget", "on_invoice_available",
              "off_invoice_available"}>>
              \in Brings
    BY DEF Brings
  <2>4. Core("budget_allocations")
          \subseteq BudgetAllocation \ {"period_type", "period_start",
                                      "period_end", "fiscal_year", "cpl_id",
                                      "channel", "category",
                                      "on_invoice_budget",
                                      "off_invoice_budget",
                                      "on_invoice_utilized",
                                      "off_invoice_utilized",
                                      "on_invoice_reserved",
                                      "off_invoice_reserved",
                                      "alert_threshold_80",
                                      "alert_threshold_95",
                                      "alert_threshold_100",
                                      "alert_recipients", "hard_limit_mode",
                                      "allow_carry_forward", "total_budget",
                                      "on_invoice_available",
                                      "off_invoice_available", "metadata"}
    BY <2>2, <2>3 DEF Core
  <2>5. Core("budget_allocations") \subseteq SpendBudgetAllocations.columns
    BY <2>4
       DEF Entity, BudgetAllocation, Columns, Table, SpendBudgetAllocations
  <2>6. \A column \in SpendBudgetAllocations.required :
          Known("budget_allocations", column)
    BY <2>2
       DEF Known, Spares, Entity, BudgetAllocation, Columns, Table,
           SpendBudgetAllocations
  <2>7. QED
    BY <2>1, <2>2, <2>5, <2>6, ServingWhole DEF Logs
<1>34. Serving("lta_agreements", LtaAgreements, {})
  <2>1. IsTable(LtaAgreements)
    BY TablesAreTables DEF LtaAgreements
  <2>2. /\ "lta_agreements" \in DOMAIN Registered
        /\ Registered["lta_agreements"] = LTAAgreement
    BY DEF Registered
  <2>3. /\ <<"UpdateLTAAgreementsStructure", "columns", "lta_agreements",
             {"agreement_name", "agreement_code", "effective_date", "status",
              "total_agreement_value", "notes", "expiry_date"}>>
              \in Brings
    BY DEF Brings
  <2>4. Core("lta_agreements")
          \subseteq LTAAgreement \ {"agreement_name", "agreement_code",
                                  "effective_date", "status",
                                  "total_agreement_value", "notes",
                                  "expiry_date"}
    BY <2>2, <2>3 DEF Core
  <2>5. Core("lta_agreements") \subseteq LtaAgreements.columns
    BY <2>4 DEF Entity, LTAAgreement, Columns, Table, LtaAgreements
  <2>6. \A column \in LtaAgreements.required : Known("lta_agreements", column)
    BY <2>2
       DEF Known, Spares, Entity, LTAAgreement, Columns, Table, LtaAgreements
  <2>7. QED
    BY <2>1, <2>2, <2>5, <2>6, ServingWhole DEF Logs
<1>35. Serving("lta_rates", LtaRates, LtaRatesReferences)
  <2>1. IsTable(LtaRates)
    BY TablesAreTables DEF LtaRates
  <2>2. /\ "lta_rates" \in DOMAIN Registered
        /\ Registered["lta_rates"] = LTARate
    BY DEF Registered
  <2>3. Core("lta_rates") \subseteq LtaRates.columns
    BY <2>2 DEF Core, Entity, LTARate, Columns, Table, LtaRates
  <2>4. \A column \in LtaRates.required : Known("lta_rates", column)
    BY <2>2 DEF Known, Entity, LTARate, Columns, Table, LtaRates
  <2>5. QED
    BY <2>1, <2>2, <2>3, <2>4, ServingWhole DEF Logs
<1>36. Serving("lta_plan_overrides", LtaPlanOverrides,
               LtaPlanOverridesReferences)
  <2>1. IsTable(LtaPlanOverrides)
    BY TablesAreTables DEF LtaPlanOverrides
  <2>2. /\ "lta_plan_overrides" \in DOMAIN Registered
        /\ Registered["lta_plan_overrides"] = LTAPlanOverride
    BY DEF Registered
  <2>3. Core("lta_plan_overrides") \subseteq LtaPlanOverrides.columns
    BY <2>2
       DEF Core, Entity, LTAPlanOverride, Columns, Table, LtaPlanOverrides
  <2>4. \A column \in LtaPlanOverrides.required :
          Known("lta_plan_overrides", column)
    BY <2>2
       DEF Known, Entity, LTAPlanOverride, Columns, Table, LtaPlanOverrides
  <2>5. QED
    BY <2>1, <2>2, <2>3, <2>4, ServingWhole DEF Logs
<1>37. Serving("plan_approval_history", PlanApprovalHistory,
               PlanApprovalHistoryReferences)
  <2>1. IsTable(PlanApprovalHistory)
    BY TablesAreTables DEF PlanApprovalHistory
  <2>2. "plan_approval_history" \notin DOMAIN Registered
    BY DEF Registered
  <2>3. QED
    BY <2>1, <2>2, ServingWhole DEF Logs
<1>38. Serving("on_invoice_batches", OnInvoiceBatches,
               OnInvoiceBatchesReferences)
  <2>1. IsTable(OnInvoiceBatches)
    BY TablesAreTables DEF OnInvoiceBatches
  <2>2. /\ "on_invoice_batches" \in DOMAIN Registered
        /\ Registered["on_invoice_batches"] = OnInvoiceBatch
    BY DEF Registered
  <2>3. Core("on_invoice_batches") \subseteq OnInvoiceBatches.columns
    BY <2>2 DEF Core, Entity, OnInvoiceBatch, Columns, Table, OnInvoiceBatches
  <2>4. \A column \in OnInvoiceBatches.required :
          Known("on_invoice_batches", column)
    BY <2>2
       DEF Known, Entity, OnInvoiceBatch, Columns, Table, OnInvoiceBatches
  <2>5. QED
    BY <2>1, <2>2, <2>3, <2>4, ServingWhole DEF Logs
<1>39. Serving("on_invoice_entries", OnInvoiceEntries,
               OnInvoiceEntriesReferences)
  <2>1. IsTable(OnInvoiceEntries)
    BY TablesAreTables DEF OnInvoiceEntries
  <2>2. /\ "on_invoice_entries" \in DOMAIN Registered
        /\ Registered["on_invoice_entries"] = OnInvoiceEntry
    BY DEF Registered
  <2>3. Core("on_invoice_entries") \subseteq OnInvoiceEntries.columns
    BY <2>2 DEF Core, Entity, OnInvoiceEntry, Columns, Table, OnInvoiceEntries
  <2>4. \A column \in OnInvoiceEntries.required :
          Known("on_invoice_entries", column)
    BY <2>2
       DEF Known, Entity, OnInvoiceEntry, Columns, Table, OnInvoiceEntries
  <2>5. QED
    BY <2>1, <2>2, <2>3, <2>4, ServingWhole DEF Logs
<1>40. QED
  BY <1>1, <1>2, <1>3, <1>4, <1>5, <1>6, <1>7, <1>8, <1>9, <1>10, <1>11,
     <1>12, <1>13, <1>14, <1>15, <1>16, <1>17, <1>18, <1>19, <1>20, <1>21,
     <1>22, <1>23, <1>24, <1>25, <1>26, <1>27, <1>28, <1>29, <1>30, <1>31,
     <1>32, <1>33, <1>34, <1>35, <1>36, <1>37, <1>38, <1>39

-----------------------------------------------------------------------------
(* The gifts by their tables and types.                                    *)

LEMMA GiftsAt ==
  ASSUME NEW gift \in Founds \cup Brings \cup Spares
  PROVE
         /\ gift[3] = "tenants" =>
              gift[1] = "CreateTenants"
         /\ gift[3] = "users" =>
              gift[1] = "CreateUsers"
         /\ gift[3] = "customers" =>
              gift[1] \in {"CreateCustomers",
                           "AddNumberOfBranchesToCustomers",
                           "CreateMasterDataEntities"}
         /\ gift[3] = "budget_envelopes" =>
              gift[1] \in {"CreateBudgetEnvelopes",
                           "AddChannelCategoryToBudgetEnvelope"}
         /\ gift[3] = "budget_transactions" =>
              gift[1] = "CreateBudgetTransactions"
         /\ gift[3] = "ledger_entries" =>
              gift[1] = "CreateLedgerEntries"
         /\ gift[3] = "notifications" =>
              gift[1] = "CreateNotifications"
         /\ gift[3] = "admin_audit_logs" =>
              gift[1] = "CreateAdminAuditLogs"
         /\ gift[3] = "agreements" =>
              gift[1] \in {"CreateAgreements", "AddMissingFieldsToAgreements",
                           "UpdateAgreementsMasterDataRelations",
                           "AddAdditionalParamsToAgreements"}
         /\ gift[3] = "approval_requests" =>
              gift[1] = "CreateApprovalRequests"
         /\ gift[3] = "agreement_transactions" =>
              gift[1] \in {"CreateAgreementTransactions",
                           "AddFiscalPeriodToAgreementTransaction"}
         /\ gift[3] = "brands" =>
              gift[1] = "CreateMasterDataEntities"
         /\ gift[3] = "categories" =>
              gift[1] = "CreateMasterDataEntities"
         /\ gift[3] = "channels" =>
              gift[1] = "CreateMasterDataEntities"
         /\ gift[3] = "regions" =>
              gift[1] = "CreateMasterDataEntities"
         /\ gift[3] = "generic_units" =>
              gift[1] = "CreateMasterDataEntities"
         /\ gift[3] = "forecasting_units" =>
              gift[1] = "CreateMasterDataEntities"
         /\ gift[3] = "skus" =>
              gift[1] = "CreateMasterDataEntities"
         /\ gift[3] = "tactics" =>
              gift[1] = "CreateMasterDataEntities"
         /\ gift[3] = "mechanics" =>
              gift[1] \in {"CreateMasterDataEntities",
                           "AddSpendManagementTables",
                           "AddPromoMechanicsConfig"}
         /\ gift[3] = "cpls" =>
              gift[1] = "CreateMasterDataEntities"
         /\ gift[3] = "kpis" =>
              gift[1] = "CreateKpis"
         /\ gift[3] = "plans" =>
              gift[1] \in {"CreatePlans", "AddApprovalWorkflowFieldsToPlans"}
         /\ gift[3] = "plan_fus" =>
              gift[1] \in {"CreatePlans", "AddCalculatedKpisToPlans"}
         /\ gift[3] = "plan_skus" =>
              gift[1] \in {"CreatePlans", "AddSpendManagementTables",
                           "AddCalculatedKpisToPlans"}
         /\ gift[3] = "budget_transaction_logs" =>
              gift[1] = "UpdateBudgetAllocationStructure"
         /\ gift[3] = "budget_alert_configurations" =>
              gift[1] = "UpdateBudgetAllocationStructure"
         /\ gift[3] = "plan_mechanic_values" =>
              gift[1] = "AddSpendManagementTables"
         /\ gift[3] = "mechanic_spend_breakdown" =>
              gift[1] = "AddSpendManagementTables"
         /\ gift[3] = "lta_rates" =>
              gift[1] = "UpdateLTAAgreementsStructure"
         /\ gift[3] = "lta_plan_overrides" =>
              gift[1] = "UpdateLTAAgreementsStructure"
         /\ gift[3] = "on_invoice_batches" =>
              gift[1] = "CreateOnInvoiceTables"
         /\ gift[3] = "on_invoice_entries" =>
              gift[1] = "CreateOnInvoiceTables"
         /\ gift[3] = "budget_allocations" =>
              gift[1] = "UpdateBudgetAllocationStructure"
         /\ gift[3] = "lta_agreements" =>
              gift[1] = "UpdateLTAAgreementsStructure"
         /\ gift[3] \notin {"budget_reservations", "plan_approval_history"}
<1>1. CASE gift \in Founds
  BY <1>1 DEF Founds
<1>2. CASE gift \in Brings
  BY <1>2 DEF Brings
<1>3. CASE gift \in Spares
  BY <1>3 DEF Spares
<1>4. QED
  BY <1>1, <1>2, <1>3

LEMMA BringsAt ==
  ASSUME NEW gift \in Brings
  PROVE
         /\ gift[3] = "customers" =>
              \/ gift =
                   <<"AddNumberOfBranchesToCustomers", "columns", "customers",
                     {"number_of_branches"}>>
              \/ gift =
                   <<"CreateMasterDataEntities", "columns", "customers",
                     {"cpl_id"}>>
         /\ gift[3] = "agreements" =>
              \/ gift =
                   <<"AddMissingFieldsToAgreements", "columns", "agreements",
                     {"description", "category_id", "reconciliation_period",
                      "notes"}>>
              \/ gift =
                   <<"UpdateAgreementsMasterDataRelations",
                     "columns", "agreements",
                     {"channel_id"}>>
              \/ gift =
                   <<"AddAdditionalParamsToAgreements",
                     "columns", "agreements",
                     {"additional_params", "kpi_results"}>>
         /\ gift[3] = "budget_envelopes" =>
              gift =
                <<"AddChannelCategoryToBudgetEnvelope",
                  "columns", "budget_envelopes",
                  {"channel", "category", "channel_id", "category_id"}>>
         /\ gift[3] = "budget_allocations" =>
              \/ gift =
                   <<"UpdateBudgetAllocationStructure",
                     "columns", "budget_allocations",
                     {"period_type", "period_start", "period_end",
                      "fiscal_year", "cpl_id", "channel", "category",
                      "on_invoice_budget", "off_invoice_budget",
                      "on_invoice_utilized", "off_invoice_utilized",
                      "on_invoice_reserved", "off_invoice_reserved",
                      "alert_threshold_80", "alert_threshold_95",
                      "alert_threshold_100", "alert_recipients",
                      "hard_limit_mode", "allow_carry_forward"}>>
              \/ gift =
                   <<"UpdateBudgetAllocationStructure",
                     "columns", "budget_allocations",
                     {"total_budget", "on_invoice_available",
                      "off_invoice_available"}>>
         /\ gift[3] = "mechanics" =>
              \/ gift =
                   <<"AddSpendManagementTables", "columns", "mechanics",
                     {"spending_type", "calculation_formula",
                      "applicability_rules", "input_constraints"}>>
              \/ gift =
                   <<"AddPromoMechanicsConfig", "columns", "mechanics",
                     {"category", "input_type", "default_value",
                      "step_increment", "decimal_places", "unit_symbol",
                      "formula_variables", "formula_validation_status",
                      "test_data", "applicable_channels",
                      "applicable_categories", "applicable_cpls",
                      "show_in_grid", "grid_column_order",
                      "grid_column_width", "group_header",
                      "track_against_budget", "budget_type",
                      "requires_approval_threshold", "approval_flow",
                      "mutually_exclusive_with",
                      "max_combined_discount_percentage",
                      "combination_warnings"}>>
              \/ gift =
                   <<"AddPromoMechanicsConfig", "columns", "mechanics",
                     {"exclusion_rules"}>>
         /\ gift[3] = "plan_skus" =>
              \/ gift =
                   <<"AddSpendManagementTables", "columns", "plan_skus",
                     {"base_lta_on_invoice_spend",
                      "base_lta_off_invoice_spend",
                      "planned_lta_on_invoice_spend",
                      "planned_lta_off_invoice_spend",
                      "promo_on_invoice_spend", "promo_off_invoice_spend"}>>
              \/ gift =
                   <<"AddCalculatedKpisToPlans", "columns", "plan_skus",
                     {"calculated_kpis"}>>
         /\ gift[3] = "lta_agreements" =>
              gift =
                <<"UpdateLTAAgreementsStructure", "columns", "lta_agreements",
                  {"agreement_name", "agreement_code", "effective_date",
                   "status", "total_agreement_value", "notes",
                   "expiry_date"}>>
         /\ gift[3] = "plans" =>
              gift =
                <<"AddApprovalWorkflowFieldsToPlans", "columns", "plans",
                  {"submission_notes", "submitted_at", "submitted_by",
                   "pending_finance_review", "escalation_reason",
                   "escalated_at", "escalated_by", "on_invoice_spend",
                   "off_invoice_spend"}>>
         /\ gift[3] = "agreement_transactions" =>
              gift =
                <<"AddFiscalPeriodToAgreementTransaction",
                  "columns", "agreement_transactions",
                  {"fiscal_period"}>>
         /\ gift[3] = "plan_fus" =>
              gift =
                <<"AddCalculatedKpisToPlans", "columns", "plan_fus",
                  {"calculated_kpis"}>>
BY DEF Brings

LEMMA LabelsAt ==
  /\ \A gift \in Enums : gift[3] = "users_role_enum" =>
       gift[4] \subseteq {"ADMIN", "PLANNER", "APPROVER", "FINANCE"}
  /\ \A gift \in Enums :
       gift[3] = "approval_requests_request_type_enum" =>
         gift[4] \subseteq {"AGREEMENT", "BUDGET_TRANSFER", "IMPORT_BATCH",
                           "OTHER"}
  /\ \A gift \in Enums : gift[3] = "plans_plan_status_enum" =>
       gift[4] \subseteq {"DRAFT", "PENDING_APPROVAL", "APPROVED",
                         "REJECTED"}
  /\ \A gift \in Enums \cup Added : gift[3] = "users_role_enum" =>
       gift[1] \in {"CreateUsers",
                    "AddFinanceManagerAndCategoryManagerRoles"}
  /\ \A gift \in Enums \cup Added :
       gift[3] = "approval_requests_request_type_enum" =>
         gift[1] \in {"CreateApprovalRequests",
                      "AddPlanToApprovalRequestTypeEnum"}
  /\ \A gift \in Enums \cup Added : gift[3] = "plans_plan_status_enum" =>
       gift[1] \in {"CreatePlans", "AddApprovalWorkflowFieldsToPlans"}
BY DEF Enums, Added

\* The migrations that add to what another one creates: down() of that one
\* takes their gifts as well.
Upon ==
  [CreateUsers |-> {"AddFinanceManagerAndCategoryManagerRoles"},
   CreateCustomers |-> {"AddNumberOfBranchesToCustomers",
                        "CreateMasterDataEntities"},
   CreateBudgetEnvelopes |-> {"AddChannelCategoryToBudgetEnvelope"},
   CreateAgreements |-> {"AddMissingFieldsToAgreements",
                         "UpdateAgreementsMasterDataRelations",
                         "AddAdditionalParamsToAgreements"},
   CreateApprovalRequests |-> {"AddPlanToApprovalRequestTypeEnum"},
   CreateAgreementTransactions |->
     {"AddFiscalPeriodToAgreementTransaction"},
   CreateMasterDataEntities |-> {"AddSpendManagementTables",
                                 "AddPromoMechanicsConfig"},
   CreatePlans |-> {"AddSpendManagementTables",
                    "AddApprovalWorkflowFieldsToPlans",
                    "AddCalculatedKpisToPlans"},
   AddSpendManagementTables |-> {"UpdateBudgetAllocationStructure",
                                 "UpdateLTAAgreementsStructure"}]

Taken(name) == {name} \cup IF name \in DOMAIN Upon THEN Upon[name] ELSE {}

LEMMA TakenNames ==
  /\ \A name : name \in Taken(name)
  /\ {"AddFinanceManagerAndCategoryManagerRoles"}
       \subseteq Taken("CreateUsers")
  /\ {"AddNumberOfBranchesToCustomers", "CreateMasterDataEntities"}
       \subseteq Taken("CreateCustomers")
  /\ {"AddChannelCategoryToBudgetEnvelope"}
       \subseteq Taken("CreateBudgetEnvelopes")
  /\ {"AddMissingFieldsToAgreements", "UpdateAgreementsMasterDataRelations",
      "AddAdditionalParamsToAgreements"}
       \subseteq Taken("CreateAgreements")
  /\ {"AddPlanToApprovalRequestTypeEnum"}
       \subseteq Taken("CreateApprovalRequests")
  /\ {"AddFiscalPeriodToAgreementTransaction"}
       \subseteq Taken("CreateAgreementTransactions")
  /\ {"AddSpendManagementTables", "AddPromoMechanicsConfig"}
       \subseteq Taken("CreateMasterDataEntities")
  /\ {"AddSpendManagementTables", "AddApprovalWorkflowFieldsToPlans",
      "AddCalculatedKpisToPlans"}
       \subseteq Taken("CreatePlans")
  /\ {"UpdateBudgetAllocationStructure", "UpdateLTAAgreementsStructure"}
       \subseteq Taken("AddSpendManagementTables")
BY DEF Taken, Upon

AllMeet(statements, taken) ==
  /\ Len(statements) \in Nat
  /\ \A n \in 1..Len(statements) : Meets(statements[n], taken)

\* up() takes no gift; down() its own, and those upon what it created.
Meeting(name, migration) ==
  /\ AllMeet(migration.up, {})
  /\ AllMeet(migration.down, Taken(name))

LEMMA SparedOwn ==
  ASSUME NEW taken, NEW table, NEW columns, table # Logs,
         NEW gift \in Brings, gift[3] = table, columns \subseteq gift[4],
         \A other \in Brings : other[3] = table /\ other[1] \notin taken =>
           other[4] \cap columns = {}
  PROVE  Spared(table, columns, taken)
BY DEF Spared, Core

LEMMA LoneAt ==
  ASSUME NEW taken, NEW table,
         \A gift \in Founds \cup Brings \cup Spares :
           gift[3] = table => gift[1] \in taken
  PROVE  Lone(table, taken)
BY GiftKinds DEF Lone, Gifts

LEMMA MigrationsMeet ==
  ASSUME NEW name \in DOMAIN Migration
  PROVE  Meeting(name, Migration[name])
<1>1. Meeting("CreateTenants", CreateTenants)
  <2>1. AllMeet(CreateTenants.up, {})
    BY MeetsCreate, TablesServe DEF AllMeet, CreateTenants
  <2>2. Lone("tenants", Taken("CreateTenants"))
    BY LoneAt, GiftsAt, TakenNames
  <2>3. AllMeet(CreateTenants.down, Taken("CreateTenants"))
    BY MeetsDropTable, <2>2 DEF AllMeet, CreateTenants
  <2>4. QED
    BY <2>1, <2>3 DEF Meeting
<1>2. Meeting("CreateUsers", CreateUsers)
  <2>1. AllMeet(CreateUsers.up, {})
    BY MeetsLabels, MeetsCreate, TablesServe, LabelsAt
       DEF AllMeet, CreateUsers
  <2>2. Meets(DropType("users_role_enum"),
              Taken("CreateUsers"))
    BY MeetsLabels, LabelsAt, TakenNames
  <2>3. Lone("users", Taken("CreateUsers"))
    BY LoneAt, GiftsAt, TakenNames
  <2>4. AllMeet(CreateUsers.down, Taken("CreateUsers"))
    BY MeetsDropTable, <2>2, <2>3 DEF AllMeet, CreateUsers
  <2>5. QED
    BY <2>1, <2>4 DEF Meeting
<1>3. Meeting("CreateCustomers", CreateCustomers)
  <2>1. AllMeet(CreateCustomers.up, {})
    BY MeetsCreate, TablesServe DEF AllMeet, CreateCustomers
  <2>2. Lone("customers", Taken("CreateCustomers"))
    BY LoneAt, GiftsAt, TakenNames
  <2>3. AllMeet(CreateCustomers.down, Taken("CreateCustomers"))
    BY MeetsDropTable, <2>2 DEF AllMeet, CreateCustomers
  <2>4. QED
    BY <2>1, <2>3 DEF Meeting
<1>4. Meeting("AddNumberOfBranchesToCustomers",
              AddNumberOfBranchesToCustomers)
  <2>1. AllMeet(AddNumberOfBranchesToCustomers.up, {})
    BY MeetsAdd DEF AllMeet, AddNumberOfBranchesToCustomers
  <2>2. Spared("customers",
               {"number_of_branches"},
               Taken("AddNumberOfBranchesToCustomers"))
    <3>1. PICK gift \in Brings :
            gift =
              <<"AddNumberOfBranchesToCustomers", "columns", "customers",
                {"number_of_branches"}>>
      BY DEF Brings
    <3>2. QED
      BY <3>1, SparedOwn, BringsAt, TakenNames DEF Logs
  <2>3. AllMeet(AddNumberOfBranchesToCustomers.down,
                Taken("AddNumberOfBranchesToCustomers"))
    BY MeetsDropColumns, <2>2 DEF AllMeet, AddNumberOfBranchesToCustomers
  <2>4. QED
    BY <2>1, <2>3 DEF Meeting
<1>5. Meeting("CreateBudgetEnvelopes", CreateBudgetEnvelopes)
  <2>1. AllMeet(CreateBudgetEnvelopes.up, {})
    BY MeetsCreate, TablesServe DEF AllMeet, CreateBudgetEnvelopes
  <2>2. Lone("budget_envelopes", Taken("CreateBudgetEnvelopes"))
    BY LoneAt, GiftsAt, TakenNames
  <2>3. AllMeet(CreateBudgetEnvelopes.down, Taken("CreateBudgetEnvelopes"))
    BY MeetsDropTable, <2>2 DEF AllMeet, CreateBudgetEnvelopes
  <2>4. QED
    BY <2>1, <2>3 DEF Meeting
<1>6. Meeting("CreateBudgetTransactions", CreateBudgetTransactions)
  <2>1. AllMeet(CreateBudgetTransactions.up, {})
    BY MeetsCreate, TablesServe DEF AllMeet, CreateBudgetTransactions
  <2>2. Lone("budget_transactions", Taken("CreateBudgetTransactions"))
    BY LoneAt, GiftsAt, TakenNames
  <2>3. AllMeet(CreateBudgetTransactions.down,
                Taken("CreateBudgetTransactions"))
    BY MeetsDropTable, <2>2 DEF AllMeet, CreateBudgetTransactions
  <2>4. QED
    BY <2>1, <2>3 DEF Meeting
<1>7. Meeting("CreateLedgerEntries", CreateLedgerEntries)
  <2>1. AllMeet(CreateLedgerEntries.up, {})
    BY MeetsCreate, TablesServe DEF AllMeet, CreateLedgerEntries
  <2>2. Lone("ledger_entries", Taken("CreateLedgerEntries"))
    BY LoneAt, GiftsAt, TakenNames
  <2>3. AllMeet(CreateLedgerEntries.down, Taken("CreateLedgerEntries"))
    BY MeetsDropTable, <2>2 DEF AllMeet, CreateLedgerEntries
  <2>4. QED
    BY <2>1, <2>3 DEF Meeting
<1>8. Meeting("CreateBudgetReservations", CreateBudgetReservations)
  <2>1. AllMeet(CreateBudgetReservations.up, {})
    BY MeetsCreate, TablesServe DEF AllMeet, CreateBudgetReservations
  <2>2. Lone("budget_reservations", Taken("CreateBudgetReservations"))
    BY LoneAt, GiftsAt, TakenNames
  <2>3. AllMeet(CreateBudgetReservations.down,
                Taken("CreateBudgetReservations"))
    BY MeetsDropTable, <2>2 DEF AllMeet, CreateBudgetReservations
  <2>4. QED
    BY <2>1, <2>3 DEF Meeting
<1>9. Meeting("CreateNotifications", CreateNotifications)
  <2>1. AllMeet(CreateNotifications.up, {})
    BY MeetsCreate, TablesServe DEF AllMeet, CreateNotifications
  <2>2. Lone("notifications", Taken("CreateNotifications"))
    BY LoneAt, GiftsAt, TakenNames
  <2>3. AllMeet(CreateNotifications.down, Taken("CreateNotifications"))
    BY MeetsDropTable, <2>2 DEF AllMeet, CreateNotifications
  <2>4. QED
    BY <2>1, <2>3 DEF Meeting
<1>10. Meeting("CreateAdminAuditLogs", CreateAdminAuditLogs)
  <2>1. AllMeet(CreateAdminAuditLogs.up, {})
    BY MeetsCreate, TablesServe DEF AllMeet, CreateAdminAuditLogs
  <2>2. Lone("admin_audit_logs", Taken("CreateAdminAuditLogs"))
    BY LoneAt, GiftsAt, TakenNames
  <2>3. AllMeet(CreateAdminAuditLogs.down, Taken("CreateAdminAuditLogs"))
    BY MeetsDropTable, <2>2 DEF AllMeet, CreateAdminAuditLogs
  <2>4. QED
    BY <2>1, <2>3 DEF Meeting
<1>11. Meeting("CreateBudgetSummaryView", CreateBudgetSummaryView)
  <2>1. AllMeet(CreateBudgetSummaryView.up, {})
    BY MeetsView DEF AllMeet, CreateBudgetSummaryView
  <2>2. AllMeet(CreateBudgetSummaryView.down,
                Taken("CreateBudgetSummaryView"))
    BY MeetsView DEF AllMeet, CreateBudgetSummaryView
  <2>3. QED
    BY <2>1, <2>2 DEF Meeting
<1>12. Meeting("CreateAgreements", CreateAgreements)
  <2>1. AllMeet(CreateAgreements.up, {})
    BY MeetsCreate, TablesServe DEF AllMeet, CreateAgreements
  <2>2. Lone("agreements", Taken("CreateAgreements"))
    BY LoneAt, GiftsAt, TakenNames
  <2>3. AllMeet(CreateAgreements.down, Taken("CreateAgreements"))
    BY MeetsDropTable, <2>2 DEF AllMeet, CreateAgreements
  <2>4. QED
    BY <2>1, <2>3 DEF Meeting
<1>13. Meeting("CreateApprovalRequests", CreateApprovalRequests)
  <2>1. AllMeet(CreateApprovalRequests.up, {})
    BY MeetsLabels, MeetsCreate, MeetsReferences, TablesServe, LabelsAt
       DEF AllMeet, CreateApprovalRequests
  <2>2. Meets(DropType("approval_requests_request_type_enum"),
              Taken("CreateApprovalRequests"))
    BY MeetsLabels, LabelsAt, TakenNames
  <2>3. Lone("approval_requests", Taken("CreateApprovalRequests"))
    BY LoneAt, GiftsAt, TakenNames
  <2>4. AllMeet(CreateApprovalRequests.down, Taken("CreateApprovalRequests"))
    BY MeetsReferences, MeetsDropTable, <2>2, <2>3
       DEF AllMeet, CreateApprovalRequests, Logs
  <2>5. QED
    BY <2>1, <2>4 DEF Meeting
<1>14. Meeting("CreateAgreementTransactions", CreateAgreementTransactions)
  <2>1. AllMeet(CreateAgreementTransactions.up, {})
    BY MeetsCreate, TablesServe DEF AllMeet, CreateAgreementTransactions
  <2>2. Lone("agreement_transactions",
                   Taken("CreateAgreementTransactions"))
    BY LoneAt, GiftsAt, TakenNames
  <2>3. AllMeet(CreateAgreementTransactions.down,
                Taken("CreateAgreementTransactions"))
    BY MeetsDropTable, <2>2 DEF AllMeet, CreateAgreementTransactions
  <2>4. QED
    BY <2>1, <2>3 DEF Meeting
<1>15. Meeting("AddMissingFieldsToAgreements", AddMissingFieldsToAgreements)
  <2>1. AllMeet(AddMissingFieldsToAgreements.up, {})
    BY MeetsAdd DEF AllMeet, AddMissingFieldsToAgreements
  <2>2. Spared("agreements",
               {"description", "category_id", "reconciliation_period",
                "notes"},
               Taken("AddMissingFieldsToAgreements"))
    <3>1. PICK gift \in Brings :
            gift =
              <<"AddMissingFieldsToAgreements", "columns", "agreements",
                {"description", "category_id", "reconciliation_period",
                 "notes"}>>
      BY DEF Brings
    <3>2. QED
      BY <3>1, SparedOwn, BringsAt, TakenNames DEF Logs
  <2>3. AllMeet(AddMissingFieldsToAgreements.down,
                Taken("AddMissingFieldsToAgreements"))
    BY MeetsDropColumns, <2>2 DEF AllMeet, AddMissingFieldsToAgreements
  <2>4. QED
    BY <2>1, <2>3 DEF Meeting
<1>16. Meeting("CreateMasterDataEntities", CreateMasterDataEntities)
  <2>1. /\ Serving("brands", Brands, BrandsReferences)
        /\ Serving("categories", Categories, CategoriesReferences)
        /\ Serving("channels", Channels, ChannelsReferences)
        /\ Serving("regions", Regions, RegionsReferences)
        /\ Serving("generic_units", GenericUnits, GenericUnitsReferences)
        /\ Serving("forecasting_units",
                   ForecastingUnits, ForecastingUnitsReferences)
        /\ Serving("skus", Skus, SkusReferences)
        /\ Serving("tactics", Tactics, TacticsReferences)
        /\ Serving("mechanics", Mechanics, MechanicsReferences)
        /\ Serving("cpls", Cpls, CplsReferences)
    BY TablesServe
  <2>2. AllMeet(CreateMasterDataEntities.up, {})
    BY MeetsCreate, MeetsAdd, MeetsReferences, <2>1
       DEF AllMeet, CreateMasterDataEntities
  <2>3. /\ Lone("cpls", Taken("CreateMasterDataEntities"))
        /\ Lone("mechanics", Taken("CreateMasterDataEntities"))
        /\ Lone("tactics", Taken("CreateMasterDataEntities"))
        /\ Lone("skus", Taken("CreateMasterDataEntities"))
        /\ Lone("forecasting_units", Taken("CreateMasterDataEntities"))
        /\ Lone("generic_units", Taken("CreateMasterDataEntities"))
        /\ Lone("regions", Taken("CreateMasterDataEntities"))
        /\ Lone("channels", Taken("CreateMasterDataEntities"))
        /\ Lone("categories", Taken("CreateMasterDataEntities"))
        /\ Lone("brands", Taken("CreateMasterDataEntities"))
    BY LoneAt, GiftsAt, TakenNames
  <2>4. Spared("customers",
               {"cpl_id"},
               Taken("CreateMasterDataEntities"))
    <3>1. PICK gift \in Brings :
            gift =
              <<"CreateMasterDataEntities", "columns", "customers",
                {"cpl_id"}>>
      BY DEF Brings
    <3>2. QED
      BY <3>1, SparedOwn, BringsAt, TakenNames DEF Logs
  <2>5. AllMeet(CreateMasterDataEntities.down,
                Taken("CreateMasterDataEntities"))
    BY MeetsDropColumns, MeetsDropTable, <2>3, <2>4
       DEF AllMeet, CreateMasterDataEntities
  <2>6. QED
    BY <2>2, <2>5 DEF Meeting
<1>17. Meeting("UpdateAgreementsMasterDataRelations",
               UpdateAgreementsMasterDataRelations)
  <2>1. Spared("agreements",
               {"channel"},
               {})
    <3>1. Registered["agreements"] = Agreement
      BY DEF Registered
    <3>2. Core("agreements") \cap
            {"channel"} = {}
      BY <3>1 DEF Core, Entity, Agreement
    <3>3. QED
      BY <3>2, BringsAt DEF Spared, Logs
  <2>2. AllMeet(UpdateAgreementsMasterDataRelations.up, {})
    BY MeetsAdd, MeetsDropColumns, MeetsReferences, MeetsView, <2>1
       DEF AllMeet, UpdateAgreementsMasterDataRelations, Logs
  <2>3. Bearable("agreements",
                 {"channel"},
                 Taken("UpdateAgreementsMasterDataRelations"))
    <3>1. Registered["agreements"] = Agreement
      BY DEF Registered
    <3>2. QED
      BY <3>1, TakenNames DEF Bearable, Known, Spares, Entity, Agreement
  <2>4. Spared("agreements",
               {"channel_id"},
               Taken("UpdateAgreementsMasterDataRelations"))
    <3>1. PICK gift \in Brings :
            gift =
              <<"UpdateAgreementsMasterDataRelations",
                "columns", "agreements",
                {"channel_id"}>>
      BY DEF Brings
    <3>2. QED
      BY <3>1, SparedOwn, BringsAt, TakenNames DEF Logs
  <2>5. AllMeet(UpdateAgreementsMasterDataRelations.down,
                Taken("UpdateAgreementsMasterDataRelations"))
    BY MeetsReferences, MeetsAddColumns, MeetsDropColumns, <2>3, <2>4
       DEF AllMeet, UpdateAgreementsMasterDataRelations, Logs
  <2>6. QED
    BY <2>2, <2>5 DEF Meeting
<1>18. Meeting("CreateKpis", CreateKpis)
  <2>1. AllMeet(CreateKpis.up, {})
    BY MeetsCreate, TablesServe DEF AllMeet, CreateKpis
  <2>2. Lone("kpis", Taken("CreateKpis"))
    BY LoneAt, GiftsAt, TakenNames
  <2>3. AllMeet(CreateKpis.down, Taken("CreateKpis"))
    BY MeetsDropTable, <2>2 DEF AllMeet, CreateKpis
  <2>4. QED
    BY <2>1, <2>3 DEF Meeting
<1>19. Meeting("CreatePlans", CreatePlans)
  <2>1. /\ Serving("plans", Plans, PlansReferences)
        /\ Serving("plan_fus", PlanFus, PlanFusReferences)
        /\ Serving("plan_skus", PlanSkus, PlanSkusReferences)
    BY TablesServe
  <2>2. AllMeet(CreatePlans.up, {})
    BY MeetsLabels, MeetsCreate, LabelsAt, <2>1 DEF AllMeet, CreatePlans
  <2>3. Meets(DropType("plans_plan_status_enum"),
              Taken("CreatePlans"))
    BY MeetsLabels, LabelsAt, TakenNames
  <2>4. /\ Lone("plan_skus", Taken("CreatePlans"))
        /\ Lone("plan_fus", Taken("CreatePlans"))
        /\ Lone("plans", Taken("CreatePlans"))
    BY LoneAt, GiftsAt, TakenNames
  <2>5. AllMeet(CreatePlans.down, Taken("CreatePlans"))
    BY MeetsReferences, MeetsDropTable, <2>3, <2>4
       DEF AllMeet, CreatePlans, Logs
  <2>6. QED
    BY <2>2, <2>5 DEF Meeting
<1>20. Meeting("AddPlanToApprovalRequestTypeEnum",
               AddPlanToApprovalRequestTypeEnum)
  <2>1. AllMeet(AddPlanToApprovalRequestTypeEnum.up, {})
    BY MeetsLabels DEF AllMeet, AddPlanToApprovalRequestTypeEnum
  <2>2. AllMeet(AddPlanToApprovalRequestTypeEnum.down,
                Taken("AddPlanToApprovalRequestTypeEnum"))
    BY DEF AllMeet, AddPlanToApprovalRequestTypeEnum
  <2>3. QED
    BY <2>1, <2>2 DEF Meeting
<1>21. Meeting("AddChannelCategoryToBudgetEnvelope",
               AddChannelCategoryToBudgetEnvelope)
  <2>1. AllMeet(AddChannelCategoryToBudgetEnvelope.up, {})
    BY MeetsAdd DEF AllMeet, AddChannelCategoryToBudgetEnvelope
  <2>2. Spared("budget_envelopes",
               {"channel", "category", "channel_id", "category_id"},
               Taken("AddChannelCategoryToBudgetEnvelope"))
    <3>1. PICK gift \in Brings :
            gift =
              <<"AddChannelCategoryToBudgetEnvelope",
                "columns", "budget_envelopes",
                {"channel", "category", "channel_id", "category_id"}>>
      BY DEF Brings
    <3>2. QED
      BY <3>1, SparedOwn, BringsAt, TakenNames DEF Logs
  <2>3. AllMeet(AddChannelCategoryToBudgetEnvelope.down,
                Taken("AddChannelCategoryToBudgetEnvelope"))
    BY MeetsDropColumns, <2>2 DEF AllMeet, AddChannelCategoryToBudgetEnvelope
  <2>4. QED
    BY <2>1, <2>3 DEF Meeting
<1>22. Meeting("RemoveOldChannelColumnFromAgreements",
               RemoveOldChannelColumnFromAgreements)
  <2>1. Spared("agreements",
               {"channel"},
               {})
    <3>1. Registered["agreements"] = Agreement
      BY DEF Registered
    <3>2. Core("agreements") \cap
            {"channel"} = {}
      BY <3>1 DEF Core, Entity, Agreement
    <3>3. QED
      BY <3>2, BringsAt DEF Spared, Logs
  <2>2. AllMeet(RemoveOldChannelColumnFromAgreements.up, {})
    BY MeetsDropColumns, <2>1
       DEF AllMeet, RemoveOldChannelColumnFromAgreements
  <2>3. AllMeet(RemoveOldChannelColumnFromAgreements.down,
                Taken("RemoveOldChannelColumnFromAgreements"))
    BY MeetsAdd DEF AllMeet, RemoveOldChannelColumnFromAgreements
  <2>4. QED
    BY <2>2, <2>3 DEF Meeting
<1>23. Meeting("AddAdditionalParamsToAgreements",
               AddAdditionalParamsToAgreements)
  <2>1. AllMeet(AddAdditionalParamsToAgreements.up, {})
    BY MeetsAdd DEF AllMeet, AddAdditionalParamsToAgreements
  <2>2. Spared("agreements",
               {"additional_params", "kpi_results"},
               Taken("AddAdditionalParamsToAgreements"))
    <3>1. PICK gift \in Brings :
            gift =
              <<"AddAdditionalParamsToAgreements", "columns", "agreements",
                {"additional_params", "kpi_results"}>>
      BY DEF Brings
    <3>2. QED
      BY <3>1, SparedOwn, BringsAt, TakenNames DEF Logs
  <2>3. AllMeet(AddAdditionalParamsToAgreements.down,
                Taken("AddAdditionalParamsToAgreements"))
    BY MeetsDropColumns, <2>2 DEF AllMeet, AddAdditionalParamsToAgreements
  <2>4. QED
    BY <2>1, <2>3 DEF Meeting
<1>24. Meeting("MakeFuIdNullableInAgreements", MakeFuIdNullableInAgreements)
  <2>1. Bearable("agreements",
                 {"fu_id"},
                 {})
    <3>1. Registered["agreements"] = Agreement
      BY DEF Registered
    <3>2. QED
      BY <3>1, TakenNames DEF Bearable, Known, Spares, Entity, Agreement
  <2>2. AllMeet(MakeFuIdNullableInAgreements.up, {})
    BY MeetsReferences, MeetsRequire, <2>1
       DEF AllMeet, MakeFuIdNullableInAgreements, Logs
  <2>3. Bearable("agreements",
                 {"fu_id"},
                 Taken("MakeFuIdNullableInAgreements"))
    <3>1. Registered["agreements"] = Agreement
      BY DEF Registered
    <3>2. QED
      BY <3>1, TakenNames DEF Bearable, Known, Spares, Entity, Agreement
  <2>4. AllMeet(MakeFuIdNullableInAgreements.down,
                Taken("MakeFuIdNullableInAgreements"))
    BY MeetsReferences, MeetsRequire, <2>3
       DEF AllMeet, MakeFuIdNullableInAgreements, Logs
  <2>5. QED
    BY <2>2, <2>4 DEF Meeting
<1>25. Meeting("UpdateBudgetAllocationStructure",
               UpdateBudgetAllocationStructure)
  <2>1. /\ Serving("budget_allocations", BudgetAllocations, {})
        /\ Serving("budget_transaction_logs", BudgetTransactionLogs,
                 BudgetTransactionLogsReferences)
        /\ Serving("budget_alert_configurations",
                   BudgetAlertConfigurations, {})
    BY TablesServe
  <2>2. Spared("budget_allocations",
               {"envelope_id", "alert_thresholds"},
               {})
    <3>1. Registered["budget_allocations"] = BudgetAllocation
      BY DEF Registered
    <3>2. Core("budget_allocations") \cap
            {"envelope_id", "alert_thresholds"} = {}
      BY <3>1 DEF Core, Entity, BudgetAllocation
    <3>3. QED
      BY <3>2, BringsAt DEF Spared, Logs
  <2>3. Bearable("budget_allocations",
                 {"period_type", "period_start", "period_end", "fiscal_year"},
                 {})
    <3>1. Registered["budget_allocations"] = BudgetAllocation
      BY DEF Registered
    <3>2. QED
      BY <3>1, TakenNames DEF Bearable, Known, Spares, Entity, BudgetAllocation
  <2>4. AllMeet(UpdateBudgetAllocationStructure.up, {})
    BY MeetsCreate, MeetsReferences, MeetsAdd, MeetsDropColumns,
       MeetsAddColumns, <2>1, <2>2, <2>3
       DEF AllMeet, UpdateBudgetAllocationStructure, Logs
  <2>5. /\ Lone("budget_alert_configurations",
                   Taken("UpdateBudgetAllocationStructure"))
        /\ Lone("budget_transaction_logs",
                   Taken("UpdateBudgetAllocationStructure"))
    BY LoneAt, GiftsAt, TakenNames
  <2>6. Spared("budget_allocations",
               {"total_budget", "on_invoice_available",
                "off_invoice_available"},
               Taken("UpdateBudgetAllocationStructure"))
    <3>1. PICK gift \in Brings :
            gift =
              <<"UpdateBudgetAllocationStructure",
                "columns", "budget_allocations",
                {"total_budget", "on_invoice_available",
                 "off_invoice_available"}>>
      BY DEF Brings
    <3>2. QED
      BY <3>1, SparedOwn, BringsAt, TakenNames DEF Logs
  <2>7. Spared("budget_allocations",
               {"period_type", "period_start", "period_end", "fiscal_year"}
                 \cup {"cpl_id", "channel", "category", "on_invoice_budget",
                       "off_invoice_budget", "on_invoice_utilized",
                       "off_invoice_utilized", "on_invoice_reserved",
                       "off_invoice_reserved", "alert_threshold_80",
                       "alert_threshold_95", "alert_threshold_100",
                       "alert_recipients", "hard_limit_mode",
                       "allow_carry_forward"},
               Taken("UpdateBudgetAllocationStructure"))
    <3>1. PICK gift \in Brings :
            gift =
              <<"UpdateBudgetAllocationStructure",
                "columns", "budget_allocations",
                {"period_type", "period_start", "period_end", "fiscal_year",
                 "cpl_id", "channel", "category", "on_invoice_budget",
                 "off_invoice_budget", "on_invoice_utilized",
                 "off_invoice_utilized", "on_invoice_reserved",
                 "off_invoice_reserved", "alert_threshold_80",
                 "alert_threshold_95", "alert_threshold_100",
                 "alert_recipients", "hard_limit_mode",
                 "allow_carry_forward"}>>
      BY DEF Brings
    <3>2. QED
      BY <3>1, SparedOwn, BringsAt, TakenNames DEF Logs
  <2>8. AllMeet(UpdateBudgetAllocationStructure.down,
                Taken("UpdateBudgetAllocationStructure"))
    BY MeetsDropTable, MeetsDropColumns, <2>5, <2>6, <2>7
       DEF AllMeet, UpdateBudgetAllocationStructure
  <2>9. QED
    BY <2>4, <2>8 DEF Meeting
<1>26. Meeting("AddFinanceManagerAndCategoryManagerRoles",
               AddFinanceManagerAndCategoryManagerRoles)
  <2>1. AllMeet(AddFinanceManagerAndCategoryManagerRoles.up, {})
    BY MeetsLabels DEF AllMeet, AddFinanceManagerAndCategoryManagerRoles
  <2>2. AllMeet(AddFinanceManagerAndCategoryManagerRoles.down,
                Taken("AddFinanceManagerAndCategoryManagerRoles"))
    BY DEF AllMeet, AddFinanceManagerAndCategoryManagerRoles
  <2>3. QED
    BY <2>1, <2>2 DEF Meeting
<1>27. Meeting("AddSpendManagementTables", AddSpendManagementTables)
  <2>1. /\ Serving("plan_mechanic_values", PlanMechanicValues,
                 PlanMechanicValuesReferences)
        /\ Serving("mechanic_spend_breakdown", MechanicSpendBreakdowns,
                 MechanicSpendBreakdownsReferences)
        /\ Serving("lta_agreements",
                   SpendLtaAgreements, SpendLtaAgreementsReferences)
        /\ Serving("budget_allocations", SpendBudgetAllocations,
                 SpendBudgetAllocationsReferences)
    BY TablesServe
  <2>2. AllMeet(AddSpendManagementTables.up, {})
    BY MeetsAdd, MeetsCreate, <2>1 DEF AllMeet, AddSpendManagementTables
  <2>3. /\ Lone("budget_allocations", Taken("AddSpendManagementTables"))
        /\ Lone("lta_agreements", Taken("AddSpendManagementTables"))
        /\ Lone("mechanic_spend_breakdown", Taken("AddSpendManagementTables"))
        /\ Lone("plan_mechanic_values", Taken("AddSpendManagementTables"))
    BY LoneAt, GiftsAt, TakenNames
  <2>4. Spared("plan_skus",
               {"base_lta_on_invoice_spend", "base_lta_off_invoice_spend",
                "planned_lta_on_invoice_spend",
                "planned_lta_off_invoice_spend",
                "promo_on_invoice_spend", "promo_off_invoice_spend"},
               Taken("AddSpendManagementTables"))
    <3>1. PICK gift \in Brings :
            gift =
              <<"AddSpendManagementTables", "columns", "plan_skus",
                {"base_lta_on_invoice_spend", "base_lta_off_invoice_spend",
                 "planned_lta_on_invoice_spend",
                 "planned_lta_off_invoice_spend", "promo_on_invoice_spend",
                 "promo_off_invoice_spend"}>>
      BY DEF Brings
    <3>2. QED
      BY <3>1, SparedOwn, BringsAt, TakenNames DEF Logs
  <2>5. Spared("mechanics",
               {"spending_type", "calculation_formula", "applicability_rules",
                "input_constraints"},
               Taken("AddSpendManagementTables"))
    <3>1. PICK gift \in Brings :
            gift =
              <<"AddSpendManagementTables", "columns", "mechanics",
                {"spending_type", "calculation_formula",
                 "applicability_rules", "input_constraints"}>>
      BY DEF Brings
    <3>2. QED
      BY <3>1, SparedOwn, BringsAt, TakenNames DEF Logs
  <2>6. AllMeet(AddSpendManagementTables.down,
                Taken("AddSpendManagementTables"))
    BY MeetsDropColumns, MeetsDropTable, <2>3, <2>4, <2>5
       DEF AllMeet, AddSpendManagementTables
  <2>7. QED
    BY <2>2, <2>6 DEF Meeting
<1>28. Meeting("AddPromoMechanicsConfig", AddPromoMechanicsConfig)
  <2>1. AllMeet(AddPromoMechanicsConfig.up, {})
    BY MeetsAdd DEF AllMeet, AddPromoMechanicsConfig
  <2>2. Spared("mechanics",
               {"category", "input_type", "default_value", "step_increment",
                "decimal_places", "unit_symbol", "formula_variables",
                "formula_validation_status", "test_data",
                "applicable_channels",
                "applicable_categories", "applicable_cpls", "show_in_grid",
                "grid_column_order", "grid_column_width", "group_header",
                "track_against_budget", "budget_type",
                "requires_approval_threshold", "approval_flow",
                "mutually_exclusive_with", "max_combined_discount_percentage",
                "combination_warnings"},
               Taken("AddPromoMechanicsConfig"))
    <3>1. PICK gift \in Brings :
            gift =
              <<"AddPromoMechanicsConfig", "columns", "mechanics",
                {"category", "input_type", "default_value", "step_increment",
                 "decimal_places", "unit_symbol", "formula_variables",
                 "formula_validation_status", "test_data",
                 "applicable_channels", "applicable_categories",
                 "applicable_cpls", "show_in_grid", "grid_column_order",
                 "grid_column_width", "group_header", "track_against_budget",
                 "budget_type", "requires_approval_threshold",
                 "approval_flow", "mutually_exclusive_with",
                 "max_combined_discount_percentage", "combination_warnings"}>>
      BY DEF Brings
    <3>2. QED
      BY <3>1, SparedOwn, BringsAt, TakenNames DEF Logs
  <2>3. AllMeet(AddPromoMechanicsConfig.down,
                Taken("AddPromoMechanicsConfig"))
    BY MeetsDropColumns, <2>2 DEF AllMeet, AddPromoMechanicsConfig
  <2>4. QED
    BY <2>1, <2>3 DEF Meeting
<1>29. Meeting("UpdateLTAAgreementsStructure", UpdateLTAAgreementsStructure)
  <2>1. /\ Serving("lta_agreements", LtaAgreements, {})
        /\ Serving("lta_rates", LtaRates, LtaRatesReferences)
        /\ Serving("lta_plan_overrides",
                   LtaPlanOverrides, LtaPlanOverridesReferences)
    BY TablesServe
  <2>2. Spared("lta_agreements",
               {"channel_id", "on_invoice_percentage",
                "off_invoice_percentage",
                "is_active", "description"},
               {})
    <3>1. Registered["lta_agreements"] = LTAAgreement
      BY DEF Registered
    <3>2. Core("lta_agreements") \cap
            {"channel_id", "on_invoice_percentage", "off_invoice_percentage",
             "is_active", "description"} = {}
      BY <3>1 DEF Core, Entity, LTAAgreement
    <3>3. QED
      BY <3>2, BringsAt DEF Spared, Logs
  <2>3. Bearable("lta_agreements",
                 {"agreement_name", "agreement_code", "effective_date"},
                 {})
    <3>1. Registered["lta_agreements"] = LTAAgreement
      BY DEF Registered
    <3>2. QED
      BY <3>1, TakenNames DEF Bearable, Known, Spares, Entity, LTAAgreement
  <2>4. AllMeet(UpdateLTAAgreementsStructure.up, {})
    BY MeetsCreate, MeetsReferences, MeetsDropColumns, MeetsAddColumns, <2>1,
       <2>2, <2>3
       DEF AllMeet, UpdateLTAAgreementsStructure, Logs
  <2>5. /\ Lone("lta_plan_overrides", Taken("UpdateLTAAgreementsStructure"))
        /\ Lone("lta_rates", Taken("UpdateLTAAgreementsStructure"))
    BY LoneAt, GiftsAt, TakenNames
  <2>6. Spared("lta_agreements",
               {"notes", "total_agreement_value", "status", "agreement_code",
                "agreement_name"},
               Taken("UpdateLTAAgreementsStructure"))
    <3>1. PICK gift \in Brings :
            gift =
              <<"UpdateLTAAgreementsStructure", "columns", "lta_agreements",
                {"agreement_name", "agreement_code", "effective_date",
                 "status", "total_agreement_value", "notes", "expiry_date"}>>
      BY DEF Brings
    <3>2. QED
      BY <3>1, SparedOwn, BringsAt, TakenNames DEF Logs
  <2>7. AllMeet(UpdateLTAAgreementsStructure.down,
                Taken("UpdateLTAAgreementsStructure"))
    BY MeetsDropTable, MeetsDropColumns, <2>5, <2>6
       DEF AllMeet, UpdateLTAAgreementsStructure
  <2>8. QED
    BY <2>4, <2>7 DEF Meeting
<1>30. Meeting("AddApprovalWorkflowFieldsToPlans",
               AddApprovalWorkflowFieldsToPlans)
  <2>1. AllMeet(AddApprovalWorkflowFieldsToPlans.up, {})
    BY MeetsLabels, MeetsAdd, MeetsReferences, MeetsCreate, TablesServe
       DEF AllMeet, AddApprovalWorkflowFieldsToPlans
  <2>2. Lone("plan_approval_history",
                   Taken("AddApprovalWorkflowFieldsToPlans"))
    BY LoneAt, GiftsAt, TakenNames
  <2>3. Spared("plans",
               {"submission_notes", "submitted_at", "submitted_by",
                "pending_finance_review", "escalation_reason", "escalated_at",
                "escalated_by", "on_invoice_spend", "off_invoice_spend"},
               Taken("AddApprovalWorkflowFieldsToPlans"))
    <3>1. PICK gift \in Brings :
            gift =
              <<"AddApprovalWorkflowFieldsToPlans", "columns", "plans",
                {"submission_notes", "submitted_at", "submitted_by",
                 "pending_finance_review", "escalation_reason",
                 "escalated_at", "escalated_by", "on_invoice_spend",
                 "off_invoice_spend"}>>
      BY DEF Brings
    <3>2. QED
      BY <3>1, SparedOwn, BringsAt, TakenNames DEF Logs
  <2>4. AllMeet(AddApprovalWorkflowFieldsToPlans.down,
                Taken("AddApprovalWorkflowFieldsToPlans"))
    BY MeetsDropTable, MeetsReferences, MeetsDropColumns, <2>2, <2>3
       DEF AllMeet, AddApprovalWorkflowFieldsToPlans, Logs
  <2>5. QED
    BY <2>1, <2>4 DEF Meeting
<1>31. Meeting("AddFiscalPeriodToAgreementTransaction",
               AddFiscalPeriodToAgreementTransaction)
  <2>1. AllMeet(AddFiscalPeriodToAgreementTransaction.up, {})
    BY MeetsAdd DEF AllMeet, AddFiscalPeriodToAgreementTransaction
  <2>2. Spared("agreement_transactions",
               {"fiscal_period"},
               Taken("AddFiscalPeriodToAgreementTransaction"))
    <3>1. PICK gift \in Brings :
            gift =
              <<"AddFiscalPeriodToAgreementTransaction",
                "columns", "agreement_transactions",
                {"fiscal_period"}>>
      BY DEF Brings
    <3>2. QED
      BY <3>1, SparedOwn, BringsAt, TakenNames DEF Logs
  <2>3. AllMeet(AddFiscalPeriodToAgreementTransaction.down,
                Taken("AddFiscalPeriodToAgreementTransaction"))
    BY MeetsDropColumns, <2>2
       DEF AllMeet, AddFiscalPeriodToAgreementTransaction
  <2>4. QED
    BY <2>1, <2>3 DEF Meeting
<1>32. Meeting("CreateOnInvoiceTables", CreateOnInvoiceTables)
  <2>1. /\ Serving("on_invoice_batches",
                   OnInvoiceBatches, OnInvoiceBatchesReferences)
        /\ Serving("on_invoice_entries",
                   OnInvoiceEntries, OnInvoiceEntriesReferences)
    BY TablesServe
  <2>2. AllMeet(CreateOnInvoiceTables.up, {})
    BY MeetsCreate, <2>1 DEF AllMeet, CreateOnInvoiceTables
  <2>3. /\ Lone("on_invoice_entries", Taken("CreateOnInvoiceTables"))
        /\ Lone("on_invoice_batches", Taken("CreateOnInvoiceTables"))
    BY LoneAt, GiftsAt, TakenNames
  <2>4. AllMeet(CreateOnInvoiceTables.down, Taken("CreateOnInvoiceTables"))
    BY MeetsReferences, MeetsDropTable, <2>3
       DEF AllMeet, CreateOnInvoiceTables, Logs
  <2>5. QED
    BY <2>2, <2>4 DEF Meeting
<1>33. Meeting("AddCalculatedKpisToPlans", AddCalculatedKpisToPlans)
  <2>1. AllMeet(AddCalculatedKpisToPlans.up, {})
    BY MeetsAdd DEF AllMeet, AddCalculatedKpisToPlans
  <2>2. Spared("plan_skus",
               {"calculated_kpis"},
               Taken("AddCalculatedKpisToPlans"))
    <3>1. PICK gift \in Brings :
            gift =
              <<"AddCalculatedKpisToPlans", "columns", "plan_skus",
                {"calculated_kpis"}>>
      BY DEF Brings
    <3>2. QED
      BY <3>1, SparedOwn, BringsAt, TakenNames DEF Logs
  <2>3. Spared("plan_fus",
               {"calculated_kpis"},
               Taken("AddCalculatedKpisToPlans"))
    <3>1. PICK gift \in Brings :
            gift =
              <<"AddCalculatedKpisToPlans", "columns", "plan_fus",
                {"calculated_kpis"}>>
      BY DEF Brings
    <3>2. QED
      BY <3>1, SparedOwn, BringsAt, TakenNames DEF Logs
  <2>4. AllMeet(AddCalculatedKpisToPlans.down,
                Taken("AddCalculatedKpisToPlans"))
    BY MeetsDropColumns, <2>2, <2>3 DEF AllMeet, AddCalculatedKpisToPlans
  <2>5. QED
    BY <2>1, <2>4 DEF Meeting
<1>34. QED
  BY <1>1, <1>2, <1>3, <1>4, <1>5, <1>6, <1>7, <1>8, <1>9, <1>10, <1>11,
     <1>12, <1>13, <1>14, <1>15, <1>16, <1>17, <1>18, <1>19, <1>20, <1>21,
     <1>22, <1>23, <1>24, <1>25, <1>26, <1>27, <1>28, <1>29, <1>30, <1>31,
     <1>32, <1>33
     DEF Migration

-----------------------------------------------------------------------------
(* up() brings the gifts of its migration.                                 *)

LEMMA GrantsTable ==
  ASSUME NEW gift, gift[2] = "table", NEW columns, NEW references
  PROVE  /\ Grants(CreateTable(gift[3], columns, references), gift)
         /\ Grants(CreateMissingTable(gift[3], columns, references), gift)
BY DEF Grants, Creates, CreateTable, CreateMissingTable

LEMMA GrantsColumns ==
  ASSUME NEW gift, gift[2] = "columns", NEW required, NEW columns
  PROVE  /\ gift[4] \subseteq columns =>
              Grants(AddColumns(gift[3], columns), gift)
         /\ gift[4] \subseteq required \cup columns =>
              Grants(AddMissingColumns(gift[3], required, columns), gift)
BY DEF Grants, AddColumns, AddMissingColumns

LEMMA GrantsType ==
  ASSUME NEW gift \in Enums, NEW labels
  PROVE  Grants(CreateType(gift[3], labels), gift)
BY GiftKinds DEF Grants, CreateType, Gifts, Enums

LEMMA GrantsLabels ==
  ASSUME NEW gift, gift[2] = "labels", NEW labels, gift[4] \subseteq labels
  PROVE  /\ Grants(AddLabels(gift[3], labels), gift)
         /\ Completes(AddLabelsIfPossible(gift[3], labels), gift)
BY DEF Grants, Completes, AddLabels, AddLabelsIfPossible

LEMMA FoundsBrought ==
  ASSUME NEW gift \in Founds
  PROVE  /\ gift[1] \in DOMAIN Migration
         /\ \E m \in 1..Len(Migration[gift[1]].up) :
              Grants(Migration[gift[1]].up[m], gift)
<1>1. ASSUME gift[1] = "CreateTenants"
      PROVE  \E m \in 1..Len(CreateTenants.up) :
               Grants(CreateTenants.up[m], gift)
  <2>1. /\ Len(CreateTenants.up) = 1
        /\ CreateTenants.up[1] = CreateTable("tenants", Tenants, {})
    BY DEF CreateTenants
  <2>2. gift[2] = "table" /\ gift[3] = "tenants"
    BY <1>1 DEF Founds
  <2>3. QED
    BY <2>1, <2>2, GrantsTable
<1>2. ASSUME gift[1] = "CreateUsers"
      PROVE  \E m \in 1..Len(CreateUsers.up) :
               Grants(CreateUsers.up[m], gift)
  <2>1. /\ Len(CreateUsers.up) = 2
        /\ CreateUsers.up[2] = CreateTable("users", Users, UsersReferences)
    BY DEF CreateUsers
  <2>2. gift[2] = "table" /\ gift[3] = "users"
    BY <1>2 DEF Founds
  <2>3. QED
    BY <2>1, <2>2, GrantsTable
<1>3. ASSUME gift[1] = "CreateCustomers"
      PROVE  \E m \in 1..Len(CreateCustomers.up) :
               Grants(CreateCustomers.up[m], gift)
  <2>1. /\ Len(CreateCustomers.up) = 1
        /\ CreateCustomers.up[1] =
           CreateTable("customers", Customers, CustomersReferences)
    BY DEF CreateCustomers
  <2>2. gift[2] = "table" /\ gift[3] = "customers"
    BY <1>3 DEF Founds
  <2>3. QED
    BY <2>1, <2>2, GrantsTable
<1>4. ASSUME gift[1] = "CreateBudgetEnvelopes"
      PROVE  \E m \in 1..Len(CreateBudgetEnvelopes.up) :
               Grants(CreateBudgetEnvelopes.up[m], gift)
  <2>1. /\ Len(CreateBudgetEnvelopes.up) = 1
        /\ CreateBudgetEnvelopes.up[1] =
           CreateTable("budget_envelopes",
                       BudgetEnvelopes,
                       BudgetEnvelopesReferences)
    BY DEF CreateBudgetEnvelopes
  <2>2. gift[2] = "table" /\ gift[3] = "budget_envelopes"
    BY <1>4 DEF Founds
  <2>3. QED
    BY <2>1, <2>2, GrantsTable
<1>5. ASSUME gift[1] = "CreateBudgetTransactions"
      PROVE  \E m \in 1..Len(CreateBudgetTransactions.up) :
               Grants(CreateBudgetTransactions.up[m], gift)
  <2>1. /\ Len(CreateBudgetTransactions.up) = 1
        /\ CreateBudgetTransactions.up[1] =
           CreateTable("budget_transactions",
                       BudgetTransactions,
                       BudgetTransactionsReferences)
    BY DEF CreateBudgetTransactions
  <2>2. gift[2] = "table" /\ gift[3] = "budget_transactions"
    BY <1>5 DEF Founds
  <2>3. QED
    BY <2>1, <2>2, GrantsTable
<1>6. ASSUME gift[1] = "CreateLedgerEntries"
      PROVE  \E m \in 1..Len(CreateLedgerEntries.up) :
               Grants(CreateLedgerEntries.up[m], gift)
  <2>1. /\ Len(CreateLedgerEntries.up) = 1
        /\ CreateLedgerEntries.up[1] =
           CreateTable("ledger_entries",
                       LedgerEntries,
                       LedgerEntriesReferences)
    BY DEF CreateLedgerEntries
  <2>2. gift[2] = "table" /\ gift[3] = "ledger_entries"
    BY <1>6 DEF Founds
  <2>3. QED
    BY <2>1, <2>2, GrantsTable
<1>7. ASSUME gift[1] = "CreateNotifications"
      PROVE  \E m \in 1..Len(CreateNotifications.up) :
               Grants(CreateNotifications.up[m], gift)
  <2>1. /\ Len(CreateNotifications.up) = 1
        /\ CreateNotifications.up[1] =
           CreateTable("notifications",
                       Notifications,
                       NotificationsReferences)
    BY DEF CreateNotifications
  <2>2. gift[2] = "table" /\ gift[3] = "notifications"
    BY <1>7 DEF Founds
  <2>3. QED
    BY <2>1, <2>2, GrantsTable
<1>8. ASSUME gift[1] = "CreateAdminAuditLogs"
      PROVE  \E m \in 1..Len(CreateAdminAuditLogs.up) :
               Grants(CreateAdminAuditLogs.up[m], gift)
  <2>1. /\ Len(CreateAdminAuditLogs.up) = 1
        /\ CreateAdminAuditLogs.up[1] =
           CreateTable("admin_audit_logs",
                       AdminAuditLogs,
                       AdminAuditLogsReferences)
    BY DEF CreateAdminAuditLogs
  <2>2. gift[2] = "table" /\ gift[3] = "admin_audit_logs"
    BY <1>8 DEF Founds
  <2>3. QED
    BY <2>1, <2>2, GrantsTable
<1>9. ASSUME gift[1] = "CreateAgreements"
      PROVE  \E m \in 1..Len(CreateAgreements.up) :
               Grants(CreateAgreements.up[m], gift)
  <2>1. /\ Len(CreateAgreements.up) = 1
        /\ CreateAgreements.up[1] =
           CreateTable("agreements", Agreements, AgreementsReferences)
    BY DEF CreateAgreements
  <2>2. gift[2] = "table" /\ gift[3] = "agreements"
    BY <1>9 DEF Founds
  <2>3. QED
    BY <2>1, <2>2, GrantsTable
<1>10. ASSUME gift[1] = "CreateApprovalRequests"
      PROVE  \E m \in 1..Len(CreateApprovalRequests.up) :
               Grants(CreateApprovalRequests.up[m], gift)
  <2>1. /\ Len(CreateApprovalRequests.up) = 3
        /\ CreateApprovalRequests.up[2] =
           CreateTable("approval_requests",
                       ApprovalRequests,
                       ApprovalRequestsReferences)
    BY DEF CreateApprovalRequests
  <2>2. gift[2] = "table" /\ gift[3] = "approval_requests"
    BY <1>10 DEF Founds
  <2>3. QED
    BY <2>1, <2>2, GrantsTable
<1>11. ASSUME gift[1] = "CreateAgreementTransactions"
      PROVE  \E m \in 1..Len(CreateAgreementTransactions.up) :
               Grants(CreateAgreementTransactions.up[m], gift)
  <2>1. /\ Len(CreateAgreementTransactions.up) = 1
        /\ CreateAgreementTransactions.up[1] =
           CreateTable("agreement_transactions",
                       AgreementTransactions,
                       AgreementTransactionsReferences)
    BY DEF CreateAgreementTransactions
  <2>2. gift[2] = "table" /\ gift[3] = "agreement_transactions"
    BY <1>11 DEF Founds
  <2>3. QED
    BY <2>1, <2>2, GrantsTable
<1>12. ASSUME gift[1] = "CreateMasterDataEntities"
      PROVE  \E m \in 1..Len(CreateMasterDataEntities.up) :
               Grants(CreateMasterDataEntities.up[m], gift)
  <2>1. /\ Len(CreateMasterDataEntities.up) = 12
        /\ CreateMasterDataEntities.up[1] =
           CreateTable("brands", Brands, BrandsReferences)
        /\ CreateMasterDataEntities.up[2] =
           CreateTable("categories", Categories, CategoriesReferences)
        /\ CreateMasterDataEntities.up[3] =
           CreateTable("channels", Channels, ChannelsReferences)
        /\ CreateMasterDataEntities.up[4] =
           CreateTable("regions", Regions, RegionsReferences)
        /\ CreateMasterDataEntities.up[5] =
           CreateTable("generic_units",
                       GenericUnits,
                       GenericUnitsReferences)
        /\ CreateMasterDataEntities.up[6] =
           CreateTable("forecasting_units",
                       ForecastingUnits,
                       ForecastingUnitsReferences)
        /\ CreateMasterDataEntities.up[7] =
           CreateTable("skus", Skus, SkusReferences)
        /\ CreateMasterDataEntities.up[8] =
           CreateTable("tactics", Tactics, TacticsReferences)
        /\ CreateMasterDataEntities.up[9] =
           CreateTable("mechanics", Mechanics, MechanicsReferences)
        /\ CreateMasterDataEntities.up[10] =
           CreateTable("cpls", Cpls, CplsReferences)
    BY DEF CreateMasterDataEntities
  <2>2. /\ gift[2] = "table"
        /\ \/ gift[3] = "brands"
           \/ gift[3] = "categories"
           \/ gift[3] = "channels"
           \/ gift[3] = "regions"
           \/ gift[3] = "generic_units"
           \/ gift[3] = "forecasting_units"
           \/ gift[3] = "skus"
           \/ gift[3] = "tactics"
           \/ gift[3] = "mechanics"
           \/ gift[3] = "cpls"
    BY <1>12 DEF Founds
  <2>3. QED
    BY <2>1, <2>2, GrantsTable
<1>13. ASSUME gift[1] = "CreateKpis"
      PROVE  \E m \in 1..Len(CreateKpis.up) :
               Grants(CreateKpis.up[m], gift)
  <2>1. /\ Len(CreateKpis.up) = 1
        /\ CreateKpis.up[1] = CreateTable("kpis", Kpis, KpisReferences)
    BY DEF CreateKpis
  <2>2. gift[2] = "table" /\ gift[3] = "kpis"
    BY <1>13 DEF Founds
  <2>3. QED
    BY <2>1, <2>2, GrantsTable
<1>14. ASSUME gift[1] = "CreatePlans"
      PROVE  \E m \in 1..Len(CreatePlans.up) :
               Grants(CreatePlans.up[m], gift)
  <2>1. /\ Len(CreatePlans.up) = 4
        /\ CreatePlans.up[2] = CreateTable("plans", Plans, PlansReferences)
        /\ CreatePlans.up[3] =
           CreateTable("plan_fus", PlanFus, PlanFusReferences)
        /\ CreatePlans.up[4] =
           CreateTable("plan_skus", PlanSkus, PlanSkusReferences)
    BY DEF CreatePlans
  <2>2. /\ gift[2] = "table"
        /\ \/ gift[3] = "plans"
           \/ gift[3] = "plan_fus"
           \/ gift[3] = "plan_skus"
    BY <1>14 DEF Founds
  <2>3. QED
    BY <2>1, <2>2, GrantsTable
<1>15. ASSUME gift[1] = "UpdateBudgetAllocationStructure"
      PROVE  \E m \in 1..Len(UpdateBudgetAllocationStructure.up) :
               Grants(UpdateBudgetAllocationStructure.up[m], gift)
  <2>1. /\ Len(UpdateBudgetAllocationStructure.up) = 8
        /\ UpdateBudgetAllocationStructure.up[7] =
           CreateMissingTable("budget_transaction_logs",
                              BudgetTransactionLogs,
                              BudgetTransactionLogsReferences)
        /\ UpdateBudgetAllocationStructure.up[8] =
           CreateMissingTable("budget_alert_configurations",
                              BudgetAlertConfigurations,
                              {})
    BY DEF UpdateBudgetAllocationStructure
  <2>2. /\ gift[2] = "table"
        /\ \/ gift[3] = "budget_transaction_logs"
           \/ gift[3] = "budget_alert_configurations"
    BY <1>15 DEF Founds
  <2>3. QED
    BY <2>1, <2>2, GrantsTable
<1>16. ASSUME gift[1] = "AddSpendManagementTables"
      PROVE  \E m \in 1..Len(AddSpendManagementTables.up) :
               Grants(AddSpendManagementTables.up[m], gift)
  <2>1. /\ Len(AddSpendManagementTables.up) = 6
        /\ AddSpendManagementTables.up[2] =
           CreateMissingTable("plan_mechanic_values",
                              PlanMechanicValues,
                              PlanMechanicValuesReferences)
        /\ AddSpendManagementTables.up[3] =
           CreateMissingTable("mechanic_spend_breakdown",
                              MechanicSpendBreakdowns,
                              MechanicSpendBreakdownsReferences)
    BY DEF AddSpendManagementTables
  <2>2. /\ gift[2] = "table"
        /\ \/ gift[3] = "plan_mechanic_values"
           \/ gift[3] = "mechanic_spend_breakdown"
    BY <1>16 DEF Founds
  <2>3. QED
    BY <2>1, <2>2, GrantsTable
<1>17. ASSUME gift[1] = "UpdateLTAAgreementsStructure"
      PROVE  \E m \in 1..Len(UpdateLTAAgreementsStructure.up) :
               Grants(UpdateLTAAgreementsStructure.up[m], gift)
  <2>1. /\ Len(UpdateLTAAgreementsStructure.up) = 7
        /\ UpdateLTAAgreementsStructure.up[6] =
           CreateMissingTable("lta_rates", LtaRates, LtaRatesReferences)
        /\ UpdateLTAAgreementsStructure.up[7] =
           CreateMissingTable("lta_plan_overrides",
                              LtaPlanOverrides,
                              LtaPlanOverridesReferences)
    BY DEF UpdateLTAAgreementsStructure
  <2>2. /\ gift[2] = "table"
        /\ \/ gift[3] = "lta_rates"
           \/ gift[3] = "lta_plan_overrides"
    BY <1>17 DEF Founds
  <2>3. QED
    BY <2>1, <2>2, GrantsTable
<1>18. ASSUME gift[1] = "CreateOnInvoiceTables"
      PROVE  \E m \in 1..Len(CreateOnInvoiceTables.up) :
               Grants(CreateOnInvoiceTables.up[m], gift)
  <2>1. /\ Len(CreateOnInvoiceTables.up) = 2
        /\ CreateOnInvoiceTables.up[1] =
           CreateTable("on_invoice_batches",
                       OnInvoiceBatches,
                       OnInvoiceBatchesReferences)
        /\ CreateOnInvoiceTables.up[2] =
           CreateTable("on_invoice_entries",
                       OnInvoiceEntries,
                       OnInvoiceEntriesReferences)
    BY DEF CreateOnInvoiceTables
  <2>2. /\ gift[2] = "table"
        /\ \/ gift[3] = "on_invoice_batches"
           \/ gift[3] = "on_invoice_entries"
    BY <1>18 DEF Founds
  <2>3. QED
    BY <2>1, <2>2, GrantsTable
<1>19. gift[1] \in {"CreateTenants", "CreateUsers", "CreateCustomers",
                    "CreateBudgetEnvelopes", "CreateBudgetTransactions",
                    "CreateLedgerEntries", "CreateNotifications",
                    "CreateAdminAuditLogs", "CreateAgreements",
                    "CreateApprovalRequests", "CreateAgreementTransactions",
                    "CreateMasterDataEntities", "CreateKpis", "CreatePlans",
                    "UpdateBudgetAllocationStructure",
                    "AddSpendManagementTables",
                    "UpdateLTAAgreementsStructure", "CreateOnInvoiceTables"}
  BY DEF Founds
<1>20. QED
  BY <1>1, <1>2, <1>3, <1>4, <1>5, <1>6, <1>7, <1>8, <1>9, <1>10, <1>11,
     <1>12, <1>13, <1>14, <1>15, <1>16, <1>17, <1>18, <1>19
     DEF Migration

LEMMA BringsBrought ==
  ASSUME NEW gift \in Brings
  PROVE  /\ gift[1] \in DOMAIN Migration
         /\ \E m \in 1..Len(Migration[gift[1]].up) :
              Grants(Migration[gift[1]].up[m], gift)
<1>1. ASSUME gift[1] = "AddNumberOfBranchesToCustomers"
      PROVE  \E m \in 1..Len(AddNumberOfBranchesToCustomers.up) :
               Grants(AddNumberOfBranchesToCustomers.up[m], gift)
  <2>1. /\ Len(AddNumberOfBranchesToCustomers.up) = 1
        /\ AddNumberOfBranchesToCustomers.up[1] =
           AddColumns("customers", {"number_of_branches"})
    BY DEF AddNumberOfBranchesToCustomers
  <2>2. /\ gift[2] = "columns"
        /\ gift[3] = "customers"
        /\ gift[4] = {"number_of_branches"}
    BY <1>1 DEF Brings
  <2>3. QED
    BY <2>1, <2>2, GrantsColumns
<1>2. ASSUME gift[1] = "AddMissingFieldsToAgreements"
      PROVE  \E m \in 1..Len(AddMissingFieldsToAgreements.up) :
               Grants(AddMissingFieldsToAgreements.up[m], gift)
  <2>1. /\ Len(AddMissingFieldsToAgreements.up) = 1
        /\ AddMissingFieldsToAgreements.up[1] =
           AddColumns("agreements",
                      {"description", "category_id", "reconciliation_period",
                       "notes"})
    BY DEF AddMissingFieldsToAgreements
  <2>2. /\ gift[2] = "columns"
        /\ gift[3] = "agreements"
        /\ gift[4] = {"description", "category_id", "reconciliation_period",
                      "notes"}
    BY <1>2 DEF Brings
  <2>3. QED
    BY <2>1, <2>2, GrantsColumns
<1>3. ASSUME gift[1] = "CreateMasterDataEntities"
      PROVE  \E m \in 1..Len(CreateMasterDataEntities.up) :
               Grants(CreateMasterDataEntities.up[m], gift)
  <2>1. /\ Len(CreateMasterDataEntities.up) = 12
        /\ CreateMasterDataEntities.up[11] =
           AddMissingColumns("customers", {}, {"cpl_id"})
    BY DEF CreateMasterDataEntities
  <2>2. /\ gift[2] = "columns"
        /\ gift[3] = "customers"
        /\ gift[4] = {"cpl_id"}
    BY <1>3 DEF Brings
  <2>3. QED
    BY <2>1, <2>2, GrantsColumns
<1>4. ASSUME gift[1] = "UpdateAgreementsMasterDataRelations"
      PROVE  \E m \in 1..Len(UpdateAgreementsMasterDataRelations.up) :
               Grants(UpdateAgreementsMasterDataRelations.up[m], gift)
  <2>1. /\ Len(UpdateAgreementsMasterDataRelations.up) = 5
        /\ UpdateAgreementsMasterDataRelations.up[1] =
           AddMissingColumns("agreements", {}, {"channel_id"})
    BY DEF UpdateAgreementsMasterDataRelations
  <2>2. /\ gift[2] = "columns"
        /\ gift[3] = "agreements"
        /\ gift[4] = {"channel_id"}
    BY <1>4 DEF Brings
  <2>3. QED
    BY <2>1, <2>2, GrantsColumns
<1>5. ASSUME gift[1] = "AddChannelCategoryToBudgetEnvelope"
      PROVE  \E m \in 1..Len(AddChannelCategoryToBudgetEnvelope.up) :
               Grants(AddChannelCategoryToBudgetEnvelope.up[m], gift)
  <2>1. /\ Len(AddChannelCategoryToBudgetEnvelope.up) = 1
        /\ AddChannelCategoryToBudgetEnvelope.up[1] =
           AddMissingColumns("budget_envelopes",
                             {},
                             {"channel", "category", "channel_id",
                              "category_id"})
    BY DEF AddChannelCategoryToBudgetEnvelope
  <2>2. /\ gift[2] = "columns"
        /\ gift[3] = "budget_envelopes"
        /\ gift[4] = {"channel", "category", "channel_id", "category_id"}
    BY <1>5 DEF Brings
  <2>3. QED
    BY <2>1, <2>2, GrantsColumns
<1>6. ASSUME gift[1] = "AddAdditionalParamsToAgreements"
      PROVE  \E m \in 1..Len(AddAdditionalParamsToAgreements.up) :
               Grants(AddAdditionalParamsToAgreements.up[m], gift)
  <2>1. /\ Len(AddAdditionalParamsToAgreements.up) = 1
        /\ AddAdditionalParamsToAgreements.up[1] =
           AddColumns("agreements", {"additional_params", "kpi_results"})
    BY DEF AddAdditionalParamsToAgreements
  <2>2. /\ gift[2] = "columns"
        /\ gift[3] = "agreements"
        /\ gift[4] = {"additional_params", "kpi_results"}
    BY <1>6 DEF Brings
  <2>3. QED
    BY <2>1, <2>2, GrantsColumns
<1>7. ASSUME gift[1] = "UpdateBudgetAllocationStructure"
      PROVE  \E m \in 1..Len(UpdateBudgetAllocationStructure.up) :
               Grants(UpdateBudgetAllocationStructure.up[m], gift)
  <2>1. /\ Len(UpdateBudgetAllocationStructure.up) = 8
        /\ UpdateBudgetAllocationStructure.up[4] =
           AddMissingColumns("budget_allocations",
                             {"period_type", "period_start", "period_end",
                              "fiscal_year"},
                             {"cpl_id", "channel", "category",
                              "on_invoice_budget", "off_invoice_budget",
                              "on_invoice_utilized", "off_invoice_utilized",
                              "on_invoice_reserved", "off_invoice_reserved",
                              "alert_threshold_80", "alert_threshold_95",
                              "alert_threshold_100", "alert_recipients",
                              "hard_limit_mode", "allow_carry_forward"})
        /\ UpdateBudgetAllocationStructure.up[5] =
           AddMissingColumns("budget_allocations",
                             {},
                             {"total_budget", "on_invoice_available",
                              "off_invoice_available"})
    BY DEF UpdateBudgetAllocationStructure
  <2>2. /\ gift[2] = "columns"
        /\ \/ /\ gift[3] = "budget_allocations"
              /\ gift[4] = {"period_type", "period_start", "period_end",
                            "fiscal_year", "cpl_id", "channel", "category",
                            "on_invoice_budget", "off_invoice_budget",
                            "on_invoice_utilized", "off_invoice_utilized",
                            "on_invoice_reserved", "off_invoice_reserved",
                            "alert_threshold_80", "alert_threshold_95",
                            "alert_threshold_100", "alert_recipients",
                            "hard_limit_mode", "allow_carry_forward"}
           \/ /\ gift[3] = "budget_allocations"
              /\ gift[4] = {"total_budget", "on_invoice_available",
                            "off_invoice_available"}
    BY <1>7 DEF Brings
  <2>3. QED
    BY <2>1, <2>2, GrantsColumns
<1>8. ASSUME gift[1] = "AddSpendManagementTables"
      PROVE  \E m \in 1..Len(AddSpendManagementTables.up) :
               Grants(AddSpendManagementTables.up[m], gift)
  <2>1. /\ Len(AddSpendManagementTables.up) = 6
        /\ AddSpendManagementTables.up[1] =
           AddColumns("mechanics",
                      {"spending_type", "calculation_formula",
                       "applicability_rules", "input_constraints"})
        /\ AddSpendManagementTables.up[6] =
           AddColumns("plan_skus",
                      {"base_lta_on_invoice_spend",
                       "base_lta_off_invoice_spend",
                       "planned_lta_on_invoice_spend",
                       "planned_lta_off_invoice_spend",
                       "promo_on_invoice_spend", "promo_off_invoice_spend"})
    BY DEF AddSpendManagementTables
  <2>2. /\ gift[2] = "columns"
        /\ \/ /\ gift[3] = "mechanics"
              /\ gift[4] = {"spending_type", "calculation_formula",
                            "applicability_rules", "input_constraints"}
           \/ /\ gift[3] = "plan_skus"
              /\ gift[4] = {"base_lta_on_invoice_spend",
                            "base_lta_off_invoice_spend",
                            "planned_lta_on_invoice_spend",
                            "planned_lta_off_invoice_spend",
                            "promo_on_invoice_spend",
                            "promo_off_invoice_spend"}
    BY <1>8 DEF Brings
  <2>3. QED
    BY <2>1, <2>2, GrantsColumns
<1>9. ASSUME gift[1] = "AddPromoMechanicsConfig"
      PROVE  \E m \in 1..Len(AddPromoMechanicsConfig.up) :
               Grants(AddPromoMechanicsConfig.up[m], gift)
  <2>1. /\ Len(AddPromoMechanicsConfig.up) = 2
        /\ AddPromoMechanicsConfig.up[1] =
           AddColumns("mechanics",
                      {"category", "input_type", "default_value",
                       "step_increment", "decimal_places", "unit_symbol",
                       "formula_variables", "formula_validation_status",
                       "test_data", "applicable_channels",
                       "applicable_categories", "applicable_cpls",
                       "show_in_grid", "grid_column_order",
                       "grid_column_width", "group_header",
                       "track_against_budget", "budget_type",
                       "requires_approval_threshold", "approval_flow",
                       "mutually_exclusive_with",
                       "max_combined_discount_percentage",
                       "combination_warnings"})
        /\ AddPromoMechanicsConfig.up[2] =
           AddMissingColumns("mechanics", {}, {"exclusion_rules"})
    BY DEF AddPromoMechanicsConfig
  <2>2. /\ gift[2] = "columns"
        /\ \/ /\ gift[3] = "mechanics"
              /\ gift[4] = {"category", "input_type", "default_value",
                            "step_increment", "decimal_places", "unit_symbol",
                            "formula_variables", "formula_validation_status",
                            "test_data", "applicable_channels",
                            "applicable_categories", "applicable_cpls",
                            "show_in_grid", "grid_column_order",
                            "grid_column_width", "group_header",
                            "track_against_budget", "budget_type",
                            "requires_approval_threshold", "approval_flow",
                            "mutually_exclusive_with",
                            "max_combined_discount_percentage",
                            "combination_warnings"}
           \/ /\ gift[3] = "mechanics"
              /\ gift[4] = {"exclusion_rules"}
    BY <1>9 DEF Brings
  <2>3. QED
    BY <2>1, <2>2, GrantsColumns
<1>10. ASSUME gift[1] = "UpdateLTAAgreementsStructure"
      PROVE  \E m \in 1..Len(UpdateLTAAgreementsStructure.up) :
               Grants(UpdateLTAAgreementsStructure.up[m], gift)
  <2>1. /\ Len(UpdateLTAAgreementsStructure.up) = 7
        /\ UpdateLTAAgreementsStructure.up[4] =
           AddMissingColumns("lta_agreements",
                             {"agreement_name", "agreement_code",
                              "effective_date"},
                             {"status", "total_agreement_value", "notes",
                              "expiry_date"})
    BY DEF UpdateLTAAgreementsStructure
  <2>2. /\ gift[2] = "columns"
        /\ gift[3] = "lta_agreements"
        /\ gift[4] = {"agreement_name", "agreement_code", "effective_date",
                      "status", "total_agreement_value", "notes",
                      "expiry_date"}
    BY <1>10 DEF Brings
  <2>3. QED
    BY <2>1, <2>2, GrantsColumns
<1>11. ASSUME gift[1] = "AddApprovalWorkflowFieldsToPlans"
      PROVE  \E m \in 1..Len(AddApprovalWorkflowFieldsToPlans.up) :
               Grants(AddApprovalWorkflowFieldsToPlans.up[m], gift)
  <2>1. /\ Len(AddApprovalWorkflowFieldsToPlans.up) = 4
        /\ AddApprovalWorkflowFieldsToPlans.up[2] =
           AddColumns("plans",
                      {"submission_notes", "submitted_at", "submitted_by",
                       "pending_finance_review", "escalation_reason",
                       "escalated_at", "escalated_by", "on_invoice_spend",
                       "off_invoice_spend"})
    BY DEF AddApprovalWorkflowFieldsToPlans
  <2>2. /\ gift[2] = "columns"
        /\ gift[3] = "plans"
        /\ gift[4] = {"submission_notes", "submitted_at", "submitted_by",
                      "pending_finance_review", "escalation_reason",
                      "escalated_at", "escalated_by", "on_invoice_spend",
                      "off_invoice_spend"}
    BY <1>11 DEF Brings
  <2>3. QED
    BY <2>1, <2>2, GrantsColumns
<1>12. ASSUME gift[1] = "AddFiscalPeriodToAgreementTransaction"
      PROVE  \E m \in 1..Len(AddFiscalPeriodToAgreementTransaction.up) :
               Grants(AddFiscalPeriodToAgreementTransaction.up[m], gift)
  <2>1. /\ Len(AddFiscalPeriodToAgreementTransaction.up) = 1
        /\ AddFiscalPeriodToAgreementTransaction.up[1] =
           AddColumns("agreement_transactions", {"fiscal_period"})
    BY DEF AddFiscalPeriodToAgreementTransaction
  <2>2. /\ gift[2] = "columns"
        /\ gift[3] = "agreement_transactions"
        /\ gift[4] = {"fiscal_period"}
    BY <1>12 DEF Brings
  <2>3. QED
    BY <2>1, <2>2, GrantsColumns
<1>13. ASSUME gift[1] = "AddCalculatedKpisToPlans"
      PROVE  \E m \in 1..Len(AddCalculatedKpisToPlans.up) :
               Grants(AddCalculatedKpisToPlans.up[m], gift)
  <2>1. /\ Len(AddCalculatedKpisToPlans.up) = 2
        /\ AddCalculatedKpisToPlans.up[1] =
           AddColumns("plan_skus", {"calculated_kpis"})
        /\ AddCalculatedKpisToPlans.up[2] =
           AddColumns("plan_fus", {"calculated_kpis"})
    BY DEF AddCalculatedKpisToPlans
  <2>2. /\ gift[2] = "columns"
        /\ \/ /\ gift[3] = "plan_skus"
              /\ gift[4] = {"calculated_kpis"}
           \/ /\ gift[3] = "plan_fus"
              /\ gift[4] = {"calculated_kpis"}
    BY <1>13 DEF Brings
  <2>3. QED
    BY <2>1, <2>2, GrantsColumns
<1>14. gift[1] \in {"AddNumberOfBranchesToCustomers",
                    "AddMissingFieldsToAgreements",
                    "CreateMasterDataEntities",
                    "UpdateAgreementsMasterDataRelations",
                    "AddChannelCategoryToBudgetEnvelope",
                    "AddAdditionalParamsToAgreements",
                    "UpdateBudgetAllocationStructure",
                    "AddSpendManagementTables", "AddPromoMechanicsConfig",
                    "UpdateLTAAgreementsStructure",
                    "AddApprovalWorkflowFieldsToPlans",
                    "AddFiscalPeriodToAgreementTransaction",
                    "AddCalculatedKpisToPlans"}
  BY DEF Brings
<1>15. QED
  BY <1>1, <1>2, <1>3, <1>4, <1>5, <1>6, <1>7, <1>8, <1>9, <1>10, <1>11,
     <1>12, <1>13, <1>14
     DEF Migration

LEMMA EnumsBrought ==
  ASSUME NEW gift \in Enums
  PROVE  /\ gift[1] \in DOMAIN Migration
         /\ \E m \in 1..Len(Migration[gift[1]].up) :
              Grants(Migration[gift[1]].up[m], gift)
<1>1. ASSUME gift[1] = "CreateUsers"
      PROVE  \E m \in 1..Len(CreateUsers.up) :
               Grants(CreateUsers.up[m], gift)
  <2>1. /\ Len(CreateUsers.up) = 2
        /\ CreateUsers.up[1] =
           CreateType("users_role_enum",
                      {"ADMIN", "PLANNER", "APPROVER", "FINANCE"})
    BY DEF CreateUsers
  <2>2. gift[3] = "users_role_enum"
    BY <1>1 DEF Enums
  <2>3. QED
    BY <2>1, <2>2, GrantsType
<1>2. ASSUME gift[1] = "CreateApprovalRequests"
      PROVE  \E m \in 1..Len(CreateApprovalRequests.up) :
               Grants(CreateApprovalRequests.up[m], gift)
  <2>1. /\ Len(CreateApprovalRequests.up) = 3
        /\ CreateApprovalRequests.up[1] =
           CreateType("approval_requests_request_type_enum",
                      {"AGREEMENT", "BUDGET_TRANSFER", "IMPORT_BATCH",
                       "OTHER"})
    BY DEF CreateApprovalRequests
  <2>2. gift[3] = "approval_requests_request_type_enum"
    BY <1>2 DEF Enums
  <2>3. QED
    BY <2>1, <2>2, GrantsType
<1>3. ASSUME gift[1] = "CreatePlans"
      PROVE  \E m \in 1..Len(CreatePlans.up) :
               Grants(CreatePlans.up[m], gift)
  <2>1. /\ Len(CreatePlans.up) = 4
        /\ CreatePlans.up[1] =
           CreateType("plans_plan_status_enum",
                      {"DRAFT", "PENDING_APPROVAL", "APPROVED", "REJECTED"})
    BY DEF CreatePlans
  <2>2. gift[3] = "plans_plan_status_enum"
    BY <1>3 DEF Enums
  <2>3. QED
    BY <2>1, <2>2, GrantsType
<1>4. gift[1] \in {"CreateUsers", "CreateApprovalRequests", "CreatePlans"}
  BY DEF Enums
<1>5. QED
  BY <1>1, <1>2, <1>3, <1>4
     DEF Migration

\* What spares an entity a column: up() takes the column away after it has
\* created the table, or added to it.
LEMMA CompletesSpares ==
  ASSUME NEW gift, gift[2] = "spares", NEW required, NEW columns,
         gift[4] \subseteq columns, NEW tables, NEW references
  PROVE  /\ Completes(DropPresentColumns(gift[3], columns), gift)
         /\ Grants(CreateMissingTable(gift[3], tables, references),
                   Ground(gift))
         /\ Grants(AddMissingColumns(gift[3], required, columns),
                   <<gift[1], "columns", gift[3], {}>>)
<1>1. Completes(DropPresentColumns(gift[3], columns), gift)
  BY DEF Completes, DropPresentColumns
<1>2. PICK ground : ground = Ground(gift)
  OBVIOUS
<1>3. ground[2] = "table" /\ ground[3] = gift[3]
  BY <1>2 DEF Ground
<1>4. Grants(CreateMissingTable(gift[3], tables, references), ground)
  BY <1>3, GrantsTable
<1>5. PICK column : column = <<gift[1], "columns", gift[3], {}>>
  OBVIOUS
<1>6. column[2] = "columns" /\ column[3] = gift[3] /\ column[4] = {}
  BY <1>5
<1>7. Grants(AddMissingColumns(gift[3], required, columns), column)
  BY <1>6, GrantsColumns
<1>8. QED
  BY <1>1, <1>2, <1>4, <1>5, <1>7

LEMMA SparesBrought ==
  ASSUME NEW gift \in Spares
  PROVE  /\ gift[1] \in DOMAIN Migration
         /\ \A s : Brought(s, Migration[gift[1]].up, gift)
<1> DEFINE column == <<gift[1], "columns", gift[3], {}>>
<1>1. ASSUME gift[1] = "UpdateAgreementsMasterDataRelations"
      PROVE  LET up == UpdateAgreementsMasterDataRelations.up
             IN  /\ Len(up) = 5
                 /\ Completes(up[2], gift)
                 /\ Grants(up[1], column)
  <2>1. /\ Len(UpdateAgreementsMasterDataRelations.up) = 5
        /\ UpdateAgreementsMasterDataRelations.up[1] =
           AddMissingColumns("agreements", {}, {"channel_id"})
        /\ UpdateAgreementsMasterDataRelations.up[2] =
           DropPresentColumns("agreements", {"channel"})
    BY DEF UpdateAgreementsMasterDataRelations
  <2>2. /\ gift[2] = "spares"
        /\ gift[3] = "agreements"
        /\ gift[4] = {"channel"}
    BY <1>1 DEF Spares
  <2>3. PICK ground : ground = column
    OBVIOUS
  <2>4. ground[2] = "columns" /\ ground[3] = "agreements" /\ ground[4] = {}
    BY <2>2, <2>3
  <2>5. Grants(AddMissingColumns("agreements", {}, {"channel_id"}), ground)
    BY <2>4, GrantsColumns
  <2>6. Completes(DropPresentColumns("agreements", {"channel"}), gift)
    BY <2>2, CompletesSpares
  <2>7. QED
    BY <2>1, <2>3, <2>5, <2>6
<1>2. ASSUME gift[1] = "UpdateBudgetAllocationStructure"
      PROVE  LET up == UpdateBudgetAllocationStructure.up
             IN  /\ Len(up) = 8
                 /\ Completes(up[3], gift)
                 /\ Grants(up[1], Ground(gift))
  <2>1. /\ Len(UpdateBudgetAllocationStructure.up) = 8
        /\ UpdateBudgetAllocationStructure.up[1] =
           CreateMissingTable("budget_allocations", BudgetAllocations, {})
        /\ UpdateBudgetAllocationStructure.up[3] =
           DropPresentColumns("budget_allocations",
                              {"envelope_id", "alert_thresholds"})
    BY DEF UpdateBudgetAllocationStructure
  <2>2. /\ gift[2] = "spares"
        /\ gift[3] = "budget_allocations"
        /\ gift[4] = {"envelope_id"}
    BY <1>2 DEF Spares
  <2>3. QED
    BY <2>1, <2>2, CompletesSpares
<1>3. ASSUME gift[1] = "UpdateLTAAgreementsStructure"
      PROVE  LET up == UpdateLTAAgreementsStructure.up
             IN  /\ Len(up) = 7
                 /\ Completes(up[3], gift)
                 /\ Grants(up[1], Ground(gift))
  <2>1. /\ Len(UpdateLTAAgreementsStructure.up) = 7
        /\ UpdateLTAAgreementsStructure.up[1] =
           CreateMissingTable("lta_agreements", LtaAgreements, {})
        /\ UpdateLTAAgreementsStructure.up[3] =
           DropPresentColumns("lta_agreements",
                              {"channel_id", "on_invoice_percentage",
                               "off_invoice_percentage", "is_active",
                               "description"})
    BY DEF UpdateLTAAgreementsStructure
  <2>2. /\ gift[2] = "spares"
        /\ gift[3] = "lta_agreements"
        /\ gift[4] = {"channel_id"}
    BY <1>3 DEF Spares
  <2>3. QED
    BY <2>1, <2>2, CompletesSpares
<1>4. /\ gift[2] = "spares"
      /\ gift[1] \in {"UpdateAgreementsMasterDataRelations",
                      "UpdateBudgetAllocationStructure",
                      "UpdateLTAAgreementsStructure"}
  BY DEF Spares
<1>5. PICK up, m : /\ up = Migration[gift[1]].up
                   /\ m \in 2..Len(up)
                   /\ Len(up) \in Nat
                   /\ Completes(up[m], gift)
                   /\ \/ Grants(up[1], Ground(gift))
                      \/ Grants(up[1], column)
  BY <1>1, <1>2, <1>3, <1>4 DEF Migration
<1>6. m \in 1..Len(up) /\ 1 \in 1..(m - 1)
  BY <1>5
<1>7. gift[1] \in DOMAIN Migration
  BY <1>4 DEF Migration
<1> HIDE DEF column
<1>8. \A s : Brought(s, up, gift)
  BY <1>4, <1>5, <1>6 DEF Brought, column
<1>9. QED
  BY <1>5, <1>7, <1>8

\* The labels it adds, where the type is.
LEMMA AddedBrought ==
  ASSUME NEW gift \in Added
  PROVE  /\ gift[1] \in DOMAIN Migration
         /\ \A s : Holds(s, Ground(gift)) =>
              Brought(s, Migration[gift[1]].up, gift)
         /\ gift[1] # "AddPlanToApprovalRequestTypeEnum" =>
              \A s : Brought(s, Migration[gift[1]].up, gift)
<1>1. ASSUME gift[1] = "AddPlanToApprovalRequestTypeEnum"
      PROVE  /\ Len(AddPlanToApprovalRequestTypeEnum.up) = 1
             /\ Completes(AddPlanToApprovalRequestTypeEnum.up[1], gift)
  <2>1. /\ Len(AddPlanToApprovalRequestTypeEnum.up) = 1
        /\ AddPlanToApprovalRequestTypeEnum.up[1] =
           AddLabelsIfPossible("approval_requests_request_type_enum",
             {"PLAN"})
    BY DEF AddPlanToApprovalRequestTypeEnum
  <2>2. /\ gift[2] = "labels"
        /\ gift[3] = "approval_requests_request_type_enum"
        /\ gift[4] = {"PLAN"}
    BY <1>1 DEF Added
  <2>3. QED
    BY <2>1, <2>2, GrantsLabels
<1>2. ASSUME gift[1] = "AddFinanceManagerAndCategoryManagerRoles"
      PROVE  /\ Len(AddFinanceManagerAndCategoryManagerRoles.up) = 1
             /\ Grants(AddFinanceManagerAndCategoryManagerRoles.up[1], gift)
  <2>1. /\ Len(AddFinanceManagerAndCategoryManagerRoles.up) = 1
        /\ AddFinanceManagerAndCategoryManagerRoles.up[1] =
           AddLabels("users_role_enum",
             {"FINANCE_MANAGER", "CATEGORY_MANAGER"})
    BY DEF AddFinanceManagerAndCategoryManagerRoles
  <2>2. /\ gift[2] = "labels"
        /\ gift[3] = "users_role_enum"
        /\ gift[4] = {"FINANCE_MANAGER", "CATEGORY_MANAGER"}
    BY <1>2 DEF Added
  <2>3. QED
    BY <2>1, <2>2, GrantsLabels
<1>3. ASSUME gift[1] = "AddApprovalWorkflowFieldsToPlans"
      PROVE  /\ Len(AddApprovalWorkflowFieldsToPlans.up) = 4
             /\ Grants(AddApprovalWorkflowFieldsToPlans.up[1], gift)
  <2>1. /\ Len(AddApprovalWorkflowFieldsToPlans.up) = 4
        /\ AddApprovalWorkflowFieldsToPlans.up[1] =
           AddLabels("plans_plan_status_enum",
             {"PENDING_FINANCE_REVIEW"})
    BY DEF AddApprovalWorkflowFieldsToPlans
  <2>2. /\ gift[2] = "labels"
        /\ gift[3] = "plans_plan_status_enum"
        /\ gift[4] = {"PENDING_FINANCE_REVIEW"}
    BY <1>3 DEF Added
  <2>3. QED
    BY <2>1, <2>2, GrantsLabels
<1>4. gift[1] \in {"AddPlanToApprovalRequestTypeEnum",
                   "AddFinanceManagerAndCategoryManagerRoles",
                   "AddApprovalWorkflowFieldsToPlans"}
  BY DEF Added
<1>5. PICK up : up = Migration[gift[1]].up
  OBVIOUS
<1>6. /\ Len(up) \in Nat /\ 1 \in 1..Len(up)
      /\ \/ Grants(up[1], gift)
         \/ /\ Completes(up[1], gift)
            /\ gift[1] = "AddPlanToApprovalRequestTypeEnum"
  BY <1>1, <1>2, <1>3, <1>4, <1>5 DEF Migration
<1>7. gift[1] \in DOMAIN Migration
  BY <1>4 DEF Migration
<1>8. QED
  BY <1>5, <1>6, <1>7 DEF Brought

\* The labels that are there only where the type is.
Hopes(gift) == gift[1] = "AddPlanToApprovalRequestTypeEnum"

LEMMA GiftsBrought ==
  ASSUME NEW gift \in Gifts
  PROVE  /\ gift[1] \in DOMAIN Migration
         /\ \A s : (Hopes(gift) => Holds(s, Ground(gift))) =>
              Brought(s, Migration[gift[1]].up, gift)
<1>1. CASE gift \in Founds \cup Brings \cup Enums
  <2>1. /\ gift[1] \in DOMAIN Migration
        /\ \E m \in 1..Len(Migration[gift[1]].up) :
             Grants(Migration[gift[1]].up[m], gift)
    BY <1>1, FoundsBrought, BringsBrought, EnumsBrought
  <2>2. QED
    BY <2>1 DEF Brought
<1>2. CASE gift \in Spares
  BY <1>2, SparesBrought
<1>3. CASE gift \in Added
  BY <1>3, AddedBrought DEF Hopes
<1>4. QED
  BY <1>1, <1>2, <1>3 DEF Gifts

-----------------------------------------------------------------------------
(* The order of the migrations.                                            *)

LEMMA PositionIs ==
  ASSUME NEW n \in 1..Len(Timeline), Timeline[n] \in Names,
         \A m \in 1..Len(Timeline) : Timeline[m] = Timeline[n] => m = n
  PROVE  Position[Timeline[n]] = n
<1>1. PICK name : name = Timeline[n]
  OBVIOUS
<1>2. PICK p : p = CHOOSE m \in 1..Len(Timeline) : Timeline[m] = name
  OBVIOUS
<1>3. p \in 1..Len(Timeline) /\ Timeline[p] = name
  BY <1>1, <1>2
<1>4. Position[name] = p
  BY <1>1, <1>2 DEF Position
<1>5. QED
  BY <1>1, <1>3, <1>4

LEMMA Positions ==
  \A n \in 1..Len(Timeline) : Position[Timeline[n]] = n
<1>1. Len(Timeline) = 33
  BY DEF Timeline
<1>2. \A n \in 1..33 : Timeline[n] \in Names
  <2>1. ASSUME NEW n \in 1..33
        PROVE  Timeline[n] \in Names
    <3>1. n \in 1..Len(Timeline)
      BY <1>1
    <3>2. QED
      BY <3>1, NamesKnown, ElementOfSeq
  <2>2. QED
    BY <2>1
<1>3. \A m, n \in 1..33 : Timeline[m] = Timeline[n] => m = n
  BY DEF Timeline
<1>4. QED
  BY <1>1, <1>2, <1>3, PositionIs

LEMMA NamesPlaced ==
  ASSUME NEW name \in Names
  PROVE  /\ Position[name] \in 1..Len(Timeline)
         /\ Timeline[Position[name]] = name
<1>1. DOMAIN Timeline = 1..Len(Timeline)
  BY NamesKnown
<1>2. PICK n \in 1..Len(Timeline) : Timeline[n] = name
  BY <1>1 DEF Names, Range
<1>3. QED
  BY <1>2, Positions

\* Those upon another migration are younger than it, but for one.
LEMMA UponYounger ==
  ASSUME NEW name \in DOMAIN Upon, NEW other \in Upon[name]
  PROVE  /\ name \in Names \ LookFirst
         /\ \/ Position[name] < Position[other]
            \/ /\ name = "AddSpendManagementTables"
               /\ other = "UpdateBudgetAllocationStructure"
<1>1. name \in Names \ LookFirst
  BY NamesKnown DEF Upon, LookFirst, Migration
<1>2. Len(Timeline) = 33
  BY DEF Timeline
<1>3. PICK m, n \in 1..33 :
        /\ Timeline[m] = name /\ Timeline[n] = other
        /\ \/ m < n
           \/ /\ name = "AddSpendManagementTables"
              /\ other = "UpdateBudgetAllocationStructure"
  BY DEF Upon, Timeline
<1>4. QED
  BY <1>1, <1>2, <1>3, Positions

-----------------------------------------------------------------------------
(* The history and the gifts.                                              *)

\* Every gift of the first k names of the history is there.
Given(s, names, k) ==
  \A gift \in Gifts :
    (\E n \in 1..k : names[n] = gift[1]) => Holds(s, gift)

LEMMA HopesGround ==
  ASSUME NEW gift \in Gifts, Hopes(gift)
  PROVE  \E other \in Gifts : /\ other[1] = "CreateApprovalRequests"
                              /\ other[2] = "labels"
                              /\ other[3] = gift[3]
                              /\ gift[2] = "labels"
<1>1. gift \in Added
  <2>1. \A other \in Founds : other[1] # "AddPlanToApprovalRequestTypeEnum"
    BY DEF Founds
  <2>2. \A other \in Brings \cup Spares \cup Enums :
          other[1] # "AddPlanToApprovalRequestTypeEnum"
    BY DEF Brings, Spares, Enums
  <2>3. QED
    BY <2>1, <2>2 DEF Hopes, Gifts
<1>2. /\ gift[2] = "labels"
      /\ gift[3] = "approval_requests_request_type_enum"
  BY <1>1 DEF Added, Hopes
<1>3. \E other \in Enums : /\ other[1] = "CreateApprovalRequests"
                           /\ other[2] = "labels"
                           /\ other[3] = "approval_requests_request_type_enum"
  BY DEF Enums
<1>4. QED
  BY <1>2, <1>3 DEF Gifts

LEMMA MeetingSuits ==
  ASSUME NEW statements, NEW taken, AllMeet(statements, taken)
  PROVE  /\ AllSuit(statements)
         /\ AllWellFormed(statements)
         /\ \A gift \in Gifts : gift[1] \notin taken =>
              \A n \in 1..Len(statements) : ~Takes(statements[n], gift)
<1>1. AllSuit(statements)
  BY DEF AllMeet, Meets, AllSuit
<1>2. QED
  BY <1>1, SuitWellFormed DEF AllMeet, Meets

LEMMA GivenUp ==
  ASSUME NEW s, Sound(s), Shape(s), NEW names, NEW k \in Nat,
         Given(s, names, k), names[k + 1] \in DOMAIN Migration,
         Execute(s, Migration[names[k + 1]].up).ok,
         names[k + 1] = "AddPlanToApprovalRequestTypeEnum" =>
           \E n \in 1..k : names[n] = "CreateApprovalRequests"
  PROVE  LET t == Execute(s, Migration[names[k + 1]].up)
         IN  Shape(t) /\ Given(t, names, k + 1)
<1>1. PICK name, up : name = names[k + 1] /\ up = Migration[name].up
  OBVIOUS
<1>2. PICK t : t = Execute(s, up)
  OBVIOUS
<1>3. AllMeet(up, {})
  BY <1>1, MigrationsMeet DEF Meeting
<1>4. /\ AllSuit(up) /\ AllWellFormed(up)
      /\ \A gift \in Gifts : \A n \in 1..Len(up) : ~Takes(up[n], gift)
  BY <1>3, MeetingSuits
<1>5. Shape(t)
  BY <1>1, <1>2, <1>4, ExecuteShape
<1>6. ASSUME NEW gift \in Gifts, NEW n \in 1..k, names[n] = gift[1]
      PROVE  Holds(t, gift)
  <2>1. Holds(s, gift)
    BY <1>6 DEF Given
  <2>2. QED
    BY <1>2, <1>4, <2>1, ExecuteHolds
<1>7. ASSUME NEW gift \in Gifts, name = gift[1]
      PROVE  Holds(t, gift)
  <2>1. Hopes(gift) => Holds(s, Ground(gift))
    <3>1. SUFFICES ASSUME Hopes(gift)
                   PROVE  Holds(s, Ground(gift))
      OBVIOUS
    <3>2. PICK other \in Gifts : /\ other[1] = "CreateApprovalRequests"
                                 /\ other[2] = "labels"
                                 /\ other[3] = gift[3]
                                 /\ gift[2] = "labels"
      BY <3>1, HopesGround
    <3>3. Holds(s, other)
      BY <1>1, <1>7, <3>1, <3>2 DEF Given, Hopes
    <3>4. gift[3] \in DOMAIN s.labels
      BY <3>2, <3>3 DEF Holds
    <3>5. PICK ground : ground = Ground(gift)
      OBVIOUS
    <3>6. ground[2] = "labels" /\ ground[3] = gift[3] /\ ground[4] = {}
      BY <3>2, <3>5 DEF Ground
    <3>7. QED
      BY <3>4, <3>5, <3>6 DEF Holds
  <2>2. Brought(s, up, gift)
    BY <1>1, <1>7, <2>1, GiftsBrought
  <2>3. QED
    BY <1>1, <1>2, <1>4, <2>2, ExecuteGives
<1>8. \A n \in 1..(k + 1) : n \in 1..k \/ n = k + 1
  OBVIOUS
<1>9. Given(t, names, k + 1)
  BY <1>1, <1>6, <1>7, <1>8 DEF Given
<1>10. QED
  BY <1>1, <1>2, <1>5, <1>9

\* The migrations that are older and do not look first.
Earlier(name) ==
  {other \in Names \ LookFirst : Position[other] < Position[name]}

\* Those come before it.
InOrder(names) ==
  \A n \in 1..Len(names) : \A other \in Earlier(names[n]) :
    \E m \in 1..(n - 1) : names[m] = other

LEMMA ApprovalsEarlier ==
  "CreateApprovalRequests" \in Earlier("AddPlanToApprovalRequestTypeEnum")
<1>1. PICK name, other : /\ name = "CreateApprovalRequests"
                         /\ other = "AddPlanToApprovalRequestTypeEnum"
  OBVIOUS
<1>2. name \in DOMAIN Upon /\ other \in Upon[name]
  BY <1>1 DEF Upon
<1>3. name # "AddSpendManagementTables"
  BY <1>1
<1>4. QED
  BY <1>1, <1>2, <1>3, UponYounger DEF Earlier

LEMMA AfterGiven ==
  ASSUME Sound(schema), Shape(schema), history \in Seq(Names),
         NEW names \in Seq(Names), Given(schema, history, Len(history)),
         InOrder(history \o names), After(names).ok
  PROVE  /\ Shape(After(names))
         /\ Given(After(names), history \o names, Len(history \o names))
<1>1. PICK f : Passage(f, names)
  BY AfterPassage
<1>2. PICK g, L, K : /\ g = history \o names
                     /\ L = Len(history)
                     /\ K = Len(names)
  OBVIOUS
<1>3. /\ L \in Nat /\ K \in Nat /\ Len(g) = L + K
      /\ \A n \in 1..L : g[n] = history[n]
      /\ \A n \in 1..K : g[L + n] = names[n]
  BY <1>2, ConcatProperties
<1>4. Given(schema, g, L)
  BY <1>2, <1>3 DEF Given
<1> DEFINE F == {n \in 0..K : ~(Shape(f[n]) /\ Given(f[n], g, L + n))}
<1>5. F = {}
  <2>1. SUFFICES ASSUME F # {} PROVE FALSE
    OBVIOUS
  <2>2. F \in SUBSET Nat
    OBVIOUS
  <2>3. PICK n \in F : n = 0 \/ n - 1 \in Nat \ F
    <3> HIDE DEF F
    <3>1. QED
      BY <2>1, <2>2, Smallest
  <2>4. n # 0
    <3>1. f[0] = schema /\ L + 0 = L
      BY <1>1, <1>3 DEF Passage
    <3>2. QED
      BY <1>4, <2>3, <3>1
  <2>5. /\ n \in 1..K
        /\ Shape(f[n - 1]) /\ Given(f[n - 1], g, L + (n - 1))
    BY <1>3, <2>3, <2>4
  <2>6. PICK k \in Nat : k = L + (n - 1) /\ k + 1 = L + n
    BY <1>3, <2>5
  <2>7. g[k + 1] = names[n] /\ names[n] \in DOMAIN Migration
    BY <1>2, <1>3, <2>5, <2>6, NamesKnown
  <2>8. PICK t : /\ t = Execute(f[n - 1], Migration[g[k + 1]].up)
                 /\ f[n] = t
                 /\ t.ok
                 /\ Sound(f[n - 1])
    BY <1>1, <1>2, <1>3, <2>5, <2>7 DEF Passage
  <2>9. g[k + 1] = "AddPlanToApprovalRequestTypeEnum" =>
          \E m \in 1..k : g[m] = "CreateApprovalRequests"
    <3>1. k + 1 \in 1..Len(g) /\ (k + 1) - 1 = k
      BY <1>3, <2>5, <2>6
    <3>2. QED
      BY <1>2, <3>1, ApprovalsEarlier DEF InOrder
  <2>10. Shape(t) /\ Given(t, g, k + 1)
    BY <2>5, <2>6, <2>7, <2>8, <2>9, GivenUp
  <2>11. QED
    BY <2>3, <2>6, <2>8, <2>10
<1>6. QED
  <2>1. K \in 0..K
    BY <1>3
  <2>2. Shape(f[K]) /\ Given(f[K], g, L + K)
    BY <1>5, <2>1
  <2>3. QED
    BY <1>1, <1>2, <1>3, <2>2 DEF Passage

\* down() of AddSpendManagementTables is refused while there are logs.
LEMMA LogsRefuse ==
  ASSUME NEW s, Sound(s), Shape(s), Exists(s, Logs)
  PROVE  ~Execute(s, AddSpendManagementTables.down).ok
<1>1. PICK down : down = AddSpendManagementTables.down
  OBVIOUS
<1>2. SUFFICES ASSUME Execute(s, down).ok
               PROVE  FALSE
  BY <1>1
<1>3. PICK spend : /\ Len(down) = 6
                   /\ down[1] = DropColumns("plan_skus", spend)
                   /\ down[2] = DropTable("budget_allocations")
  BY <1>1 DEF AddSpendManagementTables
<1>4. AllWellFormed(down)
  <2>1. "AddSpendManagementTables" \in DOMAIN Migration
    BY DEF Migration
  <2>2. Migration["AddSpendManagementTables"] = AddSpendManagementTables
    BY DEF Migration
  <2>3. QED
    BY <1>1, <2>1, <2>2, MigrationsWellFormed
<1>5. PICK f : Course(f, s, down)
  BY <1>4, ExecuteCourse
<1>6. 1 \in 1..Len(down) /\ 2 \in 1..Len(down) /\ 1 \in 0..Len(down)
  BY <1>3
<1>7. /\ f[1] = Effect(s, down[1])
      /\ f[2] = Effect(f[1], down[2]) /\ f[2].ok
  <2>1. f[1] = Effect(f[1 - 1], down[1]) /\ f[2] = Effect(f[2 - 1], down[2])
    BY <1>2, <1>4, <1>5, <1>6, CourseOk
  <2>2. f[2].ok
    BY <1>2, <1>4, <1>5, <1>6, CourseOk
  <2>3. QED
    BY <1>5, <2>1, <2>2 DEF Course
<1>8. LogReference \in f[1].references
  <2>1. LogReference \in s.references /\ LogReference[1] = Logs
    BY DEF Shape, LogReference
  <2>2. ~Unrefers(down[1], Logs)
    BY <1>3 DEF Unrefers, Drops, DropColumns, Logs
  <2>3. WellFormed(down[1])
    BY <1>4, <1>6 DEF AllWellFormed
  <2>4. QED
    BY <1>7, <2>1, <2>2, <2>3, EffectRefers
<1>9. f[2] = WithoutTable(f[1], "budget_allocations")
  <2>1. PICK drop : drop = DropTable("budget_allocations")
    OBVIOUS
  <2>2. drop.do = "drop table" /\ drop.table = "budget_allocations"
    BY <2>1 DEF DropTable
  <2>3. Effect(f[1], drop) = WithoutTable(f[1], drop.table)
    BY <2>2 DEF Effect
  <2>4. down[2] = drop
    BY <1>3, <2>1
  <2>5. QED
    BY <1>7, <2>2, <2>3, <2>4
<1>10. LogReference[3] = "budget_allocations"
       /\ LogReference[1] # "budget_allocations"
  BY DEF LogReference, Logs
<1>11. [f[1] EXCEPT !.ok = FALSE].ok = FALSE
  <2>1. Sound(f[1])
    BY <1>5, <1>6 DEF Course
  <2>2. QED
    BY <2>1, Fields
<1>12. QED
  BY <1>7, <1>8, <1>9, <1>10, <1>11 DEF WithoutTable, If

\* Of what the reverted migration takes away nothing is recorded any more.
LEMMA RevertGiven ==
  ASSUME Sound(schema), Shape(schema), history \in Seq(Names),
         history # <<>>, Recorded(schema, history, Len(history)),
         Given(schema, history, Len(history)), InOrder(history),
         BeforeLast.ok,
         NEW kept, kept = Kept(history, Names \ {Last(history)})
  PROVE  /\ Shape(BeforeLast)
         /\ Given(BeforeLast, kept, Len(kept))
         /\ InOrder(kept)
<1>1. PICK L, last, t : /\ L = Len(history) /\ last = Last(history)
                        /\ t = BeforeLast
  OBVIOUS
<1>2. L \in Nat \ {0}
  BY <1>1, EmptySeq
<1>3. L \in 1..L /\ last = history[L] /\ last \in DOMAIN Migration
  <2>1. L \in 1..L /\ last = history[L]
    BY <1>1, <1>2 DEF Last
  <2>2. QED
    BY <1>1, <2>1, NamesKnown
<1>4. PICK down : /\ down = Migration[last].down
                  /\ t = Execute(schema, down) /\ t.ok
  BY <1>1 DEF BeforeLast
<1>5. /\ AllSuit(down) /\ AllWellFormed(down)
      /\ \A gift \in Gifts : gift[1] \notin Taken(last) =>
           \A n \in 1..Len(down) : ~Takes(down[n], gift)
  <2>1. AllMeet(down, Taken(last))
    BY <1>3, <1>4, MigrationsMeet DEF Meeting
  <2>2. QED
    BY <2>1, MeetingSuits
<1>6. Shape(t)
  BY <1>4, <1>5, ExecuteShape
<1>7. PICK e : Embeds(e, kept, history, Names \ {last}, L)
  BY <1>1, KeptEmbeds
<1>8. \A i \in 1..Len(kept) :
        /\ e[i] \in 1..L /\ kept[i] = history[e[i]] /\ kept[i] # last
  BY <1>7 DEF Embeds
<1>9. last \notin LookFirst => \A m \in 1..L : history[m] = last => m = L
  BY <1>1, <1>3 DEF Recorded
<1>10. \A i \in 1..Len(kept) : \A other \in Earlier(kept[i]) :
         \E m \in 1..L : m < e[i] /\ history[m] = other /\ other # last
  <2>1. SUFFICES ASSUME NEW i \in 1..Len(kept),
                        NEW other \in Earlier(kept[i])
                 PROVE  \E m \in 1..L :
                          m < e[i] /\ history[m] = other /\ other # last
    OBVIOUS
  <2>2. e[i] \in 1..L /\ history[e[i]] = kept[i]
    BY <1>8
  <2>3. PICK m \in 1..(e[i] - 1) : history[m] = other
    BY <1>1, <2>2 DEF InOrder
  <2>4. m \in 1..L /\ m < e[i] /\ m # L
    BY <1>2, <2>2, <2>3
  <2>5. other \notin LookFirst
    BY DEF Earlier
  <2>6. QED
    BY <1>9, <2>3, <2>4, <2>5
<1>11. \A i \in 1..Len(kept) : kept[i] \notin Taken(last)
  <2>1. SUFFICES ASSUME NEW i \in 1..Len(kept), last \in DOMAIN Upon,
                        kept[i] \in Upon[last]
                 PROVE  FALSE
    BY <1>8 DEF Taken
  <2>2. last \in Names \ LookFirst
    BY <2>1, UponYounger
  <2>3. CASE Position[last] < Position[kept[i]]
    BY <1>10, <2>2, <2>3 DEF Earlier
  <2>4. CASE /\ last = "AddSpendManagementTables"
             /\ kept[i] = "UpdateBudgetAllocationStructure"
    <3>1. PICK gift \in Founds : /\ gift[1] = kept[i]
                                 /\ gift[2] = "table"
                                 /\ gift[3] = Logs
      <4>1. <<"UpdateBudgetAllocationStructure", "table",
              "budget_transaction_logs", {}>> \in Founds
        BY DEF Founds
      <4>2. QED
        BY <2>4, <4>1 DEF Logs
    <3>2. Holds(schema, gift)
      <4>1. gift \in Gifts
        BY DEF Gifts
      <4>2. PICK n \in 1..L : history[n] = gift[1]
        BY <1>8, <3>1
      <4>3. QED
        BY <1>1, <4>1, <4>2 DEF Given
    <3>3. Exists(schema, Logs)
      BY <3>1, <3>2 DEF Holds
    <3>4. Migration["AddSpendManagementTables"] = AddSpendManagementTables
      BY DEF Migration
    <3>5. QED
      BY <1>4, <2>4, <3>3, <3>4, LogsRefuse
  <2>5. QED
    BY <2>1, <2>3, <2>4, UponYounger
<1>12. Given(t, kept, Len(kept))
  <2>1. SUFFICES ASSUME NEW gift \in Gifts, NEW i \in 1..Len(kept),
                        kept[i] = gift[1]
                 PROVE  Holds(t, gift)
    BY DEF Given
  <2>2. Holds(schema, gift)
    <3>1. PICK n \in 1..L : history[n] = gift[1]
      BY <1>8, <2>1
    <3>2. QED
      BY <1>1, <3>1 DEF Given
  <2>3. QED
    BY <1>4, <1>5, <1>11, <2>1, <2>2, ExecuteHolds
<1>13. InOrder(kept)
  <2>1. SUFFICES ASSUME NEW n \in 1..Len(kept), NEW other \in Earlier(kept[n])
                 PROVE  \E i \in 1..(n - 1) : kept[i] = other
    BY DEF InOrder
  <2>2. PICK m \in 1..L : m < e[n] /\ history[m] = other /\ other # last
    BY <1>10
  <2>3. history[m] \in Names \ {last}
    BY <1>1, <2>2
  <2>4. PICK i \in 1..Len(kept) : e[i] = m
    BY <1>7, <2>3 DEF Embeds
  <2>5. kept[i] = other
    BY <1>8, <2>2, <2>4
  <2>6. ~(n < i) /\ n # i
    <3>1. n < i => e[n] < e[i]
      BY <1>7 DEF Embeds
    <3>2. e[n] \in 1..L /\ e[i] \in 1..L
      BY <1>8
    <3>3. QED
      BY <2>2, <2>4, <3>1, <3>2
  <2>7. i \in 1..(n - 1)
    BY <2>6
  <2>8. QED
    BY <2>5, <2>7
<1>14. QED
  BY <1>1, <1>6, <1>12, <1>13

\* Rows change no table and no label.
LEMMA InsertGiven ==
  ASSUME Inv, Shape(schema), Given(schema, history, Len(history)),
         NEW table, Insert(table)
  PROVE  Shape(schema') /\ Given(schema', history', Len(history'))
<1>1. PICK nulls \in SUBSET (ColumnsOf(schema, table)
                               \ schema.tables[table].required) :
        schema' = [schema EXCEPT !.rows = @ \cup {table},
                                 !.nulls = @ \cup ({table} \X nulls)]
  BY DEF Insert
<1>2. /\ schema'.tables = schema.tables
      /\ schema'.labels = schema.labels
      /\ schema'.references = schema.references
  BY <1>1, Fields DEF Inv
<1>3. history' = history
  BY DEF Insert
<1>4. \A other : /\ Exists(schema', other) <=> Exists(schema, other)
                 /\ ColumnsOf(schema', other) = ColumnsOf(schema, other)
                 /\ RequiredOf(schema', other) = RequiredOf(schema, other)
  BY <1>2 DEF ColumnsOf, RequiredOf, Exists
<1>5. Shape(schema')
  BY <1>2, <1>4 DEF Shape
<1>6. \A gift : Holds(schema, gift) => Holds(schema', gift)
  BY <1>2, <1>4 DEF Holds
<1>7. QED
  BY <1>3, <1>5, <1>6 DEF Given

-----------------------------------------------------------------------------
(* What is released and what a run finds pending are in the same order.    *)

Ordered ==
  /\ \A name \in released : Earlier(name) \subseteq released
  /\ InOrder(history)
  /\ \A r \in Runners : InOrder(history \o runners[r])

Served ==
  /\ Told
  /\ Shape(schema)
  /\ Given(schema, history, Len(history))
  /\ Ordered

\* What comes before a name of b is in a, or before it in b.
Follows(a, b) ==
  \A n \in 1..Len(b) : \A other \in Earlier(b[n]) :
    \/ \E m \in 1..Len(a) : a[m] = other
    \/ \E m \in 1..(n - 1) : b[m] = other

LEMMA InOrderIs ==
  ASSUME NEW a \in Seq(Names), NEW b \in Seq(Names)
  PROVE  InOrder(a \o b) <=> InOrder(a) /\ Follows(a, b)
<1>1. PICK g, L, K : g = a \o b /\ L = Len(a) /\ K = Len(b)
  OBVIOUS
<1>2. /\ L \in Nat /\ K \in Nat /\ Len(g) = L + K
      /\ \A n \in 1..L : g[n] = a[n]
      /\ \A n \in 1..K : g[L + n] = b[n]
  BY <1>1, ConcatProperties
<1>3. ASSUME InOrder(g)
      PROVE  InOrder(a)
  <2>1. SUFFICES ASSUME NEW n \in 1..L, NEW other \in Earlier(a[n])
                 PROVE  \E m \in 1..(n - 1) : a[m] = other
    BY <1>1 DEF InOrder
  <2>2. n \in 1..Len(g) /\ g[n] = a[n]
    BY <1>2
  <2>3. PICK m \in 1..(n - 1) : g[m] = other
    BY <1>3, <2>1, <2>2 DEF InOrder
  <2>4. m \in 1..L
    BY <1>2, <2>3
  <2>5. QED
    BY <1>2, <2>3, <2>4
<1>4. ASSUME InOrder(g), NEW n \in 1..K, NEW other \in Earlier(b[n])
      PROVE  \/ \E m \in 1..L : a[m] = other
             \/ \E m \in 1..(n - 1) : b[m] = other
  <2>1. PICK k \in 1..Len(g) : k = L + n /\ g[k] = b[n]
    BY <1>2
  <2>2. PICK m \in 1..(k - 1) : g[m] = other
    BY <1>4, <2>1 DEF InOrder
  <2>3. CASE m \in 1..L
    BY <1>2, <2>2, <2>3
  <2>4. CASE m \notin 1..L
    <3>1. PICK i : i = m - L
      OBVIOUS
    <3>2. i \in 1..(n - 1) /\ i \in 1..K /\ m = L + i
      BY <1>2, <2>1, <2>2, <2>4, <3>1
    <3>3. QED
      BY <1>2, <2>2, <3>2
  <2>5. QED
    BY <2>3, <2>4
<1>5. ASSUME InOrder(a),
             Follows(a, b)
      PROVE  InOrder(g)
  <2>1. SUFFICES ASSUME NEW n \in 1..Len(g), NEW other \in Earlier(g[n])
                 PROVE  \E m \in 1..(n - 1) : g[m] = other
    BY DEF InOrder
  <2>2. CASE n \in 1..L
    <3>1. PICK m \in 1..(n - 1) : a[m] = other
      BY <1>1, <1>2, <1>5, <2>1, <2>2 DEF InOrder
    <3>2. m \in 1..L
      BY <1>2, <2>2, <3>1
    <3>3. QED
      BY <1>2, <3>1, <3>2
  <2>3. CASE n \notin 1..L
    <3>1. PICK k : k = n - L
      OBVIOUS
    <3>2. k \in 1..K /\ n = L + k /\ g[n] = b[k]
      BY <1>2, <2>3, <3>1
    <3>3. CASE \E m \in 1..L : a[m] = other
      <4>1. PICK m \in 1..L : a[m] = other
        BY <3>3
      <4>2. m \in 1..(n - 1) /\ g[m] = other
        BY <1>2, <3>2, <4>1
      <4>3. QED
        BY <4>2
    <3>4. CASE \E m \in 1..(k - 1) : b[m] = other
      <4>1. PICK m \in 1..(k - 1) : b[m] = other
        BY <3>4
      <4>2. m \in 1..K /\ L + m \in 1..(n - 1)
        BY <1>2, <3>2, <4>1
      <4>3. g[L + m] = other
        BY <1>2, <4>1, <4>2
      <4>4. QED
        BY <4>2, <4>3
    <3>5. \/ \E m \in 1..L : a[m] = other
          \/ \E m \in 1..(k - 1) : b[m] = other
      BY <1>1, <1>5, <2>1, <3>2 DEF Follows
    <3>6. QED
      BY <3>3, <3>4, <3>5
  <2>4. QED
    BY <2>2, <2>3
<1>6. InOrder(g) => Follows(a, b)
  BY <1>1, <1>4 DEF Follows
<1>7. InOrder(a) /\ Follows(a, b) => InOrder(g)
  BY <1>1, <1>5 DEF Follows
<1>8. QED
  BY <1>1, <1>3, <1>6, <1>7

LEMMA InOrderEmpty ==
  ASSUME NEW a \in Seq(Names)
  PROVE  a \o <<>> = a
BY ConcatEmptySeq

\* Two runs that are both in order after the history are in order after one
\* another.
LEMMA InOrderAfter ==
  ASSUME NEW a \in Seq(Names), NEW b \in Seq(Names), NEW c \in Seq(Names),
         InOrder(a \o b), InOrder(a \o c)
  PROVE  InOrder((a \o b) \o c)
<1>1. PICK g : g = a \o b
  OBVIOUS
<1>2. /\ g \in Seq(Names)
      /\ Len(g) = Len(a) + Len(b)
      /\ \A n \in 1..Len(a) : g[n] = a[n]
  BY <1>1, ConcatProperties
<1>3. \A m \in 1..Len(a) : m \in 1..Len(g)
  BY <1>2, LenProperties
<1>4. InOrder(g) /\ Follows(a, c)
  BY <1>1, InOrderIs
<1>5. Follows(g, c)
  <2>1. SUFFICES ASSUME NEW n \in 1..Len(c), NEW other \in Earlier(c[n])
                 PROVE  \/ \E m \in 1..Len(g) : g[m] = other
                        \/ \E m \in 1..(n - 1) : c[m] = other
    BY DEF Follows
  <2>2. \/ \E m \in 1..Len(a) : a[m] = other
        \/ \E m \in 1..(n - 1) : c[m] = other
    BY <1>4 DEF Follows
  <2>3. QED
    BY <1>2, <1>3, <2>2
<1>6. QED
  BY <1>1, <1>2, <1>4, <1>5, InOrderIs

\* What a run finds pending is in order after the history.
LEMMA PendingInOrder ==
  ASSUME Inv, Ordered
  PROVE  InOrder(history \o Pending)
<1>1. /\ history \in Seq(Names) /\ Pending \in Seq(Names)
      /\ released \subseteq Names
  BY PendingReleased, SeqMonotonic DEF Inv
<1>2. PICK p, T, left : /\ p = Pending
                        /\ T = Len(Timeline)
                        /\ left = released \ Range(history)
  OBVIOUS
<1>3. PICK e : Embeds(e, p, Timeline, left, T)
  BY <1>2, NamesKnown, KeptEmbeds DEF Pending
<1>4. \A i \in 1..Len(p) :
        e[i] \in 1..T /\ p[i] = Timeline[e[i]] /\ p[i] \in left
  BY <1>3 DEF Embeds
<1>5. Follows(history, p)
  <2>1. SUFFICES ASSUME NEW n \in 1..Len(p), NEW other \in Earlier(p[n]),
                        ~ \E m \in 1..Len(history) : history[m] = other
                 PROVE  \E m \in 1..(n - 1) : p[m] = other
    BY DEF Follows
  <2>2. p[n] \in released /\ p[n] \in Names
    BY <1>1, <1>2, <1>4
  <2>3. other \in released /\ other \in Names
    BY <2>2 DEF Earlier, Ordered
  <2>4. DOMAIN history = 1..Len(history)
    BY <1>1, LenProperties
  <2>5. other \in left
    BY <1>2, <2>1, <2>3, <2>4 DEF Range
  <2>6. PICK k \in 1..T : k = Position[other] /\ Timeline[k] = other
    BY <1>2, <2>3, NamesPlaced
  <2>7. PICK m \in 1..Len(p) : e[m] = k
    BY <1>3, <2>5, <2>6 DEF Embeds
  <2>8. p[m] = other
    BY <1>4, <2>6, <2>7
  <2>9. e[n] = Position[p[n]]
    BY <1>2, <1>4, Positions
  <2>10. e[m] < e[n]
    BY <2>6, <2>7, <2>9 DEF Earlier
  <2>11. ~(n < m) /\ n # m
    <3>1. n < m => e[n] < e[m]
      BY <1>3 DEF Embeds
    <3>2. e[n] \in 1..T /\ e[m] \in 1..T
      BY <1>4
    <3>3. QED
      BY <1>2, <2>10, <3>1, <3>2
  <2>12. m \in 1..(n - 1)
    BY <2>11
  <2>13. QED
    BY <2>8, <2>12
<1>6. QED
  BY <1>1, <1>2, <1>5, InOrderIs DEF Ordered

LEMMA InitServed ==
  ASSUME Init
  PROVE  Served
<1>1. history = <<>> /\ Len(history) = 0
  BY EmptySeq DEF Init
<1>2. /\ \A table : ~Exists(schema, table)
      /\ DOMAIN schema.labels = {}
  BY DEF Init, EmptySchema, Exists
<1>3. Shape(schema)
  BY <1>2 DEF Shape
<1>4. Given(schema, history, Len(history)) /\ InOrder(history)
  BY <1>1 DEF Given, InOrder
<1>5. \A r \in Runners : InOrder(history \o runners[r])
  <2>1. history \in Seq(Names)
    BY <1>1, EmptySeq
  <2>2. \A r \in Runners : history \o runners[r] = history
    BY <2>1, InOrderEmpty DEF Init
  <2>3. QED
    BY <1>4, <2>2
<1>6. \A name \in released : Earlier(name) \subseteq released
  BY MigrationAssumption, OrderAssumption DEF Init, Earlier
<1>7. QED
  BY <1>3, <1>4, <1>5, <1>6, InitTold DEF Served, Ordered

LEMMA NextOrdered ==
  ASSUME Told, Ordered, [Next]_vars,
         Revert => InOrder(history')
  PROVE  Ordered'
<1>1. /\ history \in Seq(Names)
      /\ \A r \in Runners : runners[r] \in Seq(Names)
      /\ runners \in [Runners -> Seq(released)]
      /\ history \o <<>> = history
  BY SeqMonotonic, InOrderEmpty DEF Told, Inv
<1>2. ASSUME NEW name \in Names, Release(name)
      PROVE  Ordered'
  <2>1. Earlier(name) \subseteq released
    BY <1>2, OrderAssumption DEF Release, Earlier
  <2>2. \A other \in released' : Earlier(other) \subseteq released'
    BY <1>2, <2>1 DEF Release, Ordered
  <2>3. QED
    BY <1>2, <2>2 DEF Release, Ordered, InOrder, Earlier
<1>3. ASSUME NEW r \in Runners, Start(r)
      PROVE  Ordered'
  <2>1. InOrder(history \o Pending)
    BY PendingInOrder DEF Told
  <2>2. \A other \in Runners : InOrder(history \o runners'[other])
    BY <1>1, <1>3, <2>1 DEF Start, Ordered
  <2>3. QED
    BY <1>3, <2>2 DEF Start, Ordered
<1>4. ASSUME NEW r \in Runners, Apply(r)
      PROVE  Ordered'
  <2>1. InOrder(history')
    BY <1>4 DEF Apply, Ordered
  <2>2. history' \in Seq(Names) /\ history' \o <<>> = history'
    BY <1>1, <1>4, ConcatProperties, InOrderEmpty DEF Apply
  <2>3. \A other \in Runners : InOrder(history' \o runners[other])
    BY <1>1, <1>4, InOrderAfter DEF Apply, Ordered
  <2>4. \A other \in Runners : InOrder(history' \o runners'[other])
    BY <1>1, <1>4, <2>1, <2>2, <2>3 DEF Apply
  <2>5. QED
    BY <1>4, <2>1, <2>4 DEF Apply, Ordered
<1>5. ASSUME NEW r \in Runners, Rollback(r)
      PROVE  Ordered'
  <2>1. \A other \in Runners : InOrder(history \o runners'[other])
    BY <1>1, <1>5 DEF Rollback, Ordered
  <2>2. QED
    BY <1>5, <2>1 DEF Rollback, Ordered
<1>6. ASSUME Revert
      PROVE  Ordered'
  <2>1. history' \in Seq(Names \cap (Names \ {Last(history)}))
    BY <1>1, <1>6, KeptSequence DEF Revert
  <2>2. history' \o <<>> = history'
    BY <2>1, SeqMonotonic, InOrderEmpty
  <2>3. \A r \in Runners : InOrder(history' \o runners'[r])
    BY <1>6, <2>2 DEF Revert, Quiet
  <2>4. QED
    BY <1>6, <2>3 DEF Revert, Ordered
<1>7. ASSUME UNCHANGED <<released, history, runners>>
      PROVE  Ordered'
  BY <1>7 DEF Ordered
<1>8. ASSUME NEW table \in Populated, Insert(table)
      PROVE  Ordered'
  BY <1>7, <1>8 DEF Insert
<1>9. CASE UNCHANGED vars
  BY <1>7, <1>9 DEF vars
<1>10. QED
  BY <1>2, <1>3, <1>4, <1>5, <1>6, <1>8, <1>9 DEF Next

LEMMA NextServed ==
  ASSUME Served, [Next]_vars
  PROVE  Served'
<1>1. /\ Told /\ Inv /\ Sound(schema) /\ Ordered
      /\ Shape(schema) /\ Given(schema, history, Len(history))
      /\ Recorded(schema, history, Len(history))
  BY DEF Served, Told, Inv
<1>2. Told'
  BY <1>1, NextTold
<1>3. history \in Seq(Names)
  BY <1>1, SeqMonotonic DEF Inv
<1>4. ASSUME Revert
      PROVE  /\ Shape(schema') /\ Given(schema', history', Len(history'))
             /\ InOrder(history')
  BY <1>1, <1>3, <1>4, RevertGiven DEF Revert, Ordered
<1>5. Ordered'
  BY <1>1, <1>4, NextOrdered
<1>6. SUFFICES Shape(schema') /\ Given(schema', history', Len(history'))
  BY <1>2, <1>5 DEF Served
<1>7. ASSUME UNCHANGED <<schema, history>>
      PROVE  Shape(schema') /\ Given(schema', history', Len(history'))
  BY <1>1, <1>7
<1>8. ASSUME NEW r \in Runners, Apply(r)
      PROVE  Shape(schema') /\ Given(schema', history', Len(history'))
  <2>1. runners[r] \in Seq(Names)
    BY <1>1, SeqMonotonic DEF Inv
  <2>2. QED
    BY <1>1, <1>3, <1>8, <2>1, AfterGiven DEF Apply, Ordered
<1>9. ASSUME NEW table \in Populated, Insert(table)
      PROVE  Shape(schema') /\ Given(schema', history', Len(history'))
  BY <1>1, <1>9, InsertGiven
<1>10. ASSUME NEW name \in Names, Release(name)
       PROVE  Shape(schema') /\ Given(schema', history', Len(history'))
  BY <1>7, <1>10 DEF Release
<1>11. ASSUME NEW r \in Runners, Start(r) \/ Rollback(r)
       PROVE  Shape(schema') /\ Given(schema', history', Len(history'))
  BY <1>7, <1>11 DEF Start, Rollback
<1>12. CASE UNCHANGED vars
  BY <1>7, <1>12 DEF vars
<1>13. QED
  BY <1>4, <1>8, <1>9, <1>10, <1>11, <1>12 DEF Next

-----------------------------------------------------------------------------
(* With every gift there the entities are served.                          *)

LEMMA TablesFounded ==
  ASSUME NEW table \in DOMAIN Registered \ {"user_scopes"}
  PROVE  \E gift \in Gifts : /\ gift[2] \in {"table", "columns", "spares"}
                             /\ gift[3] = table
<1>1. CASE table \in {"budget_allocations", "lta_agreements"}
  <2>1. \E gift \in Spares : gift[2] = "spares" /\ gift[3] = table
    BY <1>1 DEF Spares
  <2>2. QED
    BY <2>1 DEF Gifts
<1>2. CASE table \notin {"budget_allocations", "lta_agreements"}
  <2>1. \E gift \in Founds : gift[2] = "table" /\ gift[3] = table
    BY <1>2 DEF Founds, Registered
  <2>2. QED
    BY <2>1 DEF Gifts
<1>3. QED
  BY <1>1, <1>2

LEMMA LabelsGiven ==
  ASSUME NEW type \in DOMAIN Labels, NEW label \in Labels[type]
  PROVE  \E gift \in Gifts : /\ gift[2] = "labels"
                             /\ gift[3] = type
                             /\ label \in gift[4]
<1>1. \E gift \in Enums \cup Added : /\ gift[2] = "labels"
                                     /\ gift[3] = type
                                     /\ label \in gift[4]
  BY DEF Labels, Enums, Added
<1>2. QED
  BY <1>1 DEF Gifts

LEMMA ServedEntities ==
  ASSUME Served
  PROVE  EntitiesServed
<1>1. SUFFICES ASSUME Names \subseteq Range(history)
               PROVE  /\ \A table \in
                              DOMAIN Registered
                                \ {"user_scopes", "budget_allocations"} :
                           Serves(table)
                      /\ Registered["budget_allocations"]
                           \subseteq ColumnsOf(schema, "budget_allocations")
                                       \cup {"metadata"}
                      /\ schema.tables["budget_allocations"].required
                           \subseteq Registered["budget_allocations"]
                      /\ \A type \in DOMAIN Labels :
                           Labels[type] \subseteq schema.labels[type]
  BY DEF EntitiesServed
<1>2. ASSUME NEW gift \in Gifts
      PROVE  Holds(schema, gift)
  <2>1. gift[1] \in Names
    BY GiftsBrought, NamesKnown
  <2>2. DOMAIN history = 1..Len(history)
    BY LenProperties DEF Served, Told, Inv
  <2>3. PICK n \in 1..Len(history) : history[n] = gift[1]
    BY <1>1, <2>1, <2>2 DEF Range
  <2>4. QED
    BY <2>3 DEF Served, Given
<1>3. ASSUME NEW table \in DOMAIN Registered \ {"user_scopes"}
      PROVE  /\ \A column \in Registered[table] :
                  \/ column \in ColumnsOf(schema, table)
                  \/ /\ table = "budget_allocations"
                     /\ column = "metadata"
             /\ schema.tables[table].required \subseteq Registered[table]
  <2>1. Exists(schema, table)
    BY <1>2, TablesFounded DEF Holds
  <2>2. ASSUME NEW column \in Registered[table],
               column \notin ColumnsOf(schema, table)
        PROVE  table = "budget_allocations" /\ column = "metadata"
    <3>1. column \notin Core(table)
      BY <2>1, <2>2 DEF Served, Shape
    <3>2. ASSUME NEW gift \in Brings, gift[3] = table, column \in gift[4]
          PROVE  FALSE
      <4>1. gift \in Gifts /\ gift[2] = "columns"
        BY DEF Gifts, Brings
      <4>2. gift[4] \subseteq ColumnsOf(schema, table)
        BY <1>2, <3>2, <4>1 DEF Holds
      <4>3. QED
        BY <2>2, <3>2, <4>2
    <3>3. QED
      BY <3>1, <3>2 DEF Core
  <2>3. ASSUME NEW column \in schema.tables[table].required
        PROVE  column \in Registered[table]
    <3>1. column \in RequiredOf(schema, table)
      BY <2>1 DEF RequiredOf
    <3>2. Known(table, column)
      BY <2>1, <3>1 DEF Served, Shape
    <3>3. ASSUME NEW gift \in Spares, gift[3] = table, column \in gift[4]
          PROVE  FALSE
      <4>1. gift \in Gifts /\ gift[2] = "spares"
        BY DEF Gifts, Spares
      <4>2. gift[4] \cap RequiredOf(schema, table) = {}
        BY <1>2, <3>3, <4>1 DEF Holds
      <4>3. QED
        BY <3>1, <3>3, <4>2
    <3>4. QED
      BY <3>2, <3>3 DEF Known
  <2>4. QED
    BY <2>2, <2>3
<1>4. ASSUME NEW type \in DOMAIN Labels, NEW label \in Labels[type]
      PROVE  label \in schema.labels[type]
  <2>1. PICK gift \in Gifts : /\ gift[2] = "labels"
                              /\ gift[3] = type
                              /\ label \in gift[4]
    BY <1>4, LabelsGiven
  <2>2. QED
    BY <1>2, <2>1 DEF Holds
<1>5. "budget_allocations" \in DOMAIN Registered \ {"user_scopes"}
  BY DEF Registered
<1>6. QED
  BY <1>3, <1>4, <1>5 DEF Serves

\* In whatever order the migrations are released, run by any number of
\* processes, refused, rolled back and reverted: what is recorded is in the
\* order of the timestamps but for those that look first, and every table,
\* column and label that a recorded migration gives to the entities is there.
THEOREM GiftsKept == Spec => []Served
<1>1. Init => Served
  BY InitServed
<1>2. Served /\ [Next]_vars => Served'
  BY NextServed
<1>3. QED
  BY <1>1, <1>2, PTL DEF Spec

\* Once every migration is recorded the entities find their tables, columns
\* and labels, and no column waits for a value they do not write.
THEOREM SchemaServes == Spec => []EntitiesServed
<1>1. Served => EntitiesServed
  BY ServedEntities
<1>2. QED
  BY <1>1, GiftsKept, PTL

=============================================================================
