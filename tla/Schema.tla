------------------------------- MODULE Schema -------------------------------
(***************************************************************************)
(* The DDL statements the migrations issue through TypeORM's QueryRunner,  *)
(* and what PostgreSQL makes of each.  A schema holds the tables with      *)
(* their columns, the foreign keys as <<table, column, referred table>>,   *)
(* the views' tables, the labels of the enum types, the tables that hold   *)
(* rows and the columns in which some row holds NULL.  A statement that    *)
(* PostgreSQL refuses makes the schema not ok: the migration throws there  *)
(* and its transaction is rolled back.                                     *)
(***************************************************************************)
EXTENDS Naturals, Sequences

EmptySchema ==
  [tables |-> <<>>, references |-> {}, viewed |-> {}, labels |-> <<>>,
   rows |-> {}, nulls |-> {}, ok |-> TRUE]

Exists(schema, table) == table \in DOMAIN schema.tables

ColumnsOf(schema, table) ==
  IF Exists(schema, table) THEN schema.tables[table].columns ELSE {}

Extended(f, key, value) ==
  [x \in DOMAIN f \cup {key} |-> IF x = key THEN value ELSE f[x]]

\* What a statement leaves, or the refusal when its condition fails.
If(condition, schema, result) ==
  IF condition THEN result ELSE [schema EXCEPT !.ok = FALSE]

-----------------------------------------------------------------------------
(***************************************************************************)
(* Statements.                                                             *)
(***************************************************************************)
CreateTable(table, columns, references) ==
  [do |-> "create", table |-> table, columns |-> columns,
   references |-> references]

CreateMissingTable(table, columns, references) ==
  [do |-> "create missing", table |-> table, columns |-> columns,
   references |-> references]

DropTable(table) == [do |-> "drop table", table |-> table]

AddColumns(table, columns) ==
  [do |-> "add", table |-> table, required |-> {}, columns |-> columns]

AddMissingColumns(table, required, columns) ==
  [do |-> "add missing", table |-> table, required |-> required,
   columns |-> required \cup columns]

DropColumns(table, columns) ==
  [do |-> "drop", table |-> table, columns |-> columns]

DropPresentColumns(table, columns) ==
  [do |-> "drop present", table |-> table, columns |-> columns]

\* ALTER COLUMN ... SET NOT NULL and DROP NOT NULL.
Require(table, column) ==
  [do |-> "require", table |-> table, column |-> column]

Relax(table, column) ==
  [do |-> "relax", table |-> table, column |-> column]

AddReferences(table, references) ==
  [do |-> "refer", table |-> table, references |-> references]

\* A foreign key that is looked for first.
AddMissingReferences(table, references) ==
  [do |-> "refer missing", table |-> table, references |-> references]

DropReferences(table, columns) ==
  [do |-> "unrefer", table |-> table, columns |-> columns]

\* A loop over every foreign key of the table.
DropAllReferences(table) == [do |-> "unrefer all", table |-> table]

CreateType(type, labels) ==
  [do |-> "type", type |-> type, labels |-> labels]

AddLabels(type, labels) ==
  [do |-> "label", type |-> type, labels |-> labels]

AddLabelsIfPossible(type, labels) ==
  [do |-> "label if possible", type |-> type, labels |-> labels]

DropType(type) == [do |-> "drop type", type |-> type]

CreateView(tables) == [do |-> "view", tables |-> tables]

DropView == [do |-> "drop view"]

DeleteRows(table) == [do |-> "delete rows", table |-> table]

-----------------------------------------------------------------------------
(***************************************************************************)
(* Their effect.                                                           *)
(***************************************************************************)
WithReferences(schema, table, references) ==
  If(/\ Exists(schema, table)
     /\ \A reference \in references :
          /\ reference[1] \in ColumnsOf(schema, table)
          /\ Exists(schema, reference[2]),
     schema,
     [schema EXCEPT !.references = @ \cup
        {<<table, reference[1], reference[2]>> : reference \in references}])

WithTable(schema, table, columns, references) ==
  If(~Exists(schema, table),
     schema,
     WithReferences([schema EXCEPT !.tables = Extended(@, table, columns)],
                    table, references))

WithoutTable(schema, table) ==
  If(/\ Exists(schema, table)
     /\ table \notin schema.viewed
     /\ \A reference \in schema.references :
          reference[3] = table => reference[1] = table,
     schema,
     [schema EXCEPT
        !.tables = [other \in DOMAIN @ \ {table} |-> @[other]],
        !.references = {reference \in @ : reference[1] # table},
        !.rows = @ \ {table},
        !.nulls = {null \in @ : null[1] # table}])

\* A NOT NULL column without a default is refused where rows lack it.
WithColumns(schema, table, required, columns) ==
  If(/\ Exists(schema, table)
     /\ columns \cap ColumnsOf(schema, table) = {}
     /\ required # {} => table \notin schema.rows,
     schema,
     [schema EXCEPT !.tables[table] =
        [required |-> @.required \cup required,
         columns |-> @.columns \cup columns]])

WithoutColumns(schema, table, columns) ==
  If(columns \subseteq ColumnsOf(schema, table),
     schema,
     [schema EXCEPT
        !.tables[table] = [required |-> @.required \ columns,
                           columns |-> @.columns \ columns],
        !.references = {reference \in @ :
                          reference[1] = table => reference[2] \notin columns},
        !.nulls = {null \in @ : null[1] = table => null[2] \notin columns}])

WithoutReferences(schema, table, columns) ==
  [schema EXCEPT !.references =
     {reference \in @ : reference[1] = table => reference[2] \notin columns}]

WithLabels(schema, type, labels) ==
  [schema EXCEPT !.labels[type] = @ \cup labels]

Missing(schema, statement) == statement.columns \ ColumnsOf(schema, statement.table)

Effect(schema, statement) ==
  CASE statement.do = "create" ->
         WithTable(schema, statement.table, statement.columns,
                   statement.references)
    [] statement.do = "create missing" ->
         IF Exists(schema, statement.table)
         THEN schema
         ELSE WithTable(schema, statement.table, statement.columns,
                        statement.references)
    [] statement.do = "drop table" -> WithoutTable(schema, statement.table)
    [] statement.do = "add" ->
         WithColumns(schema, statement.table, statement.required,
                     statement.columns)
    [] statement.do = "add missing" ->
         WithColumns(schema, statement.table,
                     statement.required \cap Missing(schema, statement),
                     Missing(schema, statement))
    [] statement.do = "drop" ->
         WithoutColumns(schema, statement.table, statement.columns)
    [] statement.do = "drop present" ->
         WithoutColumns(schema, statement.table,
                        statement.columns \cap
                          ColumnsOf(schema, statement.table))
    [] statement.do = "require" ->
         If(/\ statement.column \in ColumnsOf(schema, statement.table)
            /\ <<statement.table, statement.column>> \notin schema.nulls,
            schema,
            [schema EXCEPT !.tables[statement.table].required =
                             @ \cup {statement.column}])
    [] statement.do = "relax" ->
         If(statement.column \in ColumnsOf(schema, statement.table),
            schema,
            [schema EXCEPT !.tables[statement.table].required =
                             @ \ {statement.column}])
    [] statement.do = "refer" ->
         If(\A reference \in statement.references :
              <<statement.table, reference[1], reference[2]>>
                \notin schema.references,
            schema,
            WithReferences(schema, statement.table, statement.references))
    [] statement.do = "refer missing" ->
         WithReferences(schema, statement.table, statement.references)
    [] statement.do = "unrefer" ->
         WithoutReferences(schema, statement.table, statement.columns)
    [] statement.do = "unrefer all" ->
         WithoutReferences(schema, statement.table,
                           ColumnsOf(schema, statement.table))
    [] statement.do = "type" ->
         IF statement.type \in DOMAIN schema.labels
         THEN schema
         ELSE [schema EXCEPT !.labels =
                 Extended(@, statement.type, statement.labels)]
    [] statement.do = "label" ->
         If(statement.type \in DOMAIN schema.labels, schema,
            WithLabels(schema, statement.type, statement.labels))
    [] statement.do = "label if possible" ->
         IF statement.type \in DOMAIN schema.labels
         THEN WithLabels(schema, statement.type, statement.labels)
         ELSE schema
    [] statement.do = "drop type" ->
         [schema EXCEPT !.labels =
            [type \in DOMAIN @ \ {statement.type} |-> @[type]]]
    [] statement.do = "view" ->
         If(statement.tables \subseteq DOMAIN schema.tables,
            schema,
            [schema EXCEPT !.viewed = statement.tables])
    [] statement.do = "drop view" -> [schema EXCEPT !.viewed = {}]
    [] statement.do = "delete rows" ->
         [schema EXCEPT !.rows = @ \ {statement.table},
                        !.nulls = {null \in @ : null[1] # statement.table}]

\* The statements one after the other, up to the first that is refused.
Execute(schema, statements) ==
  LET after[n \in 0..Len(statements)] ==
        IF n = 0 THEN schema
        ELSE LET before == after[n - 1]
             IN  IF before.ok THEN Effect(before, statements[n]) ELSE before
  IN  after[Len(statements)]

\* What is left of a schema without the rows: what a dump of it would show.
Structure(schema) ==
  <<schema.tables, schema.references, schema.viewed, schema.labels>>

=============================================================================
