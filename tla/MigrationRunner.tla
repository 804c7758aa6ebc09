--------------------------- MODULE MigrationRunner ---------------------------
(***************************************************************************)
(* The life of the database schema.  Builds that carry more and more       *)
(* migrations are deployed; every deployment, and every container whose    *)
(* entrypoint is told to, runs the pending migrations through TypeORM; an  *)
(* operator reverts the last one; meanwhile the program inserts rows.      *)
(*                                                                         *)
(* A run reads the history table once, outside its transaction, and then   *)
(* applies and records what it found pending in one transaction: the DDL   *)
(* locks put the transactions of two runs one after the other, so a run    *)
(* either takes effect at its commit, on the schema the others left, or is *)
(* rolled back.                                                            *)
(***************************************************************************)
EXTENDS Migrations, Entities, FiniteSets, SequencesExt

CONSTANTS
  Runners,    \* the processes that run migrations
  Baseline,   \* the migrations of the first build
  Late,       \* the migrations that may be released after younger ones
  Populated,  \* the tables into which the program inserts rows
  MaxBehind,  \* how many migrations the database may be behind the build
  MaxRepeats  \* how many rows may repeat a name the history has already

VARIABLES
  released,   \* the migrations of the build that is deployed
  history,    \* the rows of the migrations table, in the order of their ids
  schema,
  runners     \* for each runner what it found pending, <<>> when it is idle

vars == <<released, history, schema, runners>>

-----------------------------------------------------------------------------
\* The migrations by name, and the order their timestamps give them.
Migration ==
  [CreateTenants |-> CreateTenants,
   CreateUsers |-> CreateUsers,
   CreateCustomers |-> CreateCustomers,
   AddNumberOfBranchesToCustomers |-> AddNumberOfBranchesToCustomers,
   CreateBudgetEnvelopes |-> CreateBudgetEnvelopes,
   CreateBudgetTransactions |-> CreateBudgetTransactions,
   CreateLedgerEntries |-> CreateLedgerEntries,
   CreateBudgetReservations |-> CreateBudgetReservations,
   CreateNotifications |-> CreateNotifications,
   CreateAdminAuditLogs |-> CreateAdminAuditLogs,
   CreateBudgetSummaryView |-> CreateBudgetSummaryView,
   CreateAgreements |-> CreateAgreements,
   CreateApprovalRequests |-> CreateApprovalRequests,
   CreateAgreementTransactions |-> CreateAgreementTransactions,
   AddMissingFieldsToAgreements |-> AddMissingFieldsToAgreements,
   CreateMasterDataEntities |-> CreateMasterDataEntities,
   UpdateAgreementsMasterDataRelations |-> UpdateAgreementsMasterDataRelations,
   CreateKpis |-> CreateKpis,
   CreatePlans |-> CreatePlans,
   AddPlanToApprovalRequestTypeEnum |-> AddPlanToApprovalRequestTypeEnum,
   AddChannelCategoryToBudgetEnvelope |-> AddChannelCategoryToBudgetEnvelope,
   RemoveOldChannelColumnFromAgreements |->
     RemoveOldChannelColumnFromAgreements,
   AddAdditionalParamsToAgreements |-> AddAdditionalParamsToAgreements,
   MakeFuIdNullableInAgreements |-> MakeFuIdNullableInAgreements,
   UpdateBudgetAllocationStructure |-> UpdateBudgetAllocationStructure,
   AddFinanceManagerAndCategoryManagerRoles |->
     AddFinanceManagerAndCategoryManagerRoles,
   AddSpendManagementTables |-> AddSpendManagementTables,
   AddPromoMechanicsConfig |-> AddPromoMechanicsConfig,
   UpdateLTAAgreementsStructure |-> UpdateLTAAgreementsStructure,
   AddApprovalWorkflowFieldsToPlans |-> AddApprovalWorkflowFieldsToPlans,
   AddFiscalPeriodToAgreementTransaction |->
     AddFiscalPeriodToAgreementTransaction,
   CreateOnInvoiceTables |-> CreateOnInvoiceTables,
   AddCalculatedKpisToPlans |-> AddCalculatedKpisToPlans]

Timeline ==
  <<"CreateTenants", "CreateUsers", "CreateCustomers",
    "AddNumberOfBranchesToCustomers", "CreateBudgetEnvelopes",
    "CreateBudgetTransactions", "CreateLedgerEntries",
    "CreateBudgetReservations", "CreateNotifications",
    "CreateAdminAuditLogs", "CreateBudgetSummaryView", "CreateAgreements",
    "CreateApprovalRequests", "CreateAgreementTransactions",
    "AddMissingFieldsToAgreements", "CreateMasterDataEntities",
    "UpdateAgreementsMasterDataRelations", "CreateKpis", "CreatePlans",
    "AddPlanToApprovalRequestTypeEnum", "AddChannelCategoryToBudgetEnvelope",
    "RemoveOldChannelColumnFromAgreements",
    "AddAdditionalParamsToAgreements", "MakeFuIdNullableInAgreements",
    "UpdateBudgetAllocationStructure",
    "AddFinanceManagerAndCategoryManagerRoles", "AddSpendManagementTables",
    "AddPromoMechanicsConfig", "UpdateLTAAgreementsStructure",
    "AddApprovalWorkflowFieldsToPlans",
    "AddFiscalPeriodToAgreementTransaction", "CreateOnInvoiceTables",
    "AddCalculatedKpisToPlans">>

Names == Range(Timeline)

ASSUME MigrationAssumption ==
  /\ Names = DOMAIN Migration
  /\ Baseline \subseteq Names
  /\ Late \subseteq Names
  /\ MaxBehind \in Nat
  /\ MaxRepeats \in Nat

Position == [name \in Names |-> CHOOSE n \in 1..Len(Timeline) : Timeline[n] = name]

\* The migrations whose every statement looks before it changes anything.
LookFirst ==
  {"CreateBudgetSummaryView", "UpdateAgreementsMasterDataRelations",
   "AddPlanToApprovalRequestTypeEnum", "AddChannelCategoryToBudgetEnvelope",
   "RemoveOldChannelColumnFromAgreements", "MakeFuIdNullableInAgreements",
   "UpdateBudgetAllocationStructure",
   "AddFinanceManagerAndCategoryManagerRoles", "UpdateLTAAgreementsStructure"}

\* A build holds every migration older than one of its own, but for the late
\* ones; and what comes late looks first.
ASSUME OrderAssumption ==
  /\ Late \subseteq LookFirst
  /\ \A name \in Baseline, other \in Names :
       Position[other] < Position[name] => other \in Baseline \cup Late

\* Those of some names that are in a set, in their order.
Kept(names, set) ==
  LET kept[n \in 0..Len(names)] ==
        IF n = 0 THEN <<>>
        ELSE IF names[n] \in set THEN Append(kept[n - 1], names[n])
        ELSE kept[n - 1]
  IN  kept[Len(names)]

\* What a run that starts now would find to do, oldest timestamp first.
Pending == Kept(Timeline, released \ Range(history))

\* What the migrations make of the schema, one after the other.
After(names) ==
  LET after[n \in 0..Len(names)] ==
        IF n = 0 THEN schema
        ELSE Execute(after[n - 1], Migration[names[n]].up)
  IN  after[Len(names)]

BeforeLast == Execute(schema, Migration[Last(history)].down)

-----------------------------------------------------------------------------
Init ==
  /\ released = Baseline
  /\ history = <<>>
  /\ schema = EmptySchema
  /\ runners = [r \in Runners |-> <<>>]

Quiet == \A r \in Runners : runners[r] = <<>>

\* A build with one more migration is deployed, once the runs of the build
\* before it have ended.
Release(name) ==
  /\ Quiet
  /\ name \notin released
  /\ Len(Pending) < MaxBehind
  /\ \A other \in Names :
       Position[other] < Position[name] => other \in released \cup Late
  /\ released' = released \cup {name}
  /\ UNCHANGED <<history, schema, runners>>

\* A run compares the history with the migrations of its build.
Start(r) ==
  /\ runners[r] = <<>>
  /\ Pending # <<>>
  /\ runners' = [runners EXCEPT ![r] = Pending]
  /\ UNCHANGED <<released, history, schema>>

\* Mutant: each migration in a transaction of its own, and all recorded.
ApplyEach(r) ==
  /\ runners[r] # <<>>
  /\ schema' = After(runners[r])
  /\ history' = history \o runners[r]
  /\ Len(history') - Cardinality(Range(history')) <= MaxRepeats
  /\ runners' = [runners EXCEPT ![r] = <<>>]
  /\ UNCHANGED released

\* All it found pending is applied and recorded, in one transaction.
Apply(r) ==
  /\ runners[r] # <<>>
  /\ After(runners[r]).ok
  /\ schema' = After(runners[r])
  /\ history' = history \o runners[r]
  /\ Len(history') - Cardinality(Range(history')) <= MaxRepeats
  /\ runners' = [runners EXCEPT ![r] = <<>>]
  /\ UNCHANGED released

\* A statement is refused, or the connection is lost before the commit.
Rollback(r) ==
  /\ runners[r] # <<>>
  /\ runners' = [runners EXCEPT ![r] = <<>>]
  /\ UNCHANGED <<released, history, schema>>

\* An operator undoes the last migration of the history while nothing is
\* being deployed; every row of its name goes.
Revert ==
  /\ Quiet
  /\ history # <<>>
  /\ Len(Pending) < MaxBehind
  /\ BeforeLast.ok
  /\ schema' = BeforeLast
  /\ history' = Kept(history, Names \ {Last(history)})
  /\ UNCHANGED <<released, runners>>

\* The program inserts a row; agreements need no forecasting unit once the
\* column may be NULL.
Insert(table) ==
  /\ Exists(schema, table)
  /\ \E nulls \in SUBSET ({"fu_id"} \cap (ColumnsOf(schema, table)
                                          \ schema.tables[table].required)) :
       schema' = [schema EXCEPT !.rows = @ \cup {table},
                                !.nulls = @ \cup ({table} \X nulls)]
  /\ UNCHANGED <<released, history, runners>>

Next ==
  \/ \E name \in Names : Release(name)
  \/ \E r \in Runners : Start(r) \/ Apply(r) \/ Rollback(r)
  \/ Revert
  \/ \E table \in Populated : Insert(table)

Spec == Init /\ [][Next]_vars

-----------------------------------------------------------------------------
(***************************************************************************)
(* Properties.                                                             *)
(***************************************************************************)

\* What is recorded was released, no foreign key dangles, and a column that
\* must have a value is there and holds no NULL.
SchemaTypeOK ==
  /\ schema.ok
  /\ released \subseteq Names
  /\ history \in Seq(released)
  /\ \A r \in Runners : runners[r] \in Seq(released)
  /\ \A reference \in schema.references :
       /\ reference[2] \in ColumnsOf(schema, reference[1])
       /\ Exists(schema, reference[3])
  /\ schema.viewed \cup schema.rows \subseteq DOMAIN schema.tables
  /\ \A table \in DOMAIN schema.tables :
       LET required == schema.tables[table].required
       IN  /\ required \subseteq schema.tables[table].columns
           /\ \A column \in required : <<table, column>> \notin schema.nulls

\* Every query and every INSERT of the entity finds its columns, and no
\* column needs a value that the entity does not write.
Serves(table) ==
  /\ Registered[table] \subseteq ColumnsOf(schema, table)
  /\ schema.tables[table].required \subseteq Registered[table]

\* Whatever the order of releases, runs, failed runs and reverts: once every
\* migration is recorded the schema serves every registered entity and every
\* enum value the program writes.  Two gaps of the code are excepted: no
\* migration creates the table of UserScope, and BudgetAllocation.metadata
\* is there only if AddSpendManagementTables created the table.
EntitiesServed ==
  Names \subseteq Range(history) =>
    /\ \A table \in DOMAIN Registered
                      \ {"user_scopes", "budget_allocations"} : Serves(table)
    /\ Registered["budget_allocations"]
         \subseteq ColumnsOf(schema, "budget_allocations") \cup {"metadata"}
    /\ schema.tables["budget_allocations"].required
         \subseteq Registered["budget_allocations"]
    /\ \A type \in DOMAIN Labels : Labels[type] \subseteq schema.labels[type]

\* A run that starts now is not refused: the migrations apply from any state
\* that earlier runs, failed runs and reverts leave.  Only rows stop one:
\* a restructured table gets NOT NULL columns that its rows do not have.
RunNeverRefused ==
  \/ After(Pending).ok
  \/ /\ "UpdateLTAAgreementsStructure" \in Range(Pending)
     /\ "lta_agreements" \in schema.rows
  \/ /\ "UpdateBudgetAllocationStructure" \in Range(Pending)
     /\ "budget_allocations" \in schema.rows

\* Running a reverted migration again brings back the structure that was
\* there before the revert.  One gap: the migrations that restructure two
\* tables of AddSpendManagementTables do not give back in down() the columns
\* up() took, and reverting that one as well loses the tables as they are.
RevertThenRun ==
  [][Revert =>
       LET again == Execute(schema', Migration[Last(history)].up)
       IN  \/ ~again.ok
           \/ Structure(again) = Structure(schema)
           \/ /\ Last(history) = "AddSpendManagementTables"
              /\ Range(Pending) \cap {"UpdateBudgetAllocationStructure",
                                     "UpdateLTAAgreementsStructure"} # {}]_vars

\* Two runs that read the same history never both commit a migration, except
\* those that look first: of the others the second run is refused.
RecordedOnce ==
  \A m, n \in DOMAIN history :
    m # n /\ history[m] = history[n] => history[m] \in LookFirst

=============================================================================
