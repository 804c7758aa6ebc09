----------------------------- MODULE Migrations -----------------------------
(***************************************************************************)
(* The migrations of src/src/database/migrations: the statements of up()   *)
(* and of down() in the order they are issued.  Indexes, and the enum      *)
(* types no later migration changes, are left out.                         *)
(***************************************************************************)
EXTENDS Schema, Tables

CreateTenants ==
  [up |-> <<CreateTable("tenants", Tenants, {})>>,
   down |-> <<DropTable("tenants")>>]

CreateUsers ==
  [up |-> <<CreateType("users_role_enum",
                       {"ADMIN", "PLANNER", "APPROVER", "FINANCE"}),
            CreateTable("users", Users, UsersReferences)>>,
   down |-> <<DropTable("users"), DropType("users_role_enum")>>]

CreateCustomers ==
  [up |-> <<CreateTable("customers", Customers, CustomersReferences)>>,
   down |-> <<DropTable("customers")>>]

AddNumberOfBranchesToCustomers ==
  [up |-> <<AddColumns("customers", {"number_of_branches"})>>,
   down |-> <<DropColumns("customers", {"number_of_branches"})>>]

CreateBudgetEnvelopes ==
  [up |-> <<CreateTable("budget_envelopes", BudgetEnvelopes,
                        BudgetEnvelopesReferences)>>,
   down |-> <<DropTable("budget_envelopes")>>]

CreateBudgetTransactions ==
  [up |-> <<CreateTable("budget_transactions", BudgetTransactions,
                        BudgetTransactionsReferences)>>,
   down |-> <<DropTable("budget_transactions")>>]

CreateLedgerEntries ==
  [up |-> <<CreateTable("ledger_entries", LedgerEntries,
                        LedgerEntriesReferences)>>,
   down |-> <<DropTable("ledger_entries")>>]

CreateBudgetReservations ==
  [up |-> <<CreateTable("budget_reservations", BudgetReservations,
                        BudgetReservationsReferences)>>,
   down |-> <<DropTable("budget_reservations")>>]

CreateNotifications ==
  [up |-> <<CreateTable("notifications", Notifications,
                        NotificationsReferences)>>,
   down |-> <<DropTable("notifications")>>]

CreateAdminAuditLogs ==
  [up |-> <<CreateTable("admin_audit_logs", AdminAuditLogs,
                        AdminAuditLogsReferences)>>,
   down |-> <<DropTable("admin_audit_logs")>>]

CreateBudgetSummaryView ==
  [up |-> <<CreateView({"budget_envelopes", "budget_transactions",
                        "ledger_entries"})>>,
   down |-> <<DropView>>]

CreateAgreements ==
  [up |-> <<CreateTable("agreements", Agreements, AgreementsReferences)>>,
   down |-> <<DropTable("agreements")>>]

CreateApprovalRequests ==
  [up |-> <<CreateType("approval_requests_request_type_enum",
                       {"AGREEMENT", "BUDGET_TRANSFER", "IMPORT_BATCH",
                        "OTHER"}),
            CreateTable("approval_requests", ApprovalRequests,
                        ApprovalRequestsReferences),
            AddReferences("agreements",
                          {<<"approval_request_id", "approval_requests">>})>>,
   down |-> <<DropReferences("agreements", {"approval_request_id"}),
              DropTable("approval_requests"),
              DropType("approval_requests_request_type_enum")>>]

CreateAgreementTransactions ==
  [up |-> <<CreateTable("agreement_transactions", AgreementTransactions,
                        AgreementTransactionsReferences)>>,
   down |-> <<DropTable("agreement_transactions")>>]

AddMissingFieldsToAgreements ==
  LET fields == {"description", "category_id", "reconciliation_period",
                 "notes"}
  IN  [up |-> <<AddColumns("agreements", fields)>>,
       down |-> <<DropColumns("agreements", fields)>>]

CreateMasterDataEntities ==
  [up |-> <<CreateTable("brands", Brands, BrandsReferences),
            CreateTable("categories", Categories, CategoriesReferences),
            CreateTable("channels", Channels, ChannelsReferences),
            CreateTable("regions", Regions, RegionsReferences),
            CreateTable("generic_units", GenericUnits,
                        GenericUnitsReferences),
            CreateTable("forecasting_units", ForecastingUnits,
                        ForecastingUnitsReferences),
            CreateTable("skus", Skus, SkusReferences),
            CreateTable("tactics", Tactics, TacticsReferences),
            CreateTable("mechanics", Mechanics, MechanicsReferences),
            CreateTable("cpls", Cpls, CplsReferences),
            AddMissingColumns("customers", {}, {"cpl_id"}),
            AddReferences("customers", {<<"cpl_id", "cpls">>})>>,
   down |-> <<DropPresentColumns("customers", {"cpl_id"}),
              DropTable("cpls"), DropTable("mechanics"),
              DropTable("tactics"), DropTable("skus"),
              DropTable("forecasting_units"), DropTable("generic_units"),
              DropTable("regions"), DropTable("channels"),
              DropTable("categories"), DropTable("brands")>>]

\* The rows whose ids the new master data tables do not hold are deleted:
\* the tables hold nothing yet, so those are all the rows.
UpdateAgreementsMasterDataRelations ==
  LET references ==
        {<<"cpl_id", "cpls">>, <<"channel_id", "channels">>,
         <<"region_id", "regions">>, <<"category_id", "categories">>,
         <<"gu_id", "generic_units">>, <<"fu_id", "forecasting_units">>,
         <<"tactic_id", "tactics">>, <<"mechanic_id", "mechanics">>}
  IN  [up |-> <<AddMissingColumns("agreements", {}, {"channel_id"}),
                DropPresentColumns("agreements", {"channel"}),
                DropReferences("agreements", {"cpl_id"}),
                DeleteRows("agreements"),
                AddMissingReferences("agreements", references)>>,
       down |-> <<DropReferences("agreements",
                                 {reference[1] : reference \in references}),
                  AddMissingColumns("agreements", {"channel"}, {}),
                  DropPresentColumns("agreements", {"channel_id"})>>]

CreateKpis ==
  [up |-> <<CreateTable("kpis", Kpis, KpisReferences)>>,
   down |-> <<DropTable("kpis")>>]

CreatePlans ==
  [up |-> <<CreateType("plans_plan_status_enum",
                       {"DRAFT", "PENDING_APPROVAL", "APPROVED",
                        "REJECTED"}),
            CreateTable("plans", Plans, PlansReferences),
            CreateTable("plan_fus", PlanFus, PlanFusReferences),
            CreateTable("plan_skus", PlanSkus, PlanSkusReferences)>>,
   down |-> <<DropAllReferences("plan_skus"), DropAllReferences("plan_fus"),
              DropAllReferences("plans"), DropTable("plan_skus"),
              DropTable("plan_fus"), DropTable("plans"),
              DropType("plans_plan_status_enum")>>]

AddPlanToApprovalRequestTypeEnum ==
  [up |-> <<AddLabelsIfPossible("approval_requests_request_type_enum",
                                {"PLAN"})>>,
   down |-> <<>>]

AddChannelCategoryToBudgetEnvelope ==
  LET columns == {"channel", "category", "channel_id", "category_id"}
  IN  [up |-> <<AddMissingColumns("budget_envelopes", {}, columns)>>,
       down |-> <<DropPresentColumns("budget_envelopes", columns)>>]

\* down() gives the column back with the default ''.
RemoveOldChannelColumnFromAgreements ==
  [up |-> <<DropPresentColumns("agreements", {"channel"})>>,
   down |-> <<AddMissingColumns("agreements", {}, {"channel"})>>]

AddAdditionalParamsToAgreements ==
  LET columns == {"additional_params", "kpi_results"}
  IN  [up |-> <<AddColumns("agreements", columns)>>,
       down |-> <<DropColumns("agreements", columns)>>]

\* Mutant: down() drops whatever foreign key it finds.
MakeFuIdDroppingAll ==
  LET references == {<<"fu_id", "forecasting_units">>}
  IN  [up |-> <<DropReferences("agreements", {"fu_id"}),
                Relax("agreements", "fu_id"),
                AddMissingReferences("agreements", references)>>,
       down |-> <<DropAllReferences("agreements"),
                  Require("agreements", "fu_id"),
                  AddReferences("agreements", references)>>]

MakeFuIdNullableInAgreements ==
  LET references == {<<"fu_id", "forecasting_units">>}
  IN  [up |-> <<DropReferences("agreements", {"fu_id"}),
                Relax("agreements", "fu_id"),
                AddMissingReferences("agreements", references)>>,
       down |-> <<DropReferences("agreements", {"fu_id"}),
                  Require("agreements", "fu_id"),
                  AddReferences("agreements", references)>>]

\* The columns of the envelope era go, whoever created the table; down()
\* takes the columns back and leaves the table.
UpdateBudgetAllocationStructure ==
  LET allocations == "budget_allocations"
      required == {"period_type", "period_start", "period_end", "fiscal_year"}
      optional == {"cpl_id", "channel", "category", "on_invoice_budget",
                   "off_invoice_budget", "on_invoice_utilized",
                   "off_invoice_utilized", "on_invoice_reserved",
                   "off_invoice_reserved", "alert_threshold_80",
                   "alert_threshold_95", "alert_threshold_100",
                   "alert_recipients", "hard_limit_mode",
                   "allow_carry_forward"}
      generated == {"total_budget", "on_invoice_available",
                    "off_invoice_available"}
  IN  [up |-> <<CreateMissingTable(allocations, BudgetAllocations, {}),
                DropAllReferences(allocations),
                DropPresentColumns(allocations,
                                   {"envelope_id", "alert_thresholds"}),
                AddMissingColumns(allocations, required, optional),
                AddMissingColumns(allocations, {}, generated),
                AddMissingReferences(allocations,
                                     BudgetAllocationsReferences),
                CreateMissingTable("budget_transaction_logs",
                                   BudgetTransactionLogs,
                                   BudgetTransactionLogsReferences),
                CreateMissingTable("budget_alert_configurations",
                                   BudgetAlertConfigurations, {})>>,
       down |-> <<DropTable("budget_alert_configurations"),
                  DropTable("budget_transaction_logs"),
                  DropPresentColumns(allocations, generated),
                  DropPresentColumns(allocations, required \cup optional)>>]

AddFinanceManagerAndCategoryManagerRoles ==
  [up |-> <<AddLabels("users_role_enum",
                      {"FINANCE_MANAGER", "CATEGORY_MANAGER"})>>,
   down |-> <<>>]

\* Mutant: the allocations table is created without looking for it.
AddSpendWithoutLooking ==
  [up |-> <<AddColumns("mechanics",
                       {"spending_type", "calculation_formula",
                        "applicability_rules", "input_constraints"}),
            CreateTable("budget_allocations", SpendBudgetAllocations,
                        SpendBudgetAllocationsReferences)>>,
   down |-> <<DropTable("budget_allocations")>>]

AddSpendManagementTables ==
  LET mechanic == {"spending_type", "calculation_formula",
                   "applicability_rules", "input_constraints"}
      spend == {"base_lta_on_invoice_spend", "base_lta_off_invoice_spend",
                "planned_lta_on_invoice_spend",
                "planned_lta_off_invoice_spend", "promo_on_invoice_spend",
                "promo_off_invoice_spend"}
  IN  [up |-> <<AddColumns("mechanics", mechanic),
                CreateMissingTable("plan_mechanic_values", PlanMechanicValues,
                                   PlanMechanicValuesReferences),
                CreateMissingTable("mechanic_spend_breakdown",
                                   MechanicSpendBreakdowns,
                                   MechanicSpendBreakdownsReferences),
                CreateMissingTable("lta_agreements", SpendLtaAgreements,
                                   SpendLtaAgreementsReferences),
                CreateMissingTable("budget_allocations",
                                   SpendBudgetAllocations,
                                   SpendBudgetAllocationsReferences),
                AddColumns("plan_skus", spend)>>,
       down |-> <<DropColumns("plan_skus", spend),
                  DropTable("budget_allocations"),
                  DropTable("lta_agreements"),
                  DropTable("mechanic_spend_breakdown"),
                  DropTable("plan_mechanic_values"),
                  DropColumns("mechanics", mechanic)>>]

AddPromoMechanicsConfig ==
  LET columns == {"category", "input_type", "default_value",
                  "step_increment", "decimal_places", "unit_symbol",
                  "formula_variables", "formula_validation_status",
                  "test_data", "applicable_channels",
                  "applicable_categories", "applicable_cpls", "show_in_grid",
                  "grid_column_order", "grid_column_width", "group_header",
                  "track_against_budget", "budget_type",
                  "requires_approval_threshold", "approval_flow",
                  "mutually_exclusive_with",
                  "max_combined_discount_percentage", "combination_warnings"}
  IN  [up |-> <<AddColumns("mechanics", columns),
                AddMissingColumns("mechanics", {}, {"exclusion_rules"})>>,
       down |-> <<DropColumns("mechanics", columns)>>]

\* Mutant: the rates stay on the agreement, where they must have a value.
UpdateLTAKeepingChannel ==
  [up |-> <<CreateMissingTable("lta_agreements", LtaAgreements, {}),
            DropPresentColumns("lta_agreements",
                               {"on_invoice_percentage",
                                "off_invoice_percentage", "is_active",
                                "description"}),
            AddMissingColumns("lta_agreements",
                              {"agreement_name", "agreement_code",
                               "effective_date"},
                              {"status", "total_agreement_value", "notes",
                               "expiry_date"}),
            CreateMissingTable("lta_rates", LtaRates, LtaRatesReferences),
            CreateMissingTable("lta_plan_overrides", LtaPlanOverrides,
                               LtaPlanOverridesReferences)>>,
   down |-> <<>>]

UpdateLTAAgreementsStructure ==
  LET agreements == "lta_agreements"
  IN  [up |-> <<CreateMissingTable(agreements, LtaAgreements, {}),
                DropAllReferences(agreements),
                DropPresentColumns(agreements,
                                   {"channel_id", "on_invoice_percentage",
                                    "off_invoice_percentage", "is_active",
                                    "description"}),
                AddMissingColumns(agreements,
                                  {"agreement_name", "agreement_code",
                                   "effective_date"},
                                  {"status", "total_agreement_value", "notes",
                                   "expiry_date"}),
                AddMissingReferences(agreements, LtaAgreementsReferences),
                CreateMissingTable("lta_rates", LtaRates, LtaRatesReferences),
                CreateMissingTable("lta_plan_overrides", LtaPlanOverrides,
                                   LtaPlanOverridesReferences)>>,
       down |-> <<DropTable("lta_plan_overrides"), DropTable("lta_rates"),
                  DropColumns(agreements,
                              {"notes", "total_agreement_value", "status",
                               "agreement_code", "agreement_name"})>>]

AddApprovalWorkflowFieldsToPlans ==
  LET columns == {"submission_notes", "submitted_at", "submitted_by",
                  "pending_finance_review", "escalation_reason",
                  "escalated_at", "escalated_by", "on_invoice_spend",
                  "off_invoice_spend"}
  IN  [up |-> <<AddLabels("plans_plan_status_enum",
                          {"PENDING_FINANCE_REVIEW"}),
                AddColumns("plans", columns),
                AddReferences("plans", {<<"submitted_by", "users">>,
                                        <<"escalated_by", "users">>}),
                CreateTable("plan_approval_history", PlanApprovalHistory,
                            PlanApprovalHistoryReferences)>>,
       down |-> <<DropTable("plan_approval_history"),
                  DropReferences("plans", {"submitted_by", "escalated_by"}),
                  DropColumns("plans", columns)>>]

\* Mutant: IF NOT EXISTS.
AddMissingFiscalPeriod ==
  [up |-> <<AddMissingColumns("agreement_transactions", {},
                              {"fiscal_period"})>>,
   down |-> <<DropColumns("agreement_transactions", {"fiscal_period"})>>]

AddFiscalPeriodToAgreementTransaction ==
  [up |-> <<AddColumns("agreement_transactions", {"fiscal_period"})>>,
   down |-> <<DropColumns("agreement_transactions", {"fiscal_period"})>>]

CreateOnInvoiceTables ==
  [up |-> <<CreateTable("on_invoice_batches", OnInvoiceBatches,
                        OnInvoiceBatchesReferences),
            CreateTable("on_invoice_entries", OnInvoiceEntries,
                        OnInvoiceEntriesReferences)>>,
   down |-> <<DropAllReferences("on_invoice_entries"),
              DropAllReferences("on_invoice_batches"),
              DropTable("on_invoice_entries"),
              DropTable("on_invoice_batches")>>]

AddCalculatedKpisToPlans ==
  [up |-> <<AddColumns("plan_skus", {"calculated_kpis"}),
            AddColumns("plan_fus", {"calculated_kpis"})>>,
   down |-> <<DropColumns("plan_skus", {"calculated_kpis"}),
              DropColumns("plan_fus", {"calculated_kpis"})>>]

=============================================================================
