------------------------------- MODULE Tables -------------------------------
(***************************************************************************)
(* The tables as the migrations under src/src/database/migrations create   *)
(* them: for each CREATE TABLE the columns an INSERT must give a value     *)
(* (NOT NULL and no default) and the others, and the foreign keys created  *)
(* with it, as pairs of a column and the table it refers to.  Types,       *)
(* lengths, defaults, indexes and ON DELETE rules are left out.            *)
(***************************************************************************)

Columns(required, optional) ==
  [required |-> required, columns |-> required \cup optional]

\* Every table but three carries the columns of base.entity.ts.
Table(required, optional) ==
  Columns({"tenant_id"} \cup required,
          {"id", "created_at", "updated_at", "deleted_at", "created_by",
           "updated_by"} \cup optional)

\* ---- CreateTenants
Tenants == Columns({"name"},
                   {"id", "domain", "status", "plan", "contact_email",
                    "contact_phone", "contact_person", "address", "city",
                    "country", "postal_code", "tax_number",
                    "company_registration_number", "industry", "settings",
                    "subscription_start_date", "subscription_end_date",
                    "max_users", "max_storage_gb", "current_storage_gb",
                    "metadata", "notes", "created_at", "updated_at",
                    "deleted_at"})

\* ---- CreateUsers
Users == Table({"email", "password_hash", "full_name"},
               {"role", "status", "first_name", "last_name", "phone_number",
                "department", "job_title", "avatar_url", "last_login_at",
                "login_count", "failed_login_attempts", "locked_until",
                "password_changed_at", "must_change_password",
                "refresh_token", "email_verified", "email_verification_token",
                "email_verification_expires", "password_reset_token",
                "password_reset_expires", "preferences", "permissions"})

UsersReferences == {<<"tenant_id", "tenants">>}

\* ---- CreateCustomers
Customers == Table({"code", "name", "channel"},
                   {"type", "status", "city", "district", "region", "country",
                    "address", "postal_code", "tax_number", "tax_office",
                    "company_registration_number", "contact_person",
                    "contact_email", "contact_phone", "contact_mobile",
                    "payment_terms", "credit_limit", "currency",
                    "sales_representative", "account_manager",
                    "customer_group", "customer_segment", "customer_tier",
                    "business_size", "annual_revenue", "last_order_date",
                    "first_order_date", "total_orders", "metadata", "notes",
                    "is_vip", "contract_start_date", "contract_end_date"})

CustomersReferences == {<<"tenant_id", "tenants">>}

\* ---- CreateBudgetEnvelopes
BudgetEnvelopes == Table({"code", "name", "fiscal_year", "period",
                          "allocated_amount", "available_amount"},
                         {"consumed_amount", "status", "budget_owner_id",
                          "budget_owner_email", "budget_owner_name",
                          "currency", "description", "metadata"})

BudgetEnvelopesReferences == {<<"tenant_id", "tenants">>}

\* ---- CreateBudgetTransactions
BudgetTransactions == Table({"envelope_id", "tx_type", "amount",
                             "idempotency_key"},
                            {"tx_status", "source_type", "source_id",
                             "currency", "description", "notes", "metadata"})

BudgetTransactionsReferences ==
  {<<"tenant_id", "tenants">>, <<"envelope_id", "budget_envelopes">>}

\* ---- CreateLedgerEntries
LedgerEntries == Table({"source_type", "source_id", "spend_type", "amount",
                        "period_month", "posting_date", "idempotency_key"},
                       {"agreement_id", "entry_direction", "currency",
                        "channel", "cpl_id", "fu_id", "tactic_id",
                        "mechanic_id", "budget_envelope_id", "description",
                        "metadata"})

LedgerEntriesReferences ==
  {<<"tenant_id", "tenants">>, <<"budget_envelope_id", "budget_envelopes">>}

\* ---- CreateBudgetReservations
BudgetReservations == Table({"envelope_id", "reserved_amount",
                             "requested_by_id", "requested_by_email",
                             "requested_by_name"},
                            {"agreement_id", "agreement_name", "status",
                             "approved_by_id", "approved_at",
                             "rejected_reason", "notes"})

BudgetReservationsReferences ==
  {<<"tenant_id", "tenants">>, <<"envelope_id", "budget_envelopes">>}

\* ---- CreateNotifications
Notifications == Table({"type", "recipient_id", "recipient_email", "subject",
                        "body"},
                       {"recipient_name", "channel", "priority", "status",
                        "metadata", "sent_at", "read_at", "expires_at"})

NotificationsReferences == {<<"tenant_id", "tenants">>}

\* ---- CreateAdminAuditLogs
AdminAuditLogs == Columns({"tenant_id", "admin_id", "admin_email",
                           "action_type", "entity_type", "result"},
                          {"id", "entity_id", "ip_address", "before_values",
                           "after_values", "justification", "is_high_risk",
                           "alert_sent", "created_at"})

AdminAuditLogsReferences == {<<"tenant_id", "tenants">>}

\* ---- CreateAgreements
Agreements == Table({"agreement_code", "agreement_type", "cpl_id", "channel",
                     "fu_id", "tactic_id", "mechanic_id", "cap_total_amount",
                     "start_date", "end_date", "period_month",
                     "justification"},
                    {"agreement_name", "region_id", "gu_id", "sku_scope",
                     "mechanic_value", "mechanic_type", "currency",
                     "spend_type", "status", "approval_request_id",
                     "approved_at", "approved_by", "rejected_at",
                     "rejected_by", "rejection_reason", "consumed_amount",
                     "current_price", "expected_price", "competitor_price",
                     "competitor_name"})

AgreementsReferences ==
  {<<"tenant_id", "tenants">>, <<"cpl_id", "customers">>,
   <<"approved_by", "users">>, <<"rejected_by", "users">>,
   <<"created_by", "users">>, <<"updated_by", "users">>}

\* ---- CreateApprovalRequests
ApprovalRequests == Table({"request_type", "entity_type", "entity_id",
                           "requested_by_id"},
                          {"requested_at", "approval_policy_id",
                           "approval_levels", "current_level", "status",
                           "approved_at", "approved_by_id", "rejected_at",
                           "rejected_by_id", "rejection_reason",
                           "cancelled_at", "cancelled_by_id", "metadata"})

ApprovalRequestsReferences ==
  {<<"tenant_id", "tenants">>, <<"requested_by_id", "users">>,
   <<"approved_by_id", "users">>, <<"rejected_by_id", "users">>,
   <<"cancelled_by_id", "users">>, <<"created_by", "users">>,
   <<"updated_by", "users">>}

\* ---- CreateAgreementTransactions
AgreementTransactions == Table({"agreement_id", "invoice_no", "invoice_date",
                                "amount", "idempotency_key"},
                               {"currency", "cpl_id", "batch_id",
                                "row_number", "notes", "metadata"})

AgreementTransactionsReferences ==
  {<<"tenant_id", "tenants">>, <<"agreement_id", "agreements">>,
   <<"cpl_id", "customers">>, <<"created_by", "users">>,
   <<"updated_by", "users">>}

\* ---- CreateMasterDataEntities
Brands == Table({"code", "name"},
                {"description", "is_active", "metadata"})

BrandsReferences == {<<"tenant_id", "tenants">>}

Categories == Table({"code", "name"},
                    {"description", "parent_category_id", "level",
                     "is_active", "metadata"})

CategoriesReferences ==
  {<<"tenant_id", "tenants">>, <<"parent_category_id", "categories">>}

Channels == Table({"code", "name"},
                  {"description", "subchannel", "sort_order", "is_active",
                   "metadata"})

ChannelsReferences == {<<"tenant_id", "tenants">>}

Regions == Table({"code", "name"},
                 {"description", "parent_region_id", "level", "country",
                  "is_active", "metadata"})

RegionsReferences ==
  {<<"tenant_id", "tenants">>, <<"parent_region_id", "regions">>}

GenericUnits == Table({"code", "name", "brand_id", "category_id"},
                      {"description", "is_active", "metadata"})

GenericUnitsReferences ==
  {<<"tenant_id", "tenants">>, <<"brand_id", "brands">>,
   <<"category_id", "categories">>}

ForecastingUnits == Table({"code", "name", "gu_id"},
                          {"description", "size", "segment", "is_plannable",
                           "default_base_volume", "base_price", "currency",
                           "unit_of_measure", "is_active", "metadata"})

ForecastingUnitsReferences ==
  {<<"tenant_id", "tenants">>, <<"gu_id", "generic_units">>}

Skus == Table({"code", "name", "gu_id"},
              {"description", "fu_id", "variant", "size", "barcode",
               "unit_price", "cogs", "currency", "unit_of_measure",
               "is_active", "metadata"})

SkusReferences ==
  {<<"tenant_id", "tenants">>, <<"gu_id", "generic_units">>,
   <<"fu_id", "forecasting_units">>}

Tactics == Table({"code", "name", "tactic_type"},
                 {"description", "spend_type", "applicable_channels",
                  "applicable_categories", "is_active", "metadata"})

TacticsReferences == {<<"tenant_id", "tenants">>}

Mechanics == Table({"code", "name", "tactic_id", "mechanic_type"},
                   {"description", "calculation_rules", "min_value",
                    "max_value", "is_active", "metadata"})

MechanicsReferences ==
  {<<"tenant_id", "tenants">>, <<"tactic_id", "tactics">>}

Cpls == Table({"code", "name", "channel_id"},
              {"description", "region_id", "city", "country",
               "contact_person", "contact_email", "contact_phone",
               "customer_tier", "is_vip", "annual_revenue", "status",
               "metadata"})

CplsReferences ==
  {<<"tenant_id", "tenants">>, <<"channel_id", "channels">>,
   <<"region_id", "regions">>}

\* ---- CreateKpis
Kpis == Table({"kpi_code", "kpi_name", "kpi_group", "formula_type",
               "formula_text", "calculation_order", "calculation_level",
               "display_format"},
              {"kpi_description", "depends_on_kpis", "decimal_places",
               "show_in_grid", "column_order", "aggregation_method_fu",
               "rag_green_threshold", "rag_amber_threshold", "is_active",
               "metadata"})

KpisReferences == {<<"tenant_id", "tenants">>}

\* ---- CreatePlans
Plans == Table({"plan_code", "plan_name", "cpl_id", "channel_id",
                "category_id", "start_date", "end_date", "period_month",
                "created_by"},
               {"description", "region_id", "status", "approval_request_id",
                "approved_at", "approved_by", "rejected_at", "rejected_by",
                "rejection_reason", "comments", "total_planned_volume",
                "total_spend", "total_gp", "overall_roi", "rag_status"})

PlansReferences ==
  {<<"tenant_id", "tenants">>, <<"cpl_id", "cpls">>,
   <<"channel_id", "channels">>, <<"category_id", "categories">>,
   <<"region_id", "regions">>, <<"approved_by", "users">>,
   <<"rejected_by", "users">>, <<"approval_request_id", "approval_requests">>}

PlanFus == Table({"plan_id", "fu_id", "created_by"},
                 {"tactics", "total_planned_volume", "total_spend",
                  "total_gp", "gp_roi", "rag_status"})

PlanFusReferences ==
  {<<"tenant_id", "tenants">>, <<"plan_id", "plans">>,
   <<"fu_id", "forecasting_units">>}

PlanSkus == Table({"plan_fu_id", "sku_id", "created_by"},
                  {"base_volume", "planned_volume", "incremental_volume",
                   "planned_turnover", "tactic_spend", "planned_gp", "gp_roi",
                   "rag_status"})

PlanSkusReferences ==
  {<<"tenant_id", "tenants">>, <<"plan_fu_id", "plan_fus">>,
   <<"sku_id", "skus">>}

\* ---- UpdateBudgetAllocationStructure
BudgetAllocations == Table({}, {})

BudgetAllocationsReferences == {<<"cpl_id", "cpls">>}

BudgetTransactionLogs == Table({"budget_allocation_id", "transaction_type"},
                               {"on_invoice_amount", "off_invoice_amount",
                                "plan_id", "description", "idempotency_key"})

BudgetTransactionLogsReferences ==
  {<<"budget_allocation_id", "budget_allocations">>, <<"plan_id", "plans">>,
   <<"created_by", "users">>}

BudgetAlertConfigurations == Table({"alert_level", "notification_channels"},
                                   {"escalation_rules", "is_active",
                                    "metadata"})

\* ---- AddSpendManagementTables
PlanMechanicValues == Table({"plan_fu_id", "mechanic_id"},
                            {"entered_value", "calculated_spend",
                             "on_invoice_amount", "off_invoice_amount",
                             "distribution_method", "metadata"})

PlanMechanicValuesReferences ==
  {<<"plan_fu_id", "plan_fus">>, <<"mechanic_id", "mechanics">>}

MechanicSpendBreakdowns == Table({"plan_sku_id", "mechanic_id",
                                 "plan_mechanic_value_id"},
                                {"calculated_amount", "distribution_basis",
                                 "metadata"})

MechanicSpendBreakdownsReferences ==
  {<<"plan_sku_id", "plan_skus">>, <<"mechanic_id", "mechanics">>,
   <<"plan_mechanic_value_id", "plan_mechanic_values">>}

SpendLtaAgreements == Table({"cpl_id", "channel_id", "effective_date"},
                            {"on_invoice_percentage",
                             "off_invoice_percentage", "expiry_date",
                             "is_active", "description", "metadata"})

SpendLtaAgreementsReferences ==
  {<<"cpl_id", "cpls">>, <<"channel_id", "channels">>}

SpendBudgetAllocations == Table({"envelope_id"},
                                {"on_invoice_budget", "off_invoice_budget",
                                 "utilized_on_invoice",
                                 "utilized_off_invoice", "alert_thresholds",
                                 "metadata"})

SpendBudgetAllocationsReferences == {<<"envelope_id", "budget_envelopes">>}

\* ---- UpdateLTAAgreementsStructure
LtaAgreements == Table({"cpl_id"}, {})

LtaAgreementsReferences == {<<"cpl_id", "cpls">>}

LtaRates == Table({"lta_agreement_id", "channel", "category",
                   "on_invoice_percentage", "off_invoice_percentage"},
                  {"channel_id", "category_id", "minimum_volume_commitment",
                   "maximum_discount_cap", "payment_terms", "is_active"})

LtaRatesReferences ==
  {<<"lta_agreement_id", "lta_agreements">>, <<"channel_id", "channels">>,
   <<"category_id", "categories">>}

LtaPlanOverrides == Table({"plan_id", "lta_rate_id", "lta_agreement_id"},
                          {"override_on_invoice_pct",
                           "override_off_invoice_pct", "override_reason",
                           "approved_by", "approved_at"})

LtaPlanOverridesReferences ==
  {<<"plan_id", "plans">>, <<"lta_rate_id", "lta_rates">>,
   <<"lta_agreement_id", "lta_agreements">>, <<"approved_by", "users">>}

\* ---- AddApprovalWorkflowFieldsToPlans
PlanApprovalHistory == Columns({"tenant_id", "plan_id", "action",
                                "actioned_by"},
                               {"id", "comments", "rejection_reason",
                                "escalation_reason", "specific_changes",
                                "metadata", "created_at", "updated_at",
                                "deleted_at"})

PlanApprovalHistoryReferences ==
  {<<"plan_id", "plans">>, <<"tenant_id", "tenants">>,
   <<"actioned_by", "users">>}

\* ---- CreateOnInvoiceTables
OnInvoiceBatches == Table({"batch_code", "fiscal_period"},
                          {"status", "total_rows", "valid_rows", "error_rows",
                           "total_discount_amount",
                           "affected_envelopes_count", "file_name",
                           "file_size", "validation_summary", "metadata"})

OnInvoiceBatchesReferences ==
  {<<"tenant_id", "tenants">>, <<"created_by", "users">>,
   <<"updated_by", "users">>}

OnInvoiceEntries == Table({"batch_id", "invoice_no", "invoice_date",
                           "fiscal_period", "customer_id", "customer_code",
                           "sku_id", "sku_code", "quantity", "list_price",
                           "actual_price", "discount", "discount_type",
                           "row_number", "idempotency_key"},
                          {"currency", "status", "validation_status",
                           "validation_errors", "budget_envelope_id",
                           "metadata"})

OnInvoiceEntriesReferences ==
  {<<"tenant_id", "tenants">>, <<"batch_id", "on_invoice_batches">>,
   <<"customer_id", "customers">>, <<"sku_id", "skus">>,
   <<"budget_envelope_id", "budget_envelopes">>, <<"created_by", "users">>,
   <<"updated_by", "users">>}

=============================================================================
