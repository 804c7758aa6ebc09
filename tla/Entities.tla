------------------------------ MODULE Entities ------------------------------
(***************************************************************************)
(* What the program expects of its database: for each TypeORM entity the   *)
(* columns it maps (src/src/database/entities, named by the naming         *)
(* strategy of typeorm.config.ts), the list of entities that               *)
(* database.module.ts registers with the table each is mapped to, and the  *)
(* labels of the enums that a later migration extends.                     *)
(***************************************************************************)

\* base.entity.ts: the columns every other entity inherits.
Entity(columns) ==
  {"id", "tenant_id", "created_at", "updated_at", "deleted_at", "created_by",
   "updated_by"} \cup columns

AdminAuditLog == {"id", "tenant_id", "admin_id", "admin_email", "action_type",
                  "entity_type", "entity_id", "ip_address", "result",
                  "before_values", "after_values", "justification",
                  "is_high_risk", "alert_sent", "created_at"}

AgreementTransaction == Entity({"agreement_id", "invoice_no", "invoice_date",
                                "fiscal_period", "amount", "currency",
                                "cpl_id", "batch_id", "row_number",
                                "idempotency_key", "notes", "metadata"})

Agreement == Entity({"agreement_code", "agreement_name", "description",
                     "agreement_type", "cpl_id", "channel_id", "region_id",
                     "category_id", "gu_id", "fu_id", "sku_scope",
                     "tactic_id", "mechanic_id", "mechanic_value",
                     "mechanic_type", "currency", "cap_total_amount",
                     "spend_type", "start_date", "end_date", "period_month",
                     "reconciliation_period", "justification", "notes",
                     "status", "approval_request_id", "approved_at",
                     "approved_by", "rejected_at", "rejected_by",
                     "rejection_reason", "consumed_amount", "current_price",
                     "expected_price", "competitor_price", "competitor_name",
                     "additional_params", "kpi_results"})

ApprovalRequest == Entity({"request_type", "entity_type", "entity_id",
                           "requested_by_id", "requested_at",
                           "approval_policy_id", "approval_levels",
                           "current_level", "status", "approved_at",
                           "approved_by_id", "rejected_at", "rejected_by_id",
                           "rejection_reason", "cancelled_at",
                           "cancelled_by_id", "metadata"})

Brand == Entity({"code", "name", "description", "is_active", "metadata"})

BudgetAlertConfiguration == Entity({"alert_level", "notification_channels",
                                    "escalation_rules", "is_active",
                                    "metadata"})

BudgetAllocation == Entity({"period_type", "period_start", "period_end",
                            "fiscal_year", "cpl_id", "channel", "category",
                            "on_invoice_budget", "off_invoice_budget",
                            "total_budget", "on_invoice_utilized",
                            "off_invoice_utilized", "on_invoice_reserved",
                            "off_invoice_reserved", "on_invoice_available",
                            "off_invoice_available", "alert_threshold_80",
                            "alert_threshold_95", "alert_threshold_100",
                            "alert_recipients", "hard_limit_mode",
                            "allow_carry_forward", "metadata"})

BudgetEnvelope == Entity({"code", "name", "fiscal_year", "period",
                          "allocated_amount", "consumed_amount",
                          "available_amount", "status", "budget_owner_id",
                          "budget_owner_email", "budget_owner_name",
                          "channel", "category", "channel_id", "category_id",
                          "currency", "description", "metadata"})

BudgetTransactionLog == Entity({"budget_allocation_id", "transaction_type",
                                "on_invoice_amount", "off_invoice_amount",
                                "plan_id", "description", "idempotency_key"})

BudgetTransaction == Entity({"envelope_id", "tx_type", "tx_status",
                             "source_type", "source_id", "amount", "currency",
                             "idempotency_key", "description", "notes",
                             "metadata"})

Category == Entity({"code", "name", "description", "parent_category_id",
                    "level", "is_active", "metadata"})

Channel == Entity({"code", "name", "description", "subchannel", "sort_order",
                   "is_active", "metadata"})

Cpl == Entity({"code", "name", "description", "channel_id", "region_id",
               "city", "country", "contact_person", "contact_email",
               "contact_phone", "customer_tier", "is_vip", "annual_revenue",
               "status", "metadata"})

Customer == Entity({"code", "name", "channel", "type", "status", "city",
                    "district", "region", "country", "address", "postal_code",
                    "tax_number", "tax_office", "company_registration_number",
                    "contact_person", "contact_email", "contact_phone",
                    "contact_mobile", "payment_terms", "credit_limit",
                    "currency", "sales_representative", "account_manager",
                    "customer_group", "customer_segment", "customer_tier",
                    "business_size", "annual_revenue", "last_order_date",
                    "first_order_date", "total_orders", "number_of_branches",
                    "metadata", "notes", "is_vip", "contract_start_date",
                    "contract_end_date", "cpl_id"})

ForecastingUnit == Entity({"code", "name", "description", "gu_id", "size",
                           "segment", "is_plannable", "default_base_volume",
                           "base_price", "currency", "unit_of_measure",
                           "is_active", "metadata"})

GenericUnit == Entity({"code", "name", "description", "brand_id",
                       "category_id", "is_active", "metadata"})

Kpi == Entity({"kpi_code", "kpi_name", "kpi_group", "kpi_description",
               "formula_type", "formula_text", "depends_on_kpis",
               "calculation_order", "calculation_level", "display_format",
               "decimal_places", "show_in_grid", "column_order",
               "aggregation_method_fu", "rag_green_threshold",
               "rag_amber_threshold", "is_active", "metadata"})

LedgerEntry == Entity({"source_type", "source_id", "agreement_id",
                       "spend_type", "entry_direction", "amount", "currency",
                       "period_month", "posting_date", "channel", "cpl_id",
                       "fu_id", "tactic_id", "mechanic_id",
                       "budget_envelope_id", "idempotency_key", "description",
                       "metadata"})

LTAAgreement == Entity({"cpl_id", "agreement_name", "agreement_code",
                        "effective_date", "expiry_date", "status",
                        "total_agreement_value", "notes"})

LTAPlanOverride == Entity({"plan_id", "lta_rate_id", "lta_agreement_id",
                           "override_on_invoice_pct",
                           "override_off_invoice_pct", "override_reason",
                           "approved_by", "approved_at"})

LTARate == Entity({"lta_agreement_id", "channel_id", "channel", "category_id",
                   "category", "on_invoice_percentage",
                   "off_invoice_percentage", "minimum_volume_commitment",
                   "maximum_discount_cap", "payment_terms", "is_active"})

MechanicSpendBreakdown == Entity({"plan_sku_id", "mechanic_id",
                                  "plan_mechanic_value_id",
                                  "calculated_amount", "distribution_basis",
                                  "metadata"})

Mechanic == Entity({"code", "name", "description", "tactic_id",
                    "mechanic_type", "calculation_rules", "spending_type",
                    "calculation_formula", "applicability_rules",
                    "input_constraints", "min_value", "max_value",
                    "is_active", "category", "input_type", "default_value",
                    "step_increment", "decimal_places", "unit_symbol",
                    "formula_variables", "formula_validation_status",
                    "test_data", "applicable_channels",
                    "applicable_categories", "applicable_cpls",
                    "exclusion_rules", "show_in_grid", "grid_column_order",
                    "grid_column_width", "group_header",
                    "track_against_budget", "budget_type",
                    "requires_approval_threshold", "approval_flow",
                    "mutually_exclusive_with",
                    "max_combined_discount_percentage",
                    "combination_warnings", "metadata"})

Notification == Entity({"type", "recipient_id", "recipient_email",
                        "recipient_name", "channel", "priority", "status",
                        "subject", "body", "metadata", "sent_at", "read_at",
                        "expires_at"})

OnInvoiceBatch == Entity({"batch_code", "status", "fiscal_period",
                          "total_rows", "valid_rows", "error_rows",
                          "total_discount_amount", "affected_envelopes_count",
                          "file_name", "file_size", "validation_summary",
                          "metadata"})

OnInvoiceEntry == Entity({"batch_id", "invoice_no", "invoice_date",
                          "fiscal_period", "customer_id", "customer_code",
                          "sku_id", "sku_code", "quantity", "list_price",
                          "actual_price", "discount", "discount_type",
                          "currency", "status", "validation_status",
                          "validation_errors", "row_number",
                          "budget_envelope_id", "idempotency_key", "metadata"})

PlanMechanicValue == Entity({"plan_fu_id", "mechanic_id", "entered_value",
                             "calculated_spend", "on_invoice_amount",
                             "off_invoice_amount", "distribution_method",
                             "metadata"})

Plan == Entity({"plan_code", "plan_name", "description", "cpl_id",
                "channel_id", "region_id", "category_id", "start_date",
                "end_date", "period_month", "status", "approval_request_id",
                "approved_at", "approved_by", "rejected_at", "rejected_by",
                "rejection_reason", "comments", "submission_notes",
                "submitted_at", "submitted_by", "pending_finance_review",
                "escalation_reason", "escalated_at", "escalated_by",
                "on_invoice_spend", "off_invoice_spend",
                "total_planned_volume", "total_spend", "total_gp",
                "overall_roi", "rag_status"})

PlanFu == Entity({"plan_id", "fu_id", "tactics", "total_planned_volume",
                  "total_spend", "total_gp", "gp_roi", "rag_status",
                  "calculated_kpis"})

PlanSku == Entity({"plan_fu_id", "sku_id", "base_volume", "planned_volume",
                   "incremental_volume", "planned_turnover", "tactic_spend",
                   "planned_gp", "gp_roi", "rag_status", "calculated_kpis",
                   "base_lta_on_invoice_spend", "base_lta_off_invoice_spend",
                   "planned_lta_on_invoice_spend",
                   "planned_lta_off_invoice_spend", "promo_on_invoice_spend",
                   "promo_off_invoice_spend"})

Region == Entity({"code", "name", "description", "parent_region_id", "level",
                  "country", "is_active", "metadata"})

Sku == Entity({"code", "name", "description", "gu_id", "fu_id", "variant",
               "size", "barcode", "unit_price", "cogs", "currency",
               "unit_of_measure", "is_active", "metadata"})

Tactic == Entity({"code", "name", "description", "tactic_type", "spend_type",
                  "applicable_channels", "applicable_categories", "is_active",
                  "metadata"})

Tenant == {"id", "name", "domain", "status", "plan", "contact_email",
           "contact_phone", "contact_person", "address", "city", "country",
           "postal_code", "tax_number", "company_registration_number",
           "industry", "settings", "subscription_start_date",
           "subscription_end_date", "max_users", "max_storage_gb",
           "current_storage_gb", "metadata", "notes", "created_at",
           "updated_at", "deleted_at"}

UserScope == Entity({"user_id", "cpl_id", "category_id", "channel_id",
                     "is_active"})

User == Entity({"email", "password_hash", "role", "status", "full_name",
                "first_name", "last_name", "phone_number", "department",
                "job_title", "avatar_url", "last_login_at", "login_count",
                "failed_login_attempts", "locked_until",
                "password_changed_at", "must_change_password",
                "refresh_token", "email_verified", "email_verification_token",
                "email_verification_expires", "password_reset_token",
                "password_reset_expires", "preferences", "permissions"})

\* The registered entities, by the table each is mapped to.
Registered ==
  [users |-> User,
   tenants |-> Tenant,
   customers |-> Customer,
   budget_envelopes |-> BudgetEnvelope,
   budget_transactions |-> BudgetTransaction,
   notifications |-> Notification,
   admin_audit_logs |-> AdminAuditLog,
   agreements |-> Agreement,
   approval_requests |-> ApprovalRequest,
   ledger_entries |-> LedgerEntry,
   agreement_transactions |-> AgreementTransaction,
   on_invoice_entries |-> OnInvoiceEntry,
   on_invoice_batches |-> OnInvoiceBatch,
   brands |-> Brand,
   categories |-> Category,
   channels |-> Channel,
   cpls |-> Cpl,
   forecasting_units |-> ForecastingUnit,
   generic_units |-> GenericUnit,
   mechanics |-> Mechanic,
   regions |-> Region,
   skus |-> Sku,
   tactics |-> Tactic,
   kpis |-> Kpi,
   user_scopes |-> UserScope,
   plans |-> Plan,
   plan_fus |-> PlanFu,
   plan_skus |-> PlanSku,
   plan_mechanic_values |-> PlanMechanicValue,
   mechanic_spend_breakdown |-> MechanicSpendBreakdown,
   lta_agreements |-> LTAAgreement,
   lta_rates |-> LTARate,
   lta_plan_overrides |-> LTAPlanOverride,
   budget_allocations |-> BudgetAllocation,
   budget_transaction_logs |-> BudgetTransactionLog,
   budget_alert_configurations |-> BudgetAlertConfiguration]

\* The enum values the program writes, by the type of the column.
Labels ==
  [users_role_enum |->
     {"ADMIN", "PLANNER", "APPROVER", "FINANCE", "FINANCE_MANAGER",
      "CATEGORY_MANAGER"},
   approval_requests_request_type_enum |->
     {"AGREEMENT", "PLAN", "BUDGET_TRANSFER", "IMPORT_BATCH", "OTHER"},
   plans_plan_status_enum |->
     {"DRAFT", "PENDING_APPROVAL", "PENDING_FINANCE_REVIEW", "APPROVED",
      "REJECTED"}]

=============================================================================
