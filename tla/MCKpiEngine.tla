----------------------------- MODULE MCKpiEngine -----------------------------
(***************************************************************************)
(* An instance of KpiEngine for TLC.                                       *)
(***************************************************************************)
EXTENDS KpiEngine, TLC

\* One KPI, calculated for each SKU; the FU level receives it and skips it.
SkuLevel == [k \in Kpis |-> "sku"]
TwoLevels == {"sku", "fu"}

KpiSymmetry == UNION {Permutations(S) : S \in {Texts, Types, Callers}}

=============================================================================
