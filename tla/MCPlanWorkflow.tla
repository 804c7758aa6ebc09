---------------------------- MODULE MCPlanWorkflow ----------------------------
(***************************************************************************)
(* Instances of PlanWorkflow for TLC.  Identifiers are model values; the   *)
(* .cfg files choose how many handlers and which operations there are.     *)
(***************************************************************************)
EXTENDS PlanWorkflow, TLC

AllOperations == (Ops \ {"none"}) \cup {"create", "envelope"}
\* An escalation only moves a status; its races are those of the other reviews.
WorkflowOperations == AllOperations \ {"direct", "escalate"}
\* The route of ApprovalWorkflowService on its own.
ReviewOperations == {"create", "edit", "submitForApproval", "reviewApprove",
                     "envelope"}

\* Amounts of one digit compare as text the way they compare as numbers.
SmallAllocation == [e \in Envelopes |-> 6]

\* A plan with spend of both kinds, and one that has lost its forecasting
\* units (Empty).
BothKinds == [fus |-> "tactics", on |-> 2, off |-> 1]

OneEdit == {BothKinds}
TwoEdits == {BothKinds, Empty}

Symmetry == UNION {Permutations(S) : S \in {Handlers, Users, Documents}}

=============================================================================
