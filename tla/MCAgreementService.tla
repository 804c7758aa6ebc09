-------------------------- MODULE MCAgreementService --------------------------
(***************************************************************************)
(* Instances of AgreementService for TLC.  Identifiers are model values;   *)
(* the .cfg files choose how many handlers and which operations there are. *)
(***************************************************************************)
EXTENDS AgreementService, TLC

\* Every operation; without the ones that decide a request on its own; only
\* what a reservation needs to go wrong.
AllOperations == {"create", "update", "delete", "submit", "approve", "reject",
                  "cancel", "direct", "envelope"}
WorkflowOperations == AllOperations \ {"direct"}
ApprovalOperations == {"create", "submit", "approve", "reject", "envelope"}

\* Amounts of one digit compare as text the way they compare as numbers ...
SmallAllocation == [e \in Envelopes |-> 6]
SmallCaps == {3, 4}
OneCap == {4}
\* ... and amounts of different lengths do not.
MixedAllocation == [e \in Envelopes |-> 9]
MixedCaps == {5, 10}

\* All envelopes of an instance are allocated the same amount.
Symmetry == UNION {Permutations(S) : S \in {Handlers, Users, Envelopes,
                                            Documents}}

=============================================================================
