-------------------- MODULE MCAgreementTransactionService --------------------
(***************************************************************************)
(* Instances of AgreementTransactionService for TLC.                       *)
(***************************************************************************)
EXTENDS AgreementTransactionService, TLC

\* What an agreement goes through to be invoiced, and to stop being so.
InvoicedOperations == {"create", "submit", "approve", "cancel", "envelope"}

\* One invoice fits under the cap of the agreement, two do not.
Allocation == [e \in Envelopes |-> 6]
CapOfFour == {4}
AmountOfThree == {3}

\* The period is left to the agreement, or one without an envelope is named.
PeriodsGiven == {NoPeriod, "other"}

\* Numbers for the period of the agreement, and texts for the other.
RowsOfTwoKinds ==
    {r \in Rows : (r.form = "number") <=> (r.period = NoPeriod)}

PostingSymmetry == UNION {Permutations(S) : S \in {Users, Envelopes, Posters,
                                                   InvoiceNumbers}}

=============================================================================
