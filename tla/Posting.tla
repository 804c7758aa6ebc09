------------------------------- MODULE Posting -------------------------------
(***************************************************************************)
(* What a client of the actuals believes: an invoice is recorded once, its *)
(* amount never changes, and its spend is charged to at most one envelope, *)
(* once, for that amount.                                                  *)
(***************************************************************************)
EXTENDS Integers

CONSTANTS Invoices,     \* what a client may record
          Amounts,      \* what an invoice may be about
          Envelopes     \* what a charge may go to

VARIABLES recorded,     \* invoice -> its amount, 0 before it is recorded
          charged,      \* invoice -> the sum of what was charged for it
          chargedTo     \* invoice -> the envelopes charged for it

PostingInit == /\ recorded = [i \in Invoices |-> 0]
               /\ charged = [i \in Invoices |-> 0]
               /\ chargedTo = [i \in Invoices |-> {}]

Record(i, amount) == /\ recorded[i] = 0
                     /\ recorded' = [recorded EXCEPT ![i] = amount]
                     /\ UNCHANGED <<charged, chargedTo>>

Charge(i, e) == /\ recorded[i] # 0
                /\ chargedTo[i] = {}
                /\ chargedTo' = [chargedTo EXCEPT ![i] = {e}]
                /\ charged' = [charged EXCEPT ![i] = recorded[i]]
                /\ UNCHANGED recorded

PostingNext == \E i \in Invoices : \/ \E amount \in Amounts : Record(i, amount)
                                   \/ \E e \in Envelopes : Charge(i, e)

PostingSpec == PostingInit /\ [][PostingNext]_<<recorded, charged, chargedTo>>

=============================================================================
