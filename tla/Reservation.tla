----------------------------- MODULE Reservation -----------------------------
(***************************************************************************)
(* What BudgetService promises its clients: a document takes budget from   *)
(* one envelope at most once, keeps to that envelope, and gives the budget *)
(* back at most once, after it took it.                                    *)
(***************************************************************************)
EXTENDS Documents

CONSTANTS Envelopes, NoEnvelope

VARIABLES phase,    \* document -> whether it holds budget
          from      \* document -> the envelope it took budget from

Init == /\ phase = [d \in Documents |-> "none"]
        /\ from = [d \in Documents |-> NoEnvelope]

Reserve(d, e) == /\ phase[d] = "none"
                 /\ phase' = [phase EXCEPT ![d] = "held"]
                 /\ from' = [from EXCEPT ![d] = e]

Release(d) == /\ phase[d] = "held"
              /\ phase' = [phase EXCEPT ![d] = "freed"]
              /\ UNCHANGED from

Next == \E d \in Documents : \/ \E e \in Envelopes : Reserve(d, e)
                             \/ Release(d)

Spec == Init /\ [][Next]_<<phase, from>>

=============================================================================
