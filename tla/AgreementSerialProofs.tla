------------------------ MODULE AgreementSerialProofs ------------------------
(***************************************************************************)
(* Proofs about AgreementService when its calls keep apart, wherever they  *)
(* die: as long as no two of them rely on the same agreement (Apart), what *)
(* a call has read of its agreement is still so when it writes.  Calls on  *)
(* different agreements interleave freely, and share requests, envelopes   *)
(* and the table of transactions.                                          *)
(***************************************************************************)
EXTENDS AgreementServiceProofs, FiniteSetTheorems

\* The comparison of texts refuses every amount that is less than a cap.
TextRefuses == \A c \in Caps, x \in Int : TextGeq(x, c) => x >= c

-----------------------------------------------------------------------------
(***************************************************************************)
(* What SUM(amount) is, for any finite set of rows: the fold of Total      *)
(* takes the rows in the order CHOOSE picks them, and the sum is the same  *)
(* whichever comes first.  Each proof is by induction on the set of rows,  *)
(* in the form: of the sets for which a statement fails, none is minimal.  *)
(***************************************************************************)

\* h is the function the fold builds over the rows S of a table.
Sums(h, table, S) ==
    h = [s \in SUBSET S |->
           IF s = {} THEN 0
           ELSE LET x == CHOOSE x \in s : TRUE
                IN  table[x].amount + h[s \ {x}]]

\* Induction on a finite set: of some of its subsets one is minimal.
LEMMA MinimalSubset ==
    ASSUME NEW S, IsFiniteSet(S), NEW F \in SUBSET SUBSET S, F # {}
    PROVE  \E m \in F : \A t \in F : t \subseteq m => t = m
<1>1. IsWellFoundedOn(StrictSubsetOrdering(S), SUBSET S)
  BY FS_FiniteSubsetsOfFinite, FS_StrictSubsetOrderingWellFounded
<1>2. \E m \in F : \A t \in F : <<t, m>> \notin StrictSubsetOrdering(S)
  BY <1>1, WFMin
<1>3. QED
  BY <1>2 DEF StrictSubsetOrdering

\* What h is on the empty set, and on any other set.
LEMMA SumsAt ==
    ASSUME NEW h, NEW table, NEW S, Sums(h, table, S)
    PROVE  /\ h[{}] = 0
           /\ \A s \in SUBSET S : s # {} =>
                \E x \in s : /\ x = CHOOSE y \in s : TRUE
                             /\ h[s] = table[x].amount + h[s \ {x}]
<1>1. h[{}] = 0
  BY DEF Sums
<1>2. ASSUME NEW s \in SUBSET S, s # {}
      PROVE  \E x \in s : /\ x = CHOOSE y \in s : TRUE
                          /\ h[s] = table[x].amount + h[s \ {x}]
  <2>1. PICK x : x = CHOOSE y \in s : TRUE
    OBVIOUS
  <2>2. x \in s
    BY <1>2, <2>1
  <2>3. h[s] = table[x].amount + h[s \ {x}]
    BY <1>2, <2>1 DEF Sums
  <2>4. QED
    BY <2>1, <2>2, <2>3
<1>3. QED
  BY <1>1, <1>2

\* There is at most one such function.
LEMMA SumsUnique ==
    ASSUME NEW S, IsFiniteSet(S), NEW table, NEW g, NEW h,
           Sums(g, table, S), Sums(h, table, S)
    PROVE  \A s \in SUBSET S : g[s] = h[s]
<1> DEFINE F == {s \in SUBSET S : g[s] # h[s]}
<1>1. SUFFICES ASSUME F # {} PROVE FALSE
  OBVIOUS
<1>2. F \in SUBSET SUBSET S
  OBVIOUS
<1>3. PICK m \in F : \A t \in F : t \subseteq m => t = m
  <2> HIDE DEF F
  <2>1. QED
    BY <1>1, <1>2, MinimalSubset
<1>4. m \in SUBSET S /\ g[m] # h[m]
  BY <1>3
<1>5. m # {}
  BY <1>4, SumsAt
<1>6. PICK x \in m : /\ x = CHOOSE y \in m : TRUE
                     /\ g[m] = table[x].amount + g[m \ {x}]
  BY <1>4, <1>5, SumsAt
<1>7. PICK z \in m : /\ z = CHOOSE y \in m : TRUE
                     /\ h[m] = table[z].amount + h[m \ {z}]
  BY <1>4, <1>5, SumsAt
<1>8. x = z
  BY <1>6, <1>7
<1>9. m \ {x} \notin F
  BY <1>3
<1>10. g[m \ {x}] = h[m \ {x}]
  BY <1>4, <1>9
<1>11. QED
  BY <1>4, <1>6, <1>7, <1>8, <1>10

\* Total is the value at S of the function the fold builds over S, if there
\* is one.
LEMMA TotalIs ==
    ASSUME NEW S, IsFiniteSet(S), NEW table, NEW h, Sums(h, table, S)
    PROVE  Total(table, S) = h[S]
<1> DEFINE iter == CHOOSE g : Sums(g, table, S)
<1>1. Sums(iter, table, S)
  OBVIOUS
<1>2. iter[S] = h[S]
  <2> HIDE DEF iter
  <2>1. QED
    BY <1>1, SumsUnique
<1>3. QED
  BY <1>2 DEF Total, MapThenSumSet, MapThenFoldSet, Sums

\* The sum over nothing is zero.
LEMMA TotalOfNone ==
    ASSUME NEW table
    PROVE  Total(table, {}) = 0
<1> DEFINE g == [s \in SUBSET {} |-> 0]
<1>1. Sums(g, table, {})
  BY DEF Sums
<1>2. IsFiniteSet({}) /\ g[{}] = 0
  BY FS_EmptySet
<1>3. QED
  <2> HIDE DEF g
  <2>1. QED
    BY <1>1, <1>2, TotalIs

\* The totals of the subsets of a finite set are that function.
LEMMA TotalsSum ==
    ASSUME NEW S, IsFiniteSet(S), NEW table
    PROVE  Sums([s \in SUBSET S |-> Total(table, s)], table, S)
<1> DEFINE G(R) == [s \in SUBSET R |-> Total(table, s)]
           F == {s \in SUBSET S : ~Sums(G(s), table, s)}
<1>1. SUFFICES ASSUME F # {} PROVE FALSE
  BY DEF Sums
<1>2. F \in SUBSET SUBSET S
  OBVIOUS
<1>3. PICK m \in F : \A t \in F : t \subseteq m => t = m
  <2> HIDE DEF F
  <2>1. QED
    BY <1>1, <1>2, MinimalSubset
<1>4. m \in SUBSET S /\ ~Sums(G(m), table, m)
  BY <1>3
<1>5. \A t \in SUBSET m : t # m => Sums(G(t), table, t)
  BY <1>3, <1>4
<1> DEFINE first(s) == CHOOSE x \in s : TRUE
           sum(s) == table[first(s)].amount + Total(table, s \ {first(s)})
           h == [s \in SUBSET m |-> IF s = m /\ m # {} THEN sum(m)
                                    ELSE Total(table, s)]
<1>6. \A t \in SUBSET m : t # m =>
        Total(table, t) = IF t = {} THEN 0 ELSE sum(t)
  <2> SUFFICES ASSUME NEW t \in SUBSET m, t # m
               PROVE  Total(table, t) = IF t = {} THEN 0 ELSE sum(t)
    OBVIOUS
  <2>1. Sums(G(t), table, t)
    BY <1>5
  <2>2. G(t)[t] = IF t = {} THEN 0
                  ELSE table[first(t)].amount + G(t)[t \ {first(t)}]
    BY <2>1 DEF Sums
  <2>3. G(t)[t] = Total(table, t)
    OBVIOUS
  <2>4. G(t)[t \ {first(t)}] = Total(table, t \ {first(t)})
    OBVIOUS
  <2>5. QED
    BY <2>2, <2>3, <2>4
<1>7. m = {} => Total(table, m) = 0
  BY TotalOfNone
<1>8. \A s \in SUBSET m : s # {} => first(s) \in s
  OBVIOUS
<1>9. Sums(h, table, m)
  <2>1. ASSUME NEW s \in SUBSET m
        PROVE  h[s] = IF s = {} THEN 0
                      ELSE table[first(s)].amount + h[s \ {first(s)}]
    <3>1. CASE s = {}
      <4>1. h[s] = Total(table, {})
        BY <3>1
      <4>2. QED
        BY <3>1, <4>1, TotalOfNone
    <3>2. CASE s # {}
      <4>1. h[s] = sum(s)
        <5>1. CASE s = m
          BY <3>2, <5>1
        <5>2. CASE s # m
          <6>1. h[s] = Total(table, s)
            BY <5>2
          <6>2. QED
            BY <1>6, <3>2, <5>2, <6>1
        <5>3. QED
          BY <5>1, <5>2
      <4>2. s \ {first(s)} \in SUBSET m /\ s \ {first(s)} # m
        BY <1>8, <3>2
      <4>3. h[s \ {first(s)}] = Total(table, s \ {first(s)})
        BY <4>2
      <4>4. QED
        BY <3>2, <4>1, <4>3
    <3>3. QED
      BY <3>1, <3>2
  <2>2. h = [s \in SUBSET m |->
               IF s = {} THEN 0
               ELSE table[first(s)].amount + h[s \ {first(s)}]]
    <3>1. h = [s \in SUBSET m |-> h[s]]
      OBVIOUS
    <3> HIDE DEF h, first
    <3>2. QED
      BY <2>1, <3>1
  <2>3. QED
    <3> HIDE DEF h
    <3>1. QED
      BY <2>2 DEF Sums
<1>10. Total(table, m) = h[m]
  <2>1. IsFiniteSet(m)
    BY <1>4, FS_Subset
  <2> HIDE DEF h
  <2>2. QED
    BY <1>9, <2>1, TotalIs
<1>11. \A s \in SUBSET m : h[s] = Total(table, s)
  <2>1. \A s \in SUBSET m : s # m => h[s] = Total(table, s)
    OBVIOUS
  <2> HIDE DEF h
  <2>2. QED
    BY <1>10, <2>1
<1>12. h = G(m)
  <2>1. h = [s \in SUBSET m |-> h[s]]
    OBVIOUS
  <2> HIDE DEF h
  <2>2. QED
    BY <1>11, <2>1
<1>13. QED
  <2> HIDE DEF h, G
  <2>1. QED
    BY <1>4, <1>9, <1>12

\* What is left when one row is taken away, whichever CHOOSE would take.
LEMMA TotalStep ==
    ASSUME NEW S, IsFiniteSet(S), S # {}, NEW table
    PROVE  \E x \in S : Total(table, S) = table[x].amount
                                            + Total(table, S \ {x})
<1> DEFINE h == [s \in SUBSET S |-> Total(table, s)]
<1>1. Sums(h, table, S)
  BY TotalsSum
<1>2. PICK x \in S : h[S] = table[x].amount + h[S \ {x}]
  <2> HIDE DEF h
  <2>1. QED
    BY <1>1, SumsAt
<1>3. QED
  BY <1>2

\* Amounts are natural numbers, and so is their sum.
LEMMA TotalInNat ==
    ASSUME NEW S, IsFiniteSet(S), NEW table, \A i \in S : table[i].amount \in Nat
    PROVE  Total(table, S) \in Nat
<1> DEFINE F == {s \in SUBSET S : Total(table, s) \notin Nat}
<1>1. SUFFICES ASSUME F # {} PROVE FALSE
  OBVIOUS
<1>2. F \in SUBSET SUBSET S
  OBVIOUS
<1>3. PICK m \in F : \A t \in F : t \subseteq m => t = m
  <2> HIDE DEF F
  <2>1. QED
    BY <1>1, <1>2, MinimalSubset
<1>4. m \in SUBSET S /\ Total(table, m) \notin Nat /\ IsFiniteSet(m)
  BY <1>3, FS_Subset
<1>5. m # {}
  BY <1>4, TotalOfNone
<1>6. PICK x \in m : Total(table, m) = table[x].amount + Total(table, m \ {x})
  BY <1>4, <1>5, TotalStep
<1>7. Total(table, m \ {x}) \in Nat
  BY <1>3, <1>4
<1>8. QED
  BY <1>4, <1>6, <1>7

\* Amounts are whole numbers, and so is their sum.
LEMMA TotalInInt ==
    ASSUME NEW S, IsFiniteSet(S), NEW table, \A i \in S : table[i].amount \in Int
    PROVE  Total(table, S) \in Int
<1> DEFINE F == {s \in SUBSET S : Total(table, s) \notin Int}
<1>1. SUFFICES ASSUME F # {} PROVE FALSE
  OBVIOUS
<1>2. F \in SUBSET SUBSET S
  OBVIOUS
<1>3. PICK m \in F : \A t \in F : t \subseteq m => t = m
  <2> HIDE DEF F
  <2>1. QED
    BY <1>1, <1>2, MinimalSubset
<1>4. m \in SUBSET S /\ Total(table, m) \notin Int /\ IsFiniteSet(m)
  BY <1>3, FS_Subset
<1>5. m # {}
  BY <1>4, TotalOfNone
<1>6. PICK x \in m : Total(table, m) = table[x].amount + Total(table, m \ {x})
  BY <1>4, <1>5, TotalStep
<1>7. Total(table, m \ {x}) \in Int
  BY <1>3, <1>4
<1>8. QED
  BY <1>4, <1>6, <1>7

\* The sum is that of any one row and that of the others: the order in which
\* the fold takes the rows does not matter.
LEMMA TotalMinus ==
    ASSUME NEW S, IsFiniteSet(S), NEW table, NEW y \in S,
           \A i \in S : table[i].amount \in Int
    PROVE  Total(table, S) = table[y].amount + Total(table, S \ {y})
<1> DEFINE F == {s \in SUBSET S :
                   \E z \in s : Total(table, s)
                                  # table[z].amount + Total(table, s \ {z})}
<1>1. SUFFICES ASSUME F # {} PROVE FALSE
  OBVIOUS
<1>2. F \in SUBSET SUBSET S
  OBVIOUS
<1>3. PICK m \in F : \A t \in F : t \subseteq m => t = m
  <2> HIDE DEF F
  <2>1. QED
    BY <1>1, <1>2, MinimalSubset
<1>4. m \in SUBSET S /\ IsFiniteSet(m)
  BY <1>3, FS_Subset
<1>5. PICK z \in m :
        Total(table, m) # table[z].amount + Total(table, m \ {z})
  BY <1>3
<1>6. PICK x \in m : Total(table, m) = table[x].amount + Total(table, m \ {x})
  BY <1>4, TotalStep
<1>7. x # z
  BY <1>5, <1>6
<1>8. m \ {x} \notin F /\ m \ {z} \notin F
  BY <1>3
<1>9. Total(table, m \ {x}) =
        table[z].amount + Total(table, (m \ {x}) \ {z})
  BY <1>4, <1>7, <1>8
<1>10. Total(table, m \ {z}) =
         table[x].amount + Total(table, (m \ {z}) \ {x})
  BY <1>4, <1>7, <1>8
<1>11. (m \ {x}) \ {z} = (m \ {z}) \ {x}
  OBVIOUS
<1>12. Total(table, (m \ {z}) \ {x}) \in Int
  <2>1. IsFiniteSet((m \ {z}) \ {x})
    BY <1>4, FS_Subset
  <2>2. QED
    BY <1>4, <2>1, TotalInInt
<1>13. table[x].amount \in Int /\ table[z].amount \in Int
  BY <1>4
<1>14. PICK rest, a, b : /\ rest = Total(table, (m \ {z}) \ {x})
                         /\ a = table[x].amount /\ b = table[z].amount
  OBVIOUS
<1>15. Total(table, m) = a + (b + rest)
  BY <1>6, <1>9, <1>11, <1>14
<1>16. table[z].amount + Total(table, m \ {z}) = b + (a + rest)
  BY <1>10, <1>14
<1>17. a + (b + rest) = b + (a + rest)
  BY <1>12, <1>13, <1>14
<1>18. QED
  BY <1>5, <1>15, <1>16, <1>17

\* A row more adds its amount.
LEMMA TotalPlus ==
    ASSUME NEW S, IsFiniteSet(S), NEW table, NEW y, y \notin S,
           \A i \in S \cup {y} : table[i].amount \in Int
    PROVE  Total(table, S \cup {y}) = table[y].amount + Total(table, S)
<1>1. IsFiniteSet(S \cup {y})
  BY FS_AddElement
<1>2. (S \cup {y}) \ {y} = S
  OBVIOUS
<1>3. QED
  BY <1>1, <1>2, TotalMinus

\* Over one row the sum is its amount.
LEMMA TotalOfOne ==
    ASSUME NEW table, NEW y, table[y].amount \in Int
    PROVE  Total(table, {y}) = table[y].amount
<1>1. IsFiniteSet({}) /\ {} \cup {y} = {y}
  BY FS_EmptySet
<1>2. Total(table, {} \cup {y}) = table[y].amount + Total(table, {})
  BY <1>1, TotalPlus
<1>3. QED
  BY <1>1, <1>2, TotalOfNone

\* The sum depends on the amounts of its rows only.
LEMMA TotalSame ==
    ASSUME NEW S, IsFiniteSet(S), NEW f, NEW g,
           \A i \in S : f[i].amount = g[i].amount,
           \A i \in S : f[i].amount \in Int
    PROVE  Total(f, S) = Total(g, S)
<1> DEFINE F == {s \in SUBSET S : Total(f, s) # Total(g, s)}
<1>1. SUFFICES ASSUME F # {} PROVE FALSE
  OBVIOUS
<1>2. F \in SUBSET SUBSET S
  OBVIOUS
<1>3. PICK m \in F : \A t \in F : t \subseteq m => t = m
  <2> HIDE DEF F
  <2>1. QED
    BY <1>1, <1>2, MinimalSubset
<1>4. m \in SUBSET S /\ IsFiniteSet(m) /\ Total(f, m) # Total(g, m)
  BY <1>3, FS_Subset
<1>5. m # {}
  BY <1>4, TotalOfNone
<1>6. PICK x \in m : Total(f, m) = f[x].amount + Total(f, m \ {x})
  BY <1>4, <1>5, TotalStep
<1>7. Total(g, m) = g[x].amount + Total(g, m \ {x})
  BY <1>4, TotalMinus
<1>8. Total(f, m \ {x}) = Total(g, m \ {x})
  BY <1>3, <1>4
<1>9. QED
  BY <1>4, <1>6, <1>7, <1>8

-----------------------------------------------------------------------------
(* The inductive invariants.                                               *)

\* What a call has read of its agreement is still so.
CallCurrent(h) ==
    LET call == calls[h]
        agreement == agreements[call.agreement]
    IN  /\ call.at \in DraftSteps => agreement.status = "DRAFT"
        /\ call.at \in ApproveSteps \cup RejectSteps =>
               agreement.status = "PENDING" /\ agreement.request = call.request
        /\ call.at \in CancelSteps => agreement.status = "APPROVED"
        /\ call.at \in ApproveSteps \cup CancelSteps =>
               agreement.cap = call.cap

\* What is reserved or released for an agreement is its cap, which cannot
\* change any more.
RowCurrent(row) ==
    /\ agreements[row.source].status \notin {"ABSENT", "DRAFT"}
    /\ agreements[row.source].cap = row.amount

SerialInv == /\ \A h \in Handlers : CallCurrent(h)
             /\ \A i \in DOMAIN transactions : RowCurrent(transactions[i])

\* A call between its decision and its last write has decided the request.
CallDecided(h) ==
    LET call == calls[h]
    IN  /\ call.at = "approve.write" =>
               requests[call.request].status = "APPROVED"
        /\ call.at = "reject.write" =>
               requests[call.request].status = "REJECTED"

StoryInv == /\ \A h \in Handlers : CallDecided(h)
            /\ StatusMatchesRequest

\* A call between the availability test and its reservation can afford it.
CallAffords(h) ==
    LET call == calls[h]
    IN  /\ call.at = "update.write" => call.cap \in Caps
        /\ call.at \in {"approve.key", "approve.reserve"} =>
               call.cap <= AvailableAmount(call.envelope)

CapsInv == \A a \in Documents :
               agreements[a].status # "ABSENT" => agreements[a].cap \in Caps

AffordInv == /\ \A h \in Handlers : CallAffords(h)
             /\ CapsInv
             /\ ledger = <<>>
             /\ NoOvercommitment

-----------------------------------------------------------------------------
(* What a call has read stays so.                                          *)

\* A call that has answered, or decides a request directly, relies on nothing.
LEMMA CurrentOutside ==
    ASSUME NEW h \in Handlers, calls'[h].at \notin RelyingSteps
    PROVE  CallCurrent(h)'
BY DEF CallCurrent, RelyingSteps

\* What Return leaves of a call.
LEMMA ReturnCurrent ==
    ASSUME TypeOK, NEW h \in Handlers, Return(h)
    PROVE  calls'[h].at = "idle" /\ CallCurrent(h)'
<1>1. calls'[h].at = "idle"
  BY DEF Return, TypeOK, Idle
<1>2. QED
  BY <1>1, CurrentOutside DEF RelyingSteps, DraftSteps, ApproveSteps,
     ReservedSteps, RejectSteps, CancelSteps

\* A step from one statement of an operation to another keeps what was read.
LEMMA StepCurrent ==
    ASSUME NEW h \in Handlers, CallCurrent(h), UNCHANGED agreements,
           calls'[h].agreement = calls[h].agreement,
           calls'[h].cap = calls[h].cap,
           \/ calls'[h].at \in DraftSteps /\ calls[h].at \in DraftSteps
           \/ /\ \/ calls'[h].at \in ApproveSteps /\ calls[h].at \in ApproveSteps
                 \/ calls'[h].at \in RejectSteps /\ calls[h].at \in RejectSteps
              /\ calls'[h].request = calls[h].request
           \/ calls'[h].at \in CancelSteps /\ calls[h].at \in CancelSteps
    PROVE  CallCurrent(h)'
BY DEF CallCurrent, DraftSteps, ApproveSteps, ReservedSteps, RejectSteps,
       CancelSteps

\* The reads that open a call read what is there.
LEMMA ArriveCurrent ==
    ASSUME Inv, NEW h \in Handlers, Arrive(h)
    PROVE  CallCurrent(h)'
<1> USE DEF CallCurrent, DraftSteps, ApproveSteps, ReservedSteps, RejectSteps,
            CancelSteps
<1>1. TypeOK /\ calls \in [Handlers -> Calls]
  BY DEF Inv, TypeOK
<1>2. Idle = [at |-> "idle", user |-> NoUser, agreement |-> NoDocument,
              request |-> NoRequest, cap |-> 0, envelope |-> NoEnvelope]
  BY DEF Idle
<1>3. ASSUME NEW a \in Documents, DeleteRead(h, a)
      PROVE  CallCurrent(h)'
  <2> DEFINE call == [Idle EXCEPT !.at = "delete.write", !.agreement = a]
  <2>1. calls'[h] = call /\ agreements' = agreements
        /\ agreements[a].status = "DRAFT"
    BY <1>1, <1>3 DEF DeleteRead, Begin, Found
  <2>2. call.at = "delete.write"
    BY <1>2
  <2>3. QED
    BY <2>1, <2>2
<1>4. ASSUME NEW a \in Documents, NEW cap \in Caps, UpdateRead(h, a, cap)
      PROVE  CallCurrent(h)'
  <2> DEFINE call == [Idle EXCEPT !.at = "update.write", !.agreement = a,
                                  !.cap = cap]
  <2>1. calls'[h] = call /\ agreements' = agreements
        /\ agreements[a].status = "DRAFT"
    BY <1>1, <1>4 DEF UpdateRead, Begin, Found
  <2>2. call.at = "update.write" /\ call.agreement = a
    BY <1>2
  <2>3. QED
    BY <2>1, <2>2
<1>5. ASSUME NEW a \in Documents, NEW user \in Users, SubmitRead(h, a, user)
      PROVE  CallCurrent(h)'
  <2> DEFINE call == [Idle EXCEPT !.at = "submit.latest", !.user = user,
                                  !.agreement = a]
  <2>1. calls'[h] = call /\ agreements' = agreements
        /\ agreements[a].status = "DRAFT"
    BY <1>1, <1>5 DEF SubmitRead, Begin, Found
  <2>2. call.at = "submit.latest" /\ call.agreement = a
    BY <1>2
  <2>3. QED
    BY <2>1, <2>2
<1>6. ASSUME NEW a \in Documents, NEW user \in Users, ApproveRead(h, a, user)
      PROVE  CallCurrent(h)'
  <2> DEFINE call == [Idle EXCEPT !.at = "approve.lookup", !.user = user,
                                  !.agreement = a,
                                  !.request = agreements[a].request,
                                  !.cap = agreements[a].cap]
  <2>1. calls'[h] = call /\ agreements' = agreements
        /\ agreements[a].status = "PENDING"
    BY <1>1, <1>6 DEF ApproveRead, Begin, Found
  <2>2. /\ call.at = "approve.lookup" /\ call.agreement = a
        /\ call.request = agreements[a].request /\ call.cap = agreements[a].cap
    BY <1>2
  <2>3. QED
    BY <2>1, <2>2
<1>7. ASSUME NEW a \in Documents, NEW user \in Users, RejectRead(h, a, user)
      PROVE  CallCurrent(h)'
  <2> DEFINE call == [Idle EXCEPT !.at = "reject.request", !.user = user,
                                  !.agreement = a,
                                  !.request = agreements[a].request]
  <2>1. calls'[h] = call /\ agreements' = agreements
        /\ agreements[a].status = "PENDING"
    BY <1>1, <1>7 DEF RejectRead, Begin, Found
  <2>2. /\ call.at = "reject.request" /\ call.agreement = a
        /\ call.request = agreements[a].request
    BY <1>2
  <2>3. QED
    BY <2>1, <2>2
<1>8. ASSUME NEW a \in Documents, CancelRead(h, a)
      PROVE  CallCurrent(h)'
  <2> DEFINE call == [Idle EXCEPT !.at = "cancel.lookup", !.agreement = a,
                                  !.cap = agreements[a].cap]
  <2>1. calls'[h] = call /\ agreements' = agreements
        /\ agreements[a].status = "APPROVED"
    BY <1>1, <1>8 DEF CancelRead, Begin, Found
  <2>2. /\ call.at = "cancel.lookup" /\ call.agreement = a
        /\ call.cap = agreements[a].cap
    BY <1>2
  <2>3. QED
    BY <2>1, <2>2
<1>9. QED
  BY <1>3, <1>4, <1>5, <1>6, <1>7, <1>8 DEF Arrive

\* The statements between the first and the last of an operation.
LEMMA InnerCurrent ==
    ASSUME Inv, NEW h \in Handlers, CallCurrent(h),
           Submit(h) \/ Approve(h) \/ Reject(h) \/ Cancel(h)
    PROVE  CallCurrent(h)'
<1> DEFINE same == /\ calls'[h].agreement = calls[h].agreement
                   /\ calls'[h].cap = calls[h].cap
<1>1. TypeOK /\ calls \in [Handlers -> Calls]
  BY DEF Inv, TypeOK
<1>2. Return(h) => CallCurrent(h)'
  BY <1>1, ReturnCurrent
<1>3. ASSUME NEW step \in Steps, Proceed(h, step)
      PROVE  /\ calls'[h].at = step /\ same
             /\ calls'[h].request = calls[h].request
  BY <1>1, <1>3, Proceeds
<1>4. CASE SubmitLatest(h)
  BY <1>2, <1>3, <1>4, StepCurrent DEF SubmitLatest, At, DraftSteps, Steps
<1>5. CASE SubmitInsert(h)
  <2>1. PICK n : calls' = [calls EXCEPT ![h].at = "submit.write",
                                        ![h].request = n]
    BY <1>5 DEF SubmitInsert
  <2>2. calls'[h] = [calls[h] EXCEPT !.at = "submit.write", !.request = n]
    BY <1>1, <2>1
  <2>3. calls'[h].at = "submit.write" /\ same
    BY <1>1, <2>2 DEF Calls
  <2>4. QED
    BY <1>5, <2>3, StepCurrent DEF SubmitInsert, At, DraftSteps
<1>6. CASE ApproveLookup(h) \/ ApproveKey(h)
  BY <1>3, <1>6, StepCurrent
  DEF ApproveLookup, ApproveKey, At, ApproveSteps, ReservedSteps, Steps
<1>7. ASSUME NEW step, NEW e,
             calls' = [calls EXCEPT ![h].at = step, ![h].envelope = e]
      PROVE  /\ calls'[h].at = step /\ same
             /\ calls'[h].request = calls[h].request
  <2>1. calls'[h] = [calls[h] EXCEPT !.at = step, !.envelope = e]
    BY <1>1, <1>7
  <2>2. QED
    BY <1>1, <2>1 DEF Calls
<1>8. CASE ApproveFind(h)
  <2>1. CASE Return(h)
    BY <1>2, <2>1
  <2>2. ASSUME calls' = [calls EXCEPT ![h].at = "approve.available",
                                      ![h].envelope = FindEnvelopeByDimensions]
        PROVE  CallCurrent(h)'
    BY <1>7, <1>8, <2>2, StepCurrent
    DEF ApproveFind, At, ApproveSteps, ReservedSteps
  <2>3. QED
    BY <1>8, <2>1, <2>2 DEF ApproveFind
<1>9. CASE ApproveAvailable(h) \/ ApproveReserve(h) \/ ApproveRequest(h)
  BY <1>2, <1>3, <1>9, StepCurrent
  DEF ApproveAvailable, ApproveReserve, ApproveRequest, At, ApproveSteps,
      ReservedSteps, Steps
<1>10. CASE ApproveDecide(h)
  BY <1>3, <1>10, StepCurrent
  DEF ApproveDecide, At, ApproveSteps, ReservedSteps, Steps
<1>11. CASE ApproveReserveDuplicate(h) \/ ApproveWrite(h)
  BY <1>2, <1>11 DEF ApproveReserveDuplicate, ApproveWrite
<1>12. CASE RejectRequest(h) \/ RejectDecide(h)
  BY <1>2, <1>3, <1>12, StepCurrent
  DEF RejectRequest, RejectDecide, At, RejectSteps, Steps
<1>13. CASE CancelLookup(h)
  <2>1. CASE Proceed(h, "cancel.write")
    BY <1>3, <1>13, <2>1, StepCurrent DEF CancelLookup, At, CancelSteps, Steps
  <2>2. ASSUME NEW e, calls' = [calls EXCEPT ![h].at = "cancel.key",
                                             ![h].envelope = e]
        PROVE  CallCurrent(h)'
    BY <1>7, <1>13, <2>2, StepCurrent DEF CancelLookup, At, CancelSteps
  <2>3. QED
    BY <1>13, <2>1, <2>2 DEF CancelLookup
<1>14. CASE CancelKey(h) \/ CancelRelease(h)
  BY <1>3, <1>14, StepCurrent
  DEF CancelKey, CancelRelease, At, CancelSteps, Steps
<1>15. CASE \/ SubmitWrite(h) \/ RejectWrite(h) \/ CancelWrite(h)
            \/ CancelReleaseDuplicate(h)
  BY <1>2, <1>15
  DEF SubmitWrite, RejectWrite, CancelWrite, CancelReleaseDuplicate
<1>16. QED
  BY <1>4, <1>5, <1>6, <1>8, <1>9, <1>10, <1>11, <1>12, <1>13, <1>14, <1>15
  DEF Submit, Approve, Reject, Cancel

\* A decision outside the workflow relies on nothing of the agreement.
LEMMA DirectCurrent ==
    ASSUME Inv, NEW h \in Handlers, Direct(h)
    PROVE  CallCurrent(h)'
<1>1. TypeOK /\ calls \in [Handlers -> Calls]
  BY DEF Inv, TypeOK
<1>2. ASSUME NEW r, NEW user, NEW step \in DirectSteps,
             DirectRead(h, r, user, step)
      PROVE  CallCurrent(h)'
  <2>1. calls'[h] = [Idle EXCEPT !.at = step, !.user = user,
                                 !.agreement = requests[r].entity,
                                 !.request = r]
    BY <1>1, <1>2 DEF DirectRead, Begin
  <2>2. calls'[h].at = step
    BY <2>1 DEF Idle
  <2>3. QED
    BY <2>2, CurrentOutside DEF DirectSteps, RelyingSteps, DraftSteps,
       ApproveSteps, ReservedSteps, RejectSteps, CancelSteps
<1>3. CASE \/ DirectApproveWrite(h) \/ DirectRejectWrite(h)
           \/ DirectWithdrawWrite(h)
  BY <1>1, <1>3, ReturnCurrent
  DEF DirectApproveWrite, DirectRejectWrite, DirectWithdrawWrite, DirectWrite
<1>4. QED
  BY <1>2, <1>3
  DEF Direct, DirectApproveRead, DirectRejectRead, DirectWithdrawRead,
      DirectSteps

\* Whoever takes a step, it is one of the steps of the call that it changes.
LEMMA OwnStep ==
    ASSUME Inv, [Next]_vars, NEW h \in Handlers, calls'[h] # calls[h]
    PROVE  \/ Arrive(h) \/ UpdateWrite(h) \/ DeleteWrite(h) \/ Submit(h)
           \/ Approve(h) \/ Reject(h) \/ Cancel(h) \/ Direct(h) \/ Fail(h)
<1>1. TypeOK
  BY DEF Inv
<1>2. ASSUME NEW k \in Handlers,
             \/ Arrive(k) \/ UpdateWrite(k) \/ DeleteWrite(k) \/ Submit(k)
             \/ Approve(k) \/ Reject(k) \/ Cancel(k) \/ Direct(k) \/ Fail(k)
      PROVE  k = h
  <2>1. CASE UpdateWrite(k) \/ DeleteWrite(k) \/ Fail(k)
    <3>1. Return(k)
      BY <2>1 DEF UpdateWrite, DeleteWrite, Fail
    <3>2. QED
      BY <1>1, <3>1, Returns DEF Moves
  <2>2. CASE \/ Arrive(k) \/ Submit(k) \/ Approve(k) \/ Reject(k) \/ Cancel(k)
             \/ Direct(k)
    <3>1. Moves(k)
      BY <2>2, ArriveMoves, SubmitMoves, ApproveMoves, RejectMoves, CancelMoves,
         DirectMoves
    <3>2. QED
      BY <3>1 DEF Moves
  <2>3. QED
    BY <1>2, <2>1, <2>2
<1>3. \E k \in Handlers :
        \/ Arrive(k) \/ UpdateWrite(k) \/ DeleteWrite(k) \/ Submit(k)
        \/ Approve(k) \/ Reject(k) \/ Cancel(k) \/ Direct(k) \/ Fail(k)
  BY DEF Next, vars, Create, OpenEnvelope
<1>4. QED
  BY <1>2, <1>3

\* The calls that write rely on the agreement they write, deletions apart,
\* which keep what others rely on.
LEMMA OthersKeep ==
    ASSUME Apart, Inv, SerialInv, [Next]_vars, NEW h \in Handlers,
           calls'[h] = calls[h], calls[h].at \in RelyingSteps
    PROVE  LET a == calls[h].agreement
           IN  /\ agreements'[a].status = agreements[a].status
               /\ agreements'[a].request = agreements[a].request
               /\ agreements'[a].cap = agreements[a].cap
<1> DEFINE a == calls[h].agreement
<1>1. /\ TypeOK /\ agreements \in [Documents -> Agreements]
      /\ a \in Documents /\ CallCurrent(h)
  BY DEF Inv, TypeOK, SerialInv, CallsInv, CallValid, RelyingSteps, DraftSteps,
         ApproveSteps, ReservedSteps, RejectSteps, CancelSteps
<1>2. CASE \E b \in Documents, cap \in Caps : Create(b, cap)
  <2>1. PICK b \in Documents, cap \in Caps : Create(b, cap)
    BY <1>2
  <2>2. agreements[a].status # "ABSENT"
    BY <1>1 DEF CallCurrent, RelyingSteps
  <2>3. agreements'[a] = agreements[a]
    BY <1>1, <2>1, <2>2 DEF Create
  <2>4. QED
    BY <2>3
<1>3. ASSUME NEW g \in Handlers, DeleteWrite(g)
      PROVE  /\ agreements'[a].status = agreements[a].status
             /\ agreements'[a].request = agreements[a].request
             /\ agreements'[a].cap = agreements[a].cap
  BY <1>1, <1>3 DEF DeleteWrite, Agreements
<1>4. ASSUME NEW g \in Handlers, Return(g), calls[g].at \in RelyingSteps
      PROVE  calls[g].agreement # a
  <2>1. g # h
    BY <1>1, <1>4, ReturnCurrent
    DEF RelyingSteps, DraftSteps, ApproveSteps, ReservedSteps, RejectSteps,
        CancelSteps
  <2>2. QED
    BY <1>4, <2>1 DEF Apart
<1>5. ASSUME NEW g \in Handlers,
             \/ UpdateWrite(g) \/ SubmitWrite(g)
             \/ ApproveWrite(g) \/ RejectWrite(g) \/ CancelWrite(g)
      PROVE  agreements'[a] = agreements[a]
  <2>1. calls[g].agreement # a
    BY <1>4, <1>5
    DEF UpdateWrite, SubmitWrite, ApproveWrite, RejectWrite, CancelWrite, At,
        RelyingSteps, DraftSteps, ApproveSteps, ReservedSteps, RejectSteps,
        CancelSteps
  <2>2. QED
    BY <1>1, <1>5, <2>1
    DEF UpdateWrite, SubmitWrite, ApproveWrite, RejectWrite, CancelWrite,
        SetStatus
<1>6. QED
  BY <1>2, <1>3, <1>5, AgreementChanges

\* What a call has read stays so, whichever call takes the step.
LEMMA CurrentStep ==
    ASSUME Apart, Inv, SerialInv, [Next]_vars, NEW h \in Handlers
    PROVE  CallCurrent(h)'
<1>1. TypeOK /\ CallCurrent(h)
  BY DEF Inv, SerialInv
<1>2. CASE calls'[h] = calls[h]
  <2>1. CASE calls[h].at \in RelyingSteps
    BY <1>1, <1>2, <2>1, OthersKeep DEF CallCurrent
  <2>2. CASE calls[h].at \notin RelyingSteps
    BY <1>2, <2>2, CurrentOutside
  <2>3. QED
    BY <2>1, <2>2
<1>3. CASE calls'[h] # calls[h]
  <2>1. CASE UpdateWrite(h) \/ DeleteWrite(h) \/ Fail(h)
    BY <1>1, <2>1, ReturnCurrent DEF UpdateWrite, DeleteWrite, Fail
  <2>2. QED
    BY <1>1, <1>3, <2>1, OwnStep, ArriveCurrent, InnerCurrent, DirectCurrent
<1>4. QED
  BY <1>2, <1>3

\* An agreement with a reservation has left DRAFT: neither its status goes
\* back nor its cap changes any more.
LEMMA CapStays ==
    ASSUME Inv, SerialInv, [Next]_vars, NEW a \in Documents,
           agreements[a].status \notin {"ABSENT", "DRAFT"}
    PROVE  /\ agreements'[a].status \notin {"ABSENT", "DRAFT"}
           /\ agreements'[a].cap = agreements[a].cap
<1>1. agreements \in [Documents -> Agreements]
  BY DEF Inv, TypeOK
<1>2. ASSUME NEW b \in Documents, NEW cap \in Caps, Create(b, cap)
      PROVE  agreements'[a] = agreements[a]
  BY <1>1, <1>2 DEF Create
<1>3. ASSUME NEW h \in Handlers, UpdateWrite(h)
      PROVE  agreements'[a] = agreements[a]
  <2>1. agreements[calls[h].agreement].status = "DRAFT"
    BY <1>3 DEF SerialInv, CallCurrent, DraftSteps, UpdateWrite, At
  <2>2. QED
    BY <1>1, <1>3, <2>1 DEF UpdateWrite
<1>4. ASSUME NEW h \in Handlers, DeleteWrite(h)
      PROVE  /\ agreements'[a].status = agreements[a].status
             /\ agreements'[a].cap = agreements[a].cap
  BY <1>1, <1>4 DEF DeleteWrite, Agreements
<1>5. ASSUME NEW h \in Handlers, NEW status, status \notin {"ABSENT", "DRAFT"},
             SetStatus(h, status)
      PROVE  /\ agreements'[a].status \notin {"ABSENT", "DRAFT"}
             /\ agreements'[a].cap = agreements[a].cap
  BY <1>1, <1>5 DEF SetStatus, Agreements
<1>6. ASSUME NEW h \in Handlers, SubmitWrite(h)
      PROVE  /\ agreements'[a].status \notin {"ABSENT", "DRAFT"}
             /\ agreements'[a].cap = agreements[a].cap
  BY <1>1, <1>6 DEF SubmitWrite, Agreements
<1>7. ASSUME NEW h \in Handlers,
             ApproveWrite(h) \/ RejectWrite(h) \/ CancelWrite(h)
      PROVE  /\ agreements'[a].status \notin {"ABSENT", "DRAFT"}
             /\ agreements'[a].cap = agreements[a].cap
  BY <1>5, <1>7 DEF ApproveWrite, RejectWrite, CancelWrite
<1>8. QED
  BY <1>2, <1>3, <1>4, <1>6, <1>7, AgreementChanges

\* A new row of the table is for the cap of its agreement.
LEMMA RowsStep ==
    ASSUME Inv, SerialInv, [Next]_vars, NEW i \in DOMAIN transactions'
    PROVE  RowCurrent(transactions[i])'
<1>1. /\ transactions \in Seq(Transactions) /\ Len(transactions) \in Nat
      /\ DOMAIN transactions = 1..Len(transactions)
  BY LenProperties DEF Inv, TypeOK, BudgetTypeOK
<1>2. \A j \in DOMAIN transactions : transactions[j].source \in Documents
  <2>1. \A j \in DOMAIN transactions : transactions[j] \in Transactions
    BY <1>1, ElementOfSeq
  <2>2. QED
    BY <2>1 DEF Transactions
<1>3. CASE i \in DOMAIN transactions
  <2>1. transactions'[i] = transactions[i]
    BY <1>3, TransactionsGrow
  <2>2. RowCurrent(transactions[i])
    BY <1>3 DEF SerialInv
  <2>3. QED
    BY <1>2, <1>3, <2>1, <2>2, CapStays DEF RowCurrent
<1>4. ASSUME NEW h \in Handlers, NEW row \in Transactions,
             transactions' = Append(transactions, row),
             row.source = calls[h].agreement, row.amount = calls[h].cap,
             calls[h].at \in {"approve.reserve", "cancel.release"},
             UNCHANGED agreements, i \notin DOMAIN transactions
      PROVE  RowCurrent(transactions[i])'
  <2>1. transactions'[i] = row
    BY <1>1, <1>4, AppendProperties, LenProperties
  <2>2. /\ agreements[calls[h].agreement].status \in {"PENDING", "APPROVED"}
        /\ agreements[calls[h].agreement].cap = calls[h].cap
    BY <1>4 DEF SerialInv, CallCurrent, ApproveSteps, CancelSteps
  <2>3. QED
    BY <1>4, <2>1, <2>2 DEF RowCurrent
<1>5. ASSUME NEW h \in Handlers, ApproveReserve(h) \/ CancelRelease(h),
             i \notin DOMAIN transactions
      PROVE  RowCurrent(transactions[i])'
  BY <1>4, <1>5, PostedRows
  DEF ApproveReserve, CancelRelease, At, ReserveRow, ReleaseRow
<1>6. QED
  BY <1>3, <1>5, TransactionSteps

LEMMA SerialInit ==
    ASSUME Init
    PROVE  SerialInv
<1>1. \A h \in Handlers : calls[h].at = "idle"
  BY DEF Init, Idle
<1>2. DOMAIN transactions = {}
  BY DEF Init, BudgetInit
<1>3. QED
  BY <1>1, <1>2 DEF SerialInv, CallCurrent, DraftSteps, ApproveSteps,
                    ReservedSteps, RejectSteps, CancelSteps

LEMMA SerialStep ==
    ASSUME Apart, Inv, SerialInv, [Next]_vars
    PROVE  SerialInv'
BY CurrentStep, RowsStep DEF SerialInv

-----------------------------------------------------------------------------
(* What follows for calls that keep apart.                                 *)

\* What a call has read of its agreement holds until it answers, and what is
\* reserved or released for an agreement is its cap.
THEOREM SerialInvariance == Spec /\ []Apart => []SerialInv
<1>1. Apart /\ Inv /\ SerialInv /\ [Next]_vars => SerialInv'
  BY SerialStep
<1>2. Init => SerialInv
  BY SerialInit
<1>3. QED
  BY <1>1, <1>2, Invariance, PTL DEF Spec

\* cancel releases what approve has reserved, though it takes the amount from
\* the agreement and not from the reservation.
THEOREM ReleasedAsReserved == Spec /\ []Apart => []ReleaseEqualsReserve
<1>1. SerialInv => ReleaseEqualsReserve
  BY DEF SerialInv, RowCurrent, ReleaseEqualsReserve
<1>2. QED
  BY <1>1, SerialInvariance, PTL

\* A call that sets the status of its agreement finds the status it has read.
LEMMA LifecycleStep ==
    ASSUME Inv, SerialInv, [Next]_vars, NEW a \in Documents,
           agreements'[a].status # agreements[a].status
    PROVE  <<agreements[a].status, agreements'[a].status>> \in
             {<<"ABSENT", "DRAFT">>, <<"DRAFT", "PENDING">>,
              <<"PENDING", "APPROVED">>, <<"PENDING", "REJECTED">>,
              <<"APPROVED", "CANCELLED">>}
<1>1. agreements \in [Documents -> Agreements]
  BY DEF Inv, TypeOK
<1>2. CASE \E b \in Documents, cap \in Caps : Create(b, cap)
  BY <1>1, <1>2 DEF Create, Agreements
<1>3. ASSUME NEW h \in Handlers, UpdateWrite(h) \/ DeleteWrite(h)
      PROVE  FALSE
  BY <1>1, <1>3 DEF UpdateWrite, DeleteWrite, Agreements
<1>4. ASSUME NEW h \in Handlers, SubmitWrite(h)
      PROVE  agreements[a].status = "DRAFT" /\ agreements'[a].status = "PENDING"
  BY <1>1, <1>4 DEF SubmitWrite, At, SerialInv, CallCurrent, DraftSteps,
                    Agreements
<1>5. ASSUME NEW h \in Handlers, NEW status, SetStatus(h, status)
      PROVE  calls[h].agreement = a /\ agreements'[a].status = status
  BY <1>1, <1>5 DEF SetStatus, Agreements
<1>6. ASSUME NEW h \in Handlers, ApproveWrite(h) \/ RejectWrite(h)
      PROVE  /\ agreements[a].status = "PENDING"
             /\ agreements'[a].status \in {"APPROVED", "REJECTED"}
  BY <1>5, <1>6 DEF ApproveWrite, RejectWrite, At, SerialInv, CallCurrent,
                    ApproveSteps, ReservedSteps, RejectSteps
<1>7. ASSUME NEW h \in Handlers, CancelWrite(h)
      PROVE  /\ agreements[a].status = "APPROVED"
             /\ agreements'[a].status = "CANCELLED"
  BY <1>5, <1>7 DEF CancelWrite, At, SerialInv, CallCurrent, CancelSteps
<1>8. QED
  BY <1>2, <1>3, <1>4, <1>6, <1>7, AgreementChanges

\* An agreement moves along its lifecycle: no call writes a status over one
\* that it has not read.
THEOREM Lifecycle == Spec /\ []Apart => LifecycleMoves
<1> DEFINE Moved(a) ==
      agreements'[a].status # agreements[a].status =>
        <<agreements[a].status, agreements'[a].status>> \in
          {<<"ABSENT", "DRAFT">>, <<"DRAFT", "PENDING">>,
           <<"PENDING", "APPROVED">>, <<"PENDING", "REJECTED">>,
           <<"APPROVED", "CANCELLED">>}
<1>1. Inv /\ SerialInv /\ [Next]_vars => [\A a \in Documents : Moved(a)]_vars
  BY LifecycleStep
<1>2. QED
  BY <1>1, Invariance, SerialInvariance, PTL DEF Spec, LifecycleMoves

-----------------------------------------------------------------------------
(* Agreements and their requests, when nobody decides behind the workflow. *)

\* A call that comes to its last write has just decided the request, and no
\* other call decides it meanwhile.
LEMMA DecidedStep ==
    ASSUME Apart, NoDirectDecision, Inv, WorkflowDecides, [Next]_vars,
           NEW h \in Handlers, CallDecided(h)
    PROVE  CallDecided(h)'
<1>1. /\ TypeOK /\ calls \in [Handlers -> Calls]
      /\ requests \in Seq(Requests) /\ Len(requests) \in Nat
      /\ DOMAIN requests = 1..Len(requests)
  BY LenProperties DEF Inv, TypeOK, ApprovalTypeOK
<1>2. CASE /\ calls'[h] = calls[h]
           /\ calls[h].at \in {"approve.write", "reject.write"}
  <2> DEFINE r == calls[h].request
  <2>1. Filed(calls[h].agreement, r)
    BY <1>2 DEF Inv, CallsInv, CallValid, RequestSteps, ApproveSteps,
                ReservedSteps, RejectSteps
  <2>2. ASSUME NEW g \in Handlers, SubmitInsert(g)
        PROVE  requests'[r] = requests[r]
    <3> DEFINE row == [entity |-> calls[g].agreement,
                       requester |-> calls[g].user,
                       status |-> "PENDING", decidedBy |-> NoUser]
    <3>1. calls[g].agreement \in Documents /\ calls[g].user \in Users
      BY <2>2 DEF Inv, CallsInv, CallValid, SubmitInsert, At, UserSteps
    <3>2. row \in Requests /\ requests' = Append(requests, row)
      BY <2>2, <3>1 DEF SubmitInsert, InsertRequest, Requests, RequestStatuses
    <3>3. r \in 1..Len(requests)
      BY <1>1, <2>1 DEF Filed
    <3> HIDE DEF row
    <3>4. QED
      BY <1>1, <3>2, <3>3, AppendProperties
  <2>3. ASSUME NEW g \in Handlers, ApproveDecide(g) \/ RejectDecide(g)
        PROVE  requests'[r] = requests[r]
    <3>1. calls[g].at \in {"approve.decide", "reject.decide"} /\ g # h
      BY <1>2, <2>3 DEF ApproveDecide, RejectDecide, At
    <3>2. calls[g].agreement # calls[h].agreement
      BY <1>2, <3>1 DEF Apart, RelyingSteps, ApproveSteps, ReservedSteps,
                        RejectSteps
    <3>3. Filed(calls[g].agreement, calls[g].request)
      BY <3>1 DEF Inv, CallsInv, CallValid, RequestSteps, ApproveSteps,
                  ReservedSteps, RejectSteps
    <3>4. calls[g].request # r
      BY <2>1, <3>2, <3>3 DEF Filed
    <3>5. QED
      BY <1>1, <2>1, <2>3, <3>4
      DEF ApproveDecide, RejectDecide, WriteDecision, Filed
  <2>4. requests'[r] = requests[r]
    <3>1. \A g \in Handlers :
            /\ ~DirectApproveWrite(g) /\ ~DirectRejectWrite(g)
            /\ ~DirectWithdrawWrite(g)
      BY NoDirectStep DEF Direct
    <3>2. QED
      BY <2>2, <2>3, <3>1, RequestChanges
  <2>5. QED
    BY <1>2, <2>4 DEF CallDecided
<1>3. ASSUME NEW status, WriteDecision(calls[h].request, status, calls[h].user),
             Filed(calls[h].agreement, calls[h].request)
      PROVE  requests'[calls[h].request].status = status
  <2>1. requests[calls[h].request] \in Requests
    BY <1>1, <1>3, ElementOfSeq DEF Filed
  <2>2. QED
    BY <1>1, <1>3, <2>1 DEF WriteDecision, Filed, Requests
<1>4. CASE ApproveDecide(h)
  <2>1. calls'[h].at = "approve.write" /\ calls'[h].request = calls[h].request
    BY <1>1, <1>4, Proceeds DEF ApproveDecide, Steps
  <2>2. requests'[calls[h].request].status = "APPROVED"
    BY <1>3, <1>4 DEF ApproveDecide, At, Inv, CallsInv, CallValid,
                      RequestSteps, ApproveSteps, ReservedSteps
  <2>3. QED
    BY <2>1, <2>2 DEF CallDecided
<1>5. CASE RejectDecide(h)
  <2>1. calls'[h].at = "reject.write" /\ calls'[h].request = calls[h].request
    BY <1>1, <1>5, Proceeds DEF RejectDecide, Steps
  <2>2. requests'[calls[h].request].status = "REJECTED"
    BY <1>3, <1>5 DEF RejectDecide, At, Inv, CallsInv, CallValid,
                      RequestSteps, RejectSteps
  <2>3. QED
    BY <2>1, <2>2 DEF CallDecided
<1>6. CASE calls'[h].at \notin {"approve.write", "reject.write"}
  BY <1>6 DEF CallDecided
<1>7. CASE \E a \in Documents, cap \in Caps : UpdateRead(h, a, cap)
  BY <1>1, <1>7 DEF UpdateRead, Begin, Idle, CallDecided
<1>8. CASE ApproveAvailable(h) \/ ApproveKey(h)
  <2>1. ASSUME NEW step \in {"approve.key", "approve.reserve",
                             "approve.request"}, Proceed(h, step)
        PROVE  CallDecided(h)'
    BY <1>1, <2>1, Proceeds DEF Steps, CallDecided
  <2>2. ASSUME Return(h)
        PROVE  CallDecided(h)'
    BY <1>1, <2>2, ReturnCurrent DEF CallDecided
  <2>3. QED
    BY <1>8, <2>1, <2>2 DEF ApproveAvailable, ApproveKey
<1>9. QED
  BY <1>1, <1>2, <1>4, <1>5, <1>6, <1>7, <1>8, ReachesSteps, NoDirectStep
  DEF Reaches, PlainSteps

\* A request that is inserted or decided is not one of an agreement that has
\* been decided, or of a draft that has none decided.
LEMMA StoryOfRequests ==
    ASSUME Inv, SerialInv, StatusMatchesRequest, [Next]_vars,
           NoDirectDecision, WorkflowDecides, UNCHANGED agreements
    PROVE  StatusMatchesRequest'
<1>1. /\ requests \in Seq(Requests) /\ Len(requests) \in Nat
      /\ DOMAIN requests = 1..Len(requests)
      /\ \A r \in DOMAIN requests : requests[r] \in Requests
  BY LenProperties, ElementOfSeq DEF Inv, TypeOK, ApprovalTypeOK
<1>2. ASSUME NEW a \in Documents, agreements[a].status \notin {"ABSENT", "DRAFT"}
      PROVE  Filed(a, agreements[a].request)
  BY <1>2 DEF Inv, RequestsInv
<1>3. ASSUME NEW h \in Handlers, SubmitInsert(h)
      PROVE  StatusMatchesRequest'
  <2> DEFINE row == [entity |-> calls[h].agreement, requester |-> calls[h].user,
                     status |-> "PENDING", decidedBy |-> NoUser]
  <2>1. calls[h].agreement \in Documents /\ calls[h].user \in Users
    BY <1>3 DEF Inv, CallsInv, CallValid, SubmitInsert, At, UserSteps
  <2>2. row \in Requests /\ requests' = Append(requests, row)
    BY <1>3, <2>1 DEF SubmitInsert, InsertRequest, Requests, RequestStatuses
  <2>3. row.status = "PENDING"
    OBVIOUS
  <2> HIDE DEF row
  <2>4. /\ DOMAIN requests' = DOMAIN requests \cup {Len(requests) + 1}
        /\ requests'[Len(requests) + 1] = row
        /\ \A q \in DOMAIN requests : requests'[q] = requests[q]
    BY <1>1, <2>2, AppendProperties, LenProperties
  <2>5. QED
    BY <1>2, <2>3, <2>4 DEF StatusMatchesRequest, Filed
<1>4. ASSUME NEW h \in Handlers, NEW status,
             WriteDecision(calls[h].request, status, calls[h].user),
             Filed(calls[h].agreement, calls[h].request),
             agreements[calls[h].agreement].status = "PENDING"
      PROVE  StatusMatchesRequest'
  <2>1. \A r \in DOMAIN requests :
           /\ requests'[r].entity = requests[r].entity
           /\ r # calls[h].request => requests'[r] = requests[r]
    BY <1>1, <1>4, RequestsGrow DEF WriteDecision
  <2>2. DOMAIN requests' = DOMAIN requests
    BY <1>1, <1>4 DEF WriteDecision
  <2>3. QED
    BY <1>2, <1>4, <2>1, <2>2 DEF StatusMatchesRequest, Filed
<1>5. ASSUME NEW h \in Handlers, ApproveDecide(h) \/ RejectDecide(h)
      PROVE  StatusMatchesRequest'
  <2>1. CallCurrent(h) /\ CallValid(h)
    BY DEF Inv, CallsInv, SerialInv
  <2>2. QED
    BY <1>4, <1>5, <2>1
    DEF ApproveDecide, RejectDecide, At, CallCurrent, CallValid, RequestSteps,
        ApproveSteps, ReservedSteps, RejectSteps
<1>6. \A h \in Handlers : /\ ~DirectApproveWrite(h) /\ ~DirectRejectWrite(h)
                          /\ ~DirectWithdrawWrite(h)
  BY NoDirectStep DEF Direct
<1>7. CASE UNCHANGED requests
  BY <1>7 DEF StatusMatchesRequest
<1>8. QED
  BY <1>3, <1>5, <1>6, <1>7, RequestChanges

\* An agreement takes the status of the request that the call has decided.
LEMMA StoryOfAgreements ==
    ASSUME Inv, SerialInv, StoryInv, [Next]_vars,
           agreements' # agreements
    PROVE  StatusMatchesRequest'
<1>1. agreements \in [Documents -> Agreements]
  BY DEF Inv, TypeOK
<1>2. ASSUME UNCHANGED requests, NEW b \in Documents,
             \A a \in Documents \ {b} : agreements'[a] = agreements[a],
             LET status == agreements'[b].status
                 request == agreements'[b].request
             IN  /\ status \in {"APPROVED", "CANCELLED"} =>
                        requests[request].status = "APPROVED"
                 /\ status = "REJECTED" => requests[request].status = "REJECTED"
                 /\ status \in {"ABSENT", "DRAFT"} =>
                        agreements[b].status \in {"ABSENT", "DRAFT"}
      PROVE  StatusMatchesRequest'
  BY <1>2 DEF StoryInv, StatusMatchesRequest
<1>3. ASSUME NEW b \in Documents, NEW cap \in Caps, Create(b, cap)
      PROVE  StatusMatchesRequest'
  <2>1. /\ agreements'[b].status = "DRAFT" /\ agreements[b].status = "ABSENT"
        /\ \A a \in Documents \ {b} : agreements'[a] = agreements[a]
        /\ UNCHANGED requests
    BY <1>1, <1>3 DEF Create, Agreements
  <2>2. QED
    BY <1>2, <2>1
<1>4. ASSUME NEW h \in Handlers, UpdateWrite(h) \/ DeleteWrite(h)
      PROVE  StatusMatchesRequest'
  <2>1. /\ UNCHANGED requests
        /\ \A a \in Documents : /\ agreements'[a].status = agreements[a].status
                               /\ agreements'[a].request = agreements[a].request
    BY <1>1, <1>4 DEF UpdateWrite, DeleteWrite, Agreements
  <2>2. QED
    BY <2>1 DEF StoryInv, StatusMatchesRequest
<1>5. ASSUME NEW h \in Handlers, SubmitWrite(h)
      PROVE  StatusMatchesRequest'
  <2>1. calls[h].agreement \in Documents
    BY <1>5 DEF SubmitWrite, At, Inv, CallsInv, CallValid
  <2>2. /\ agreements'[calls[h].agreement].status = "PENDING"
        /\ \A a \in Documents \ {calls[h].agreement} :
              agreements'[a] = agreements[a]
        /\ UNCHANGED requests
    BY <1>1, <1>5, <2>1 DEF SubmitWrite, Agreements
  <2>3. QED
    BY <1>2, <2>1, <2>2
<1>6. ASSUME NEW h \in Handlers,
             ApproveWrite(h) \/ RejectWrite(h) \/ CancelWrite(h)
      PROVE  StatusMatchesRequest'
  <2> DEFINE b == calls[h].agreement
  <2>1. b \in Documents
    BY <1>6 DEF ApproveWrite, RejectWrite, CancelWrite, At, Inv, CallsInv,
                CallValid
  <2>2. CallCurrent(h) /\ CallDecided(h)
    BY DEF SerialInv, StoryInv
  <2>3. ASSUME NEW status, SetStatus(h, status)
        PROVE  /\ agreements'[b].status = status
               /\ agreements'[b].request = agreements[b].request
               /\ \A a \in Documents \ {b} : agreements'[a] = agreements[a]
    BY <1>1, <2>1, <2>3 DEF SetStatus, Agreements
  <2>4. CASE ApproveWrite(h)
    <3>1. requests[agreements[b].request].status = "APPROVED"
      BY <2>2, <2>4 DEF ApproveWrite, At, CallCurrent, CallDecided,
                        ApproveSteps, ReservedSteps
    <3>2. QED
      BY <1>2, <2>1, <2>3, <2>4, <3>1 DEF ApproveWrite
  <2>5. CASE RejectWrite(h)
    <3>1. requests[agreements[b].request].status = "REJECTED"
      BY <2>2, <2>5 DEF RejectWrite, At, CallCurrent, CallDecided, RejectSteps
    <3>2. QED
      BY <1>2, <2>1, <2>3, <2>5, <3>1 DEF RejectWrite
  <2>6. CASE CancelWrite(h)
    <3>1. agreements[b].status = "APPROVED"
      BY <2>2, <2>6 DEF CancelWrite, At, CallCurrent, CancelSteps
    <3>2. requests[agreements[b].request].status = "APPROVED"
      BY <2>1, <3>1 DEF StoryInv, StatusMatchesRequest
    <3>3. QED
      BY <1>2, <2>1, <2>3, <2>6, <3>2 DEF CancelWrite
  <2>7. QED
    BY <1>6, <2>4, <2>5, <2>6
<1>7. QED
  BY <1>3, <1>4, <1>5, <1>6, AgreementChanges

\* The agreement and its request tell the same story, also when the call that
\* decided the request died before it wrote the agreement.
THEOREM SameStory ==
    ASSUME NoDirectDecision
    PROVE  Spec /\ []Apart => []StatusMatchesRequest
<1>1. Init => StoryInv
  <2>1. SUFFICES ASSUME Init PROVE StoryInv
    OBVIOUS
  <2>2. /\ \A h \in Handlers : calls[h].at = "idle"
        /\ \A a \in Documents : agreements[a].status = "ABSENT"
        /\ DOMAIN requests = {}
    BY <2>1 DEF Init, Idle, ApprovalInit
  <2>3. QED
    BY <2>2 DEF StoryInv, CallDecided, StatusMatchesRequest
<1>2. /\ Apart /\ Inv /\ SerialInv /\ WorkflowDecides /\ StoryInv
      /\ [Next]_vars
      => StoryInv'
  BY DecidedStep, StoryOfRequests, StoryOfAgreements DEF StoryInv
<1>3. StoryInv => StatusMatchesRequest
  BY DEF StoryInv
<1>4. QED
  BY <1>1, <1>2, <1>3, Invariance, SerialInvariance, DecidedByWorkflow, PTL
  DEF Spec

-----------------------------------------------------------------------------
(* Overcommitment, when the comparison of texts refuses what it should.    *)

\* What one digit is.
LEMMA OneDigit ==
    ASSUME NEW n \in 0..9
    PROVE  Digits(n) = 1 /\ LeftAligned(n) = n * 1000
<1>1. MaxDigits = 4 /\ 10^1 = 10 /\ 10^2 = 100 /\ 10^3 = 1000
  BY DEF MaxDigits
<1> DEFINE P(d) == /\ n < 10^d \/ d = MaxDigits
                   /\ d = 1 \/ n >= 10^(d - 1)
<1>2. P(1)
  BY <1>1
<1>3. \A d \in 1..MaxDigits : P(d) => d = 1
  <2>1. ASSUME NEW d \in 1..MaxDigits, P(d), d # 1
        PROVE  FALSE
    <3>1. d = 2 \/ d = 3 \/ d = 4
      BY <1>1, <2>1
    <3>2. d - 1 = 1 \/ d - 1 = 2 \/ d - 1 = 3
      BY <3>1
    <3>3. 10^(d - 1) \in {10, 100, 1000}
      <4>1. CASE d - 1 = 1
        BY <1>1, <4>1
      <4>2. CASE d - 1 = 2
        BY <1>1, <4>2
      <4>3. CASE d - 1 = 3
        BY <1>1, <4>3
      <4>4. QED
        BY <3>2, <4>1, <4>2, <4>3
    <3>4. n >= 10^(d - 1)
      BY <2>1
    <3>5. PICK p \in {10, 100, 1000} : n >= p
      BY <3>3, <3>4
    <3>6. QED
      BY <3>5
  <2>2. QED
    BY <2>1
<1>4. 1 \in 1..MaxDigits
  BY <1>1
<1>5. Digits(n) = 1
  <2>1. Digits(n) = CHOOSE d \in 1..MaxDigits : P(d)
    BY DEF Digits
  <2> HIDE DEF P
  <2>2. QED
    BY <1>2, <1>3, <1>4, <2>1
<1>6. LeftAligned(n) = n * 10^(4 - 1)
  BY <1>1, <1>5 DEF LeftAligned
<1>7. QED
  BY <1>1, <1>5, <1>6

\* Caps of one digit: an amount with a greater text is the greater amount.
LEMMA OneDigitRefuses ==
    ASSUME Caps \subseteq 1..9
    PROVE  TextRefuses
<1> SUFFICES ASSUME NEW c \in Caps, NEW x \in Int, TextGeq(x, c)
             PROVE  x >= c
  BY DEF TextRefuses
<1>1. c \in 1..9 /\ x >= 0
  BY DEF TextGeq
<1>2. CASE x > 9
  BY <1>1, <1>2
<1>3. CASE x \in 0..9
  <2>1. LeftAligned(x) = x * 1000 /\ LeftAligned(c) = c * 1000
    BY <1>1, <1>3, OneDigit
  <2>2. x * 1000 >= c * 1000
    BY <1>1, <1>3, <2>1 DEF TextGeq
  <2>3. QED
    BY <1>1, <1>3, <2>2
<1>4. QED
  BY <1>1, <1>2, <1>3

\* The sums of the view are natural numbers.
LEMMA PostedInNat ==
    ASSUME Inv, NEW type, NEW e
    PROVE  Posted(type, e) \in Nat
<1> DEFINE S == RowsOf(type, e)
<1>1. /\ transactions \in Seq(Transactions) /\ Len(transactions) \in Nat
      /\ DOMAIN transactions = 1..Len(transactions)
  BY LenProperties DEF Inv, TypeOK, BudgetTypeOK
<1>2. IsFiniteSet(S) /\ S \subseteq DOMAIN transactions
  <2>1. IsFiniteSet(1..Len(transactions))
    BY <1>1, FS_Interval
  <2>2. S \subseteq 1..Len(transactions)
    BY <1>1 DEF RowsOf
  <2>3. QED
    BY <1>1, <2>1, <2>2, FS_Subset
<1>3. \A i \in S : transactions[i].amount \in Nat
  <2>1. \A i \in S : transactions[i] \in Transactions
    BY <1>1, <1>2, ElementOfSeq
  <2>2. QED
    BY <2>1 DEF Transactions
<1>4. Total(transactions, S) \in Nat
  <2> HIDE DEF S
  <2>1. QED
    BY <1>2, <1>3, TotalInNat
<1>5. QED
  BY <1>4 DEF Posted

\* What a new row of the table adds to the sums of the view.
LEMMA PostedAfter ==
    ASSUME Inv, NEW row \in Transactions,
           transactions' = Append(transactions, row), NEW type, NEW e
    PROVE  Posted(type, e)' =
             Posted(type, e) + (IF row.type = type /\ row.envelope = e
                                  THEN row.amount ELSE 0)
<1> DEFINE S == RowsOf(type, e)
           n == Len(transactions) + 1
<1>1. transactions \in Seq(Transactions) /\ Len(transactions) \in Nat
  BY LenProperties DEF Inv, TypeOK, BudgetTypeOK
<1>2. PICK f, g : f = transactions /\ g = transactions'
  OBVIOUS
<1>3. /\ DOMAIN f = 1..Len(f) /\ DOMAIN g = DOMAIN f \cup {n}
      /\ n \notin DOMAIN f /\ g[n] = row /\ \A i \in DOMAIN f : g[i] = f[i]
  BY <1>1, <1>2, AppendProperties, LenProperties
<1>4. /\ \A i \in DOMAIN f : f[i].amount \in Nat
      /\ row.amount \in Nat
  <2>1. \A i \in DOMAIN f : f[i] \in Transactions
    BY <1>1, <1>2, ElementOfSeq
  <2>2. QED
    BY <2>1 DEF Transactions
<1>5. IsFiniteSet(S) /\ S \subseteq DOMAIN f
  <2>1. IsFiniteSet(1..Len(f))
    BY <1>1, <1>2, FS_Interval
  <2>2. S \subseteq 1..Len(f)
    BY <1>2, <1>3 DEF RowsOf
  <2>3. QED
    BY <1>3, <2>1, <2>2, FS_Subset
<1>6. RowsOf(type, e)' = IF row.type = type /\ row.envelope = e
                           THEN S \cup {n} ELSE S
  BY <1>2, <1>3 DEF RowsOf
<1>7. Posted(type, e) = Total(f, S) /\ Posted(type, e)' = Total(g, RowsOf(type, e)')
  BY <1>2 DEF Posted
<1> HIDE DEF S, n
<1>8. Total(f, S) \in Nat /\ Total(f, S) = Total(g, S)
  BY <1>3, <1>4, <1>5, TotalInNat, TotalSame
<1>9. Total(g, S \cup {n}) = row.amount + Total(g, S)
  <2>1. n \notin S /\ \A i \in S \cup {n} : g[i].amount \in Nat
    BY <1>3, <1>4, <1>5
  <2>2. QED
    BY <1>3, <1>5, <2>1, TotalPlus
<1>10. QED
  BY <1>4, <1>6, <1>7, <1>8, <1>9

\* Consumption is a sum of whole numbers, and so is what is available.
LEMMA Consumed ==
    ASSUME TypeOK, NEW e \in Envelopes
    PROVE  ConsumedAmount(e) \in Int /\ Allocated[e] \in Nat
<1> DEFINE S == {i \in DOMAIN ledger : ledger[i].envelope = e}
<1>1. ledger \in Seq(LedgerEntries) /\ DOMAIN ledger = 1..Len(ledger)
      /\ Len(ledger) \in Nat
  BY LenProperties DEF TypeOK, BudgetTypeOK
<1>2. IsFiniteSet(S)
  <2>1. IsFiniteSet(1..Len(ledger))
    BY <1>1, FS_Interval
  <2>2. S \subseteq 1..Len(ledger)
    BY <1>1
  <2>3. QED
    BY <2>1, <2>2, FS_Subset
<1>3. \A i \in S : ledger[i].amount \in Int
  <2>1. \A i \in S : ledger[i] \in LedgerEntries
    BY <1>1, ElementOfSeq
  <2>2. QED
    BY <2>1 DEF LedgerEntries
<1>4. Total(ledger, S) \in Int
  <2> HIDE DEF S
  <2>1. QED
    BY <1>2, <1>3, TotalInInt
<1>5. QED
  BY <1>4, EnvelopeAssumption DEF ConsumedAmount

\* The workflow alone posts nothing to the ledger, and consumes nothing.
LEMMA NothingConsumed ==
    ASSUME ledger = <<>>, NEW e
    PROVE  ConsumedAmount(e) = 0
<1>1. {i \in DOMAIN ledger : ledger[i].envelope = e} = {}
  OBVIOUS
<1>2. QED
  BY <1>1, TotalOfNone DEF ConsumedAmount

\* What an agreement or a change of it asks for is a value a client has given.
LEMMA CapsStep ==
    ASSUME Inv, SerialInv, [Next]_vars, CapsInv,
           \A h \in Handlers : CallAffords(h)
    PROVE  CapsInv'
<1>1. agreements \in [Documents -> Agreements]
  BY DEF Inv, TypeOK
<1>2. CASE \E a \in Documents, cap \in Caps : Create(a, cap)
  BY <1>1, <1>2 DEF Create, CapsInv, Agreements
<1>3. ASSUME NEW h \in Handlers, UpdateWrite(h)
      PROVE  CapsInv'
  <2>1. calls[h].cap \in Caps
    BY <1>3 DEF UpdateWrite, At, CallAffords
  <2>2. QED
    BY <1>1, <1>3, <2>1 DEF UpdateWrite, CapsInv, Agreements
<1>4. ASSUME NEW h \in Handlers, DeleteWrite(h)
      PROVE  CapsInv'
  BY <1>1, <1>4 DEF DeleteWrite, CapsInv, Agreements
<1>5. ASSUME NEW h \in Handlers, NEW status, SetStatus(h, status),
             agreements[calls[h].agreement].status # "ABSENT"
      PROVE  CapsInv'
  BY <1>1, <1>5 DEF SetStatus, CapsInv, Agreements
<1>6. ASSUME NEW h \in Handlers, ApproveWrite(h) \/ RejectWrite(h) \/ CancelWrite(h)
      PROVE  CapsInv'
  <2>1. CallCurrent(h)
    BY DEF SerialInv
  <2>2. QED
    BY <1>5, <1>6, <2>1 DEF ApproveWrite, RejectWrite, CancelWrite, At,
       CallCurrent, ApproveSteps, ReservedSteps, RejectSteps, CancelSteps
<1>7. ASSUME NEW h \in Handlers, SubmitWrite(h)
      PROVE  CapsInv'
  <2>1. agreements[calls[h].agreement].status = "DRAFT"
    BY <1>7 DEF SubmitWrite, At, SerialInv, CallCurrent, DraftSteps
  <2>2. QED
    BY <1>1, <1>7, <2>1 DEF SubmitWrite, CapsInv, Agreements
<1>8. CASE UNCHANGED agreements
  BY <1>8 DEF CapsInv
<1>9. QED
  BY <1>2, <1>3, <1>4, <1>6, <1>7, <1>8, AgreementChanges

\* What is available in an envelope becomes less only when a call reserves in
\* that envelope.
LEMMA AvailableStep ==
    ASSUME Inv, [Next]_vars, NEW e \in Envelopes,
           \A g \in Handlers : ApproveReserve(g) => calls[g].envelope # e
    PROVE  /\ AvailableAmount(e) \in Int /\ AvailableAmount(e)' \in Int
           /\ AvailableAmount(e) <= AvailableAmount(e)'
<1>1. /\ TypeOK /\ Posted("RESERVE", e) \in Nat /\ Posted("RELEASE", e) \in Nat
      /\ ConsumedAmount(e) \in Int /\ Allocated[e] \in Nat
      /\ AvailableAmount(e) = Allocated[e] - (Posted("RESERVE", e)
                                - Posted("RELEASE", e)) - ConsumedAmount(e)
      /\ AvailableAmount(e)' = Allocated[e] - (Posted("RESERVE", e)'
                                - Posted("RELEASE", e)') - ConsumedAmount(e)'
  BY PostedInNat, Consumed DEF Inv, AvailableAmount, ReservedAmount
<1>2. ConsumedAmount(e)' = ConsumedAmount(e)
  BY EnvelopeChanges DEF ConsumedAmount
<1>3. CASE UNCHANGED transactions
  <2>1. /\ Posted("RESERVE", e)' = Posted("RESERVE", e)
        /\ Posted("RELEASE", e)' = Posted("RELEASE", e)
    BY <1>3 DEF Posted, RowsOf
  <2>2. QED
    BY <1>1, <1>2, <2>1
<1>4. ASSUME NEW g \in Handlers, ApproveReserve(g)
      PROVE  /\ Posted("RESERVE", e)' = Posted("RESERVE", e) + 0
             /\ Posted("RELEASE", e)' = Posted("RELEASE", e) + 0
  <2>1. /\ ReserveRow(g) \in Transactions
        /\ transactions' = Append(transactions, ReserveRow(g))
        /\ ReserveRow(g).type = "RESERVE"
        /\ ReserveRow(g).envelope = calls[g].envelope
    BY <1>4, PostedRows DEF ReserveRow
  <2>2. calls[g].envelope # e
    BY <1>4
  <2>3. QED
    BY <2>1, <2>2, PostedAfter
<1>5. ASSUME NEW g \in Handlers, CancelRelease(g)
      PROVE  /\ Posted("RESERVE", e)' = Posted("RESERVE", e) + 0
             /\ Posted("RELEASE", e)' =
                  Posted("RELEASE", e)
                    + (IF ReleaseRow(g).envelope = e THEN calls[g].cap ELSE 0)
             /\ calls[g].cap \in Nat
  <2>1. /\ ReleaseRow(g) \in Transactions
        /\ transactions' = Append(transactions, ReleaseRow(g))
        /\ ReleaseRow(g).type = "RELEASE" /\ ReleaseRow(g).amount = calls[g].cap
    BY <1>5, PostedRows DEF ReleaseRow
  <2>2. calls[g].cap \in Nat
    BY <1>1 DEF TypeOK, Calls
  <2>3. QED
    BY <2>1, <2>2, PostedAfter
<1>6. CASE \E g \in Handlers : ApproveReserve(g)
  BY <1>1, <1>2, <1>4, <1>6
<1>7. CASE \E g \in Handlers : CancelRelease(g)
  <2>1. PICK g \in Handlers : CancelRelease(g)
    BY <1>7
  <2>2. \E n \in Nat : Posted("RELEASE", e)' = Posted("RELEASE", e) + n
    BY <1>5, <2>1
  <2>3. QED
    BY <1>1, <1>2, <1>5, <2>1, <2>2
<1>8. QED
  BY <1>3, <1>6, <1>7, TransactionSteps

\* A call that has passed the availability test sees no other take what it
\* has found: others reserve elsewhere, and a release gives back.
LEMMA AffordsStep ==
    ASSUME TestsApart, TextRefuses, Inv, SerialInv, CapsInv, [Next]_vars,
           NEW h \in Handlers, CallAffords(h)
    PROVE  CallAffords(h)'
<1>1. /\ TypeOK /\ calls \in [Handlers -> Calls]
      /\ calls[h].cap \in Nat /\ CallCurrent(h) /\ CallValid(h)
  BY DEF Inv, TypeOK, Calls, SerialInv, CallsInv
<1>2. ASSUME NEW e \in Envelopes
      PROVE  AvailableAmount(e) \in Int
  <2>1. Posted("RESERVE", e) \in Nat /\ Posted("RELEASE", e) \in Nat
    BY PostedInNat
  <2>2. QED
    BY <1>1, <2>1, Consumed DEF AvailableAmount, ReservedAmount
<1>3. ASSUME UNCHANGED <<transactions, ledger>>, NEW e
      PROVE  AvailableAmount(e)' = AvailableAmount(e)
  BY <1>3 DEF AvailableAmount, ReservedAmount, ConsumedAmount, Posted, RowsOf
<1>4. CASE calls'[h] = calls[h]
  <2>1. CASE calls[h].at \in TestedSteps
    <3>1. PICK e \in Envelopes : e = calls[h].envelope
      BY <1>1, <2>1 DEF CallValid, EnvelopeSteps, TestedSteps
    <3>2. ASSUME NEW g \in Handlers, ApproveReserve(g)
          PROVE  calls[g].envelope # e
      <4>1. calls'[g].at # calls[g].at
        BY <1>1, <3>2 DEF ApproveReserve, At, Proceed, Calls
      <4>2. g # h /\ calls[g].at \in TestedSteps
        BY <1>4, <3>2, <4>1 DEF ApproveReserve, At, TestedSteps
      <4>3. QED
        BY <2>1, <3>1, <4>2 DEF TestsApart
    <3>3. /\ AvailableAmount(e) \in Int /\ AvailableAmount(e)' \in Int
          /\ AvailableAmount(e) <= AvailableAmount(e)'
      BY <3>2, AvailableStep
    <3>4. calls[h].cap <= AvailableAmount(e)
      BY <2>1, <3>1 DEF CallAffords, TestedSteps
    <3>5. calls[h].cap <= AvailableAmount(e)'
      BY <1>1, <3>3, <3>4
    <3>6. QED
      BY <1>4, <2>1, <3>1, <3>5 DEF CallAffords, TestedSteps
  <2>2. CASE calls[h].at \notin TestedSteps
    BY <1>4, <2>2 DEF CallAffords, TestedSteps
  <2>3. QED
    BY <2>1, <2>2
<1>5. CASE \E a \in Documents, cap \in Caps : UpdateRead(h, a, cap)
  BY <1>1, <1>5 DEF UpdateRead, Begin, Idle, CallAffords
<1>6. ASSUME NEW step \in Steps, Proceed(h, step)
      PROVE  /\ calls'[h].at = step /\ calls'[h].cap = calls[h].cap
             /\ calls'[h].envelope = calls[h].envelope
  BY <1>1, <1>6, Proceeds
<1>7. ASSUME Return(h)
      PROVE  CallAffords(h)'
  BY <1>1, <1>7, ReturnCurrent DEF CallAffords
<1>8. CASE ApproveAvailable(h)
  <2>1. CASE SufficientForText(calls[h].envelope, calls[h].cap)
    <3>1. /\ calls[h].envelope \in Envelopes /\ calls[h].agreement \in Documents
          /\ calls[h].cap = agreements[calls[h].agreement].cap
          /\ agreements[calls[h].agreement].status = "PENDING"
      BY <1>1, <1>8 DEF ApproveAvailable, At, CallValid, EnvelopeSteps,
                        CallCurrent, ApproveSteps
    <3>2. calls[h].cap \in Caps
      BY <3>1 DEF CapsInv
    <3>3. calls[h].cap <= AvailableAmount(calls[h].envelope)
      BY <1>1, <1>2, <2>1, <3>1, <3>2 DEF SufficientForText, TextRefuses
    <3>4. Proceed(h, "approve.key")
      BY <1>8, <2>1 DEF ApproveAvailable
    <3>5. QED
      BY <1>3, <1>6, <1>8, <3>3, <3>4 DEF ApproveAvailable, CallAffords, Steps
  <2>2. CASE ~SufficientForText(calls[h].envelope, calls[h].cap)
    BY <1>7, <1>8, <2>2 DEF ApproveAvailable
  <2>3. QED
    BY <2>1, <2>2
<1>9. CASE ApproveKey(h)
  BY <1>3, <1>6, <1>9 DEF ApproveKey, At, CallAffords, Steps
<1>10. CASE calls'[h].at \notin {"update.write", "approve.key", "approve.reserve"}
  BY <1>10 DEF CallAffords
<1>11. CASE ApproveDecide(h) \/ RejectDecide(h)
  BY <1>6, <1>10, <1>11 DEF ApproveDecide, RejectDecide, Steps
<1>12. CASE Direct(h)
  <2>1. ASSUME NEW r, NEW user, NEW step \in DirectSteps,
               DirectRead(h, r, user, step)
        PROVE  CallAffords(h)'
    <3>1. calls'[h] = [Idle EXCEPT !.at = step, !.user = user,
                                   !.agreement = requests[r].entity,
                                   !.request = r]
      BY <1>1, <2>1 DEF DirectRead, Begin
    <3>2. calls'[h].at = step
      BY <3>1 DEF Idle
    <3>3. QED
      BY <1>10, <2>1, <3>2 DEF DirectSteps
  <2>2. QED
    BY <1>7, <1>12, <2>1
    DEF Direct, DirectApproveRead, DirectRejectRead, DirectWithdrawRead,
        DirectApproveWrite, DirectRejectWrite, DirectWithdrawWrite,
        DirectWrite, DirectSteps
<1>13. QED
  BY <1>1, <1>4, <1>5, <1>8, <1>9, <1>10, <1>11, <1>12, ReachesSteps
  DEF Reaches, PlainSteps

\* A reservation takes what the call can afford, a release gives back.
LEMMA AffordStep ==
    ASSUME Inv, AffordInv, [Next]_vars
    PROVE  NoOvercommitment'
<1>1. ASSUME NEW e \in Envelopes
      PROVE  /\ Posted("RESERVE", e) \in Nat /\ Posted("RELEASE", e) \in Nat
             /\ ConsumedAmount(e) = 0 /\ Allocated[e] \in Nat
             /\ ReservedAmount(e) = Posted("RESERVE", e) - Posted("RELEASE", e)
             /\ ReservedAmount(e)' = Posted("RESERVE", e)' - Posted("RELEASE", e)'
             /\ ReservedAmount(e) <= Allocated[e]
  BY PostedInNat, Consumed, NothingConsumed
  DEF Inv, ReservedAmount, AffordInv, NoOvercommitment
<1>2. ASSUME NEW h \in Handlers, ApproveReserve(h), NEW e \in Envelopes
      PROVE  ReservedAmount(e)' <= Allocated[e]
  <2>1. /\ ReserveRow(h) \in Transactions
        /\ transactions' = Append(transactions, ReserveRow(h))
    BY <1>2, PostedRows
  <2>2. /\ ReserveRow(h).type = "RESERVE" /\ ReserveRow(h).amount = calls[h].cap
        /\ ReserveRow(h).envelope = calls[h].envelope
    BY DEF ReserveRow
  <2>3. /\ Posted("RESERVE", e)' = Posted("RESERVE", e)
              + (IF calls[h].envelope = e THEN calls[h].cap ELSE 0)
        /\ Posted("RELEASE", e)' = Posted("RELEASE", e)
    <3>1. Posted("RELEASE", e)' = Posted("RELEASE", e) + 0
      BY <2>1, <2>2, PostedAfter
    <3>2. QED
      BY <1>1, <2>1, <2>2, <3>1, PostedAfter
  <2>4. calls[h].cap \in Nat
    BY DEF Inv, TypeOK, Calls
  <2>5. calls[h].cap <= AvailableAmount(calls[h].envelope)
    BY <1>2 DEF ApproveReserve, At, AffordInv, CallAffords
  <2>6. CASE calls[h].envelope = e
    BY <1>1, <2>3, <2>4, <2>5, <2>6 DEF AvailableAmount
  <2>7. CASE calls[h].envelope # e
    BY <1>1, <2>3, <2>7
  <2>8. QED
    BY <2>6, <2>7
<1>3. ASSUME NEW h \in Handlers, CancelRelease(h), NEW e \in Envelopes
      PROVE  ReservedAmount(e)' <= Allocated[e]
  <2>1. /\ ReleaseRow(h) \in Transactions
        /\ transactions' = Append(transactions, ReleaseRow(h))
    BY <1>3, PostedRows
  <2>2. ReleaseRow(h).type = "RELEASE" /\ ReleaseRow(h).amount = calls[h].cap
    BY DEF ReleaseRow
  <2>3. calls[h].cap \in Nat
    BY DEF Inv, TypeOK, Calls
  <2>4. Posted("RESERVE", e)' = Posted("RESERVE", e) + 0
    BY <2>1, <2>2, PostedAfter
  <2>5. Posted("RELEASE", e)' = Posted("RELEASE", e)
          + (IF ReleaseRow(h).envelope = e THEN calls[h].cap ELSE 0)
    BY <2>1, <2>2, PostedAfter
  <2>6. QED
    BY <1>1, <2>3, <2>4, <2>5
<1>4. CASE UNCHANGED transactions
  <2>1. \A e \in Envelopes : ReservedAmount(e)' = ReservedAmount(e)
    BY <1>4 DEF ReservedAmount, Posted, RowsOf
  <2>2. QED
    BY <1>1, <2>1 DEF NoOvercommitment
<1>5. QED
  BY <1>2, <1>3, <1>4, TransactionSteps DEF NoOvercommitment

\* No envelope is reserved beyond what it was allocated, if calls keep apart
\* and the comparison of texts is right about the caps that are used.
THEOREM WithinAllocation ==
    ASSUME TextRefuses
    PROVE  Spec /\ []Apart /\ []TestsApart => []NoOvercommitment
<1>1. Init => AffordInv
  <2>1. SUFFICES ASSUME Init PROVE AffordInv
    OBVIOUS
  <2>2. /\ \A h \in Handlers : calls[h].at = "idle"
        /\ \A a \in Documents : agreements[a].status = "ABSENT"
        /\ DOMAIN transactions = {}
    BY <2>1 DEF Init, Idle, BudgetInit
  <2>3. \A type, e : Posted(type, e) = 0
    <3>1. \A type, e : RowsOf(type, e) = {}
      BY <2>2 DEF RowsOf
    <3>2. QED
      BY <3>1, TotalOfNone DEF Posted
  <2>4. \A e \in Envelopes : ReservedAmount(e) = 0 /\ Allocated[e] \in Nat
    BY <2>3, EnvelopeAssumption DEF ReservedAmount
  <2>5. ledger = <<>>
    BY <2>1 DEF Init, BudgetInit
  <2>6. QED
    BY <2>2, <2>4, <2>5 DEF AffordInv, CallAffords, CapsInv, NoOvercommitment
<1>2. TestsApart /\ Inv /\ SerialInv /\ AffordInv /\ [Next]_vars => AffordInv'
  BY CapsStep, AffordsStep, AffordStep, EnvelopeChanges DEF AffordInv
<1>3. AffordInv => NoOvercommitment
  BY DEF AffordInv
<1>4. QED
  BY <1>1, <1>2, <1>3, Invariance, SerialInvariance, PTL DEF Spec

=============================================================================
