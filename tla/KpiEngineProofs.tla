--------------------------- MODULE KpiEngineProofs ---------------------------
(***************************************************************************)
(* Proofs about KpiEngine for any definitions, levels, callers, TTL and    *)
(* query time.  The argument counts down: a stale answer is received       *)
(* within MaxQuery ticks of the change, and a stale list is dropped by     *)
(* some timer within Ttl more, though not always by its own.               *)
(***************************************************************************)
EXTENDS KpiEngine, FiniteSetTheorems, TLAPS

\* Who has calculated waits for nothing.
AtRest == \A c \in Callers : callers[c].at = "calculated" => callers[c].left = 0

\* An answer older than a change is received while the change is young.
LateAnswers ==
    \A c \in Callers :
      callers[c].at = "answered" /\ callers[c].list # ActiveKpis
        => quiet + callers[c].left <= MaxQuery

\* Whatever is stored, a timer will drop it.
SomeTimer == kpiCache # {} => \E t \in 0..Ttl : timers[t] > 0

\* A list older than a change is dropped while the change is young.
StaleIsDropped ==
    \A list \in kpiCache : list # ActiveKpis =>
      \E t \in 0..Ttl : timers[t] > 0 /\ quiet + t <= MaxQuery + Ttl

\* The table held every definition and every formula that is around.
Held(list) == \A k \in DOMAIN list : <<k, list[k].text, list[k].type>> \in had

AllHeld == /\ \A k \in Kpis : <<k, kpis[k].text, kpis[k].type>> \in had
           /\ \A list \in kpiCache : Held(list)
           /\ \A c \in Callers : Held(callers[c].list)
           /\ \A k \in Kpis, x \in Texts : formulas[<<k, x>>] # NoType =>
                <<k, x, formulas[<<k, x>>]>> \in had

Inv == /\ KpiTypeOK
       /\ AtRest
       /\ LateAnswers
       /\ SomeTimer
       /\ StaleIsDropped
       /\ AllHeld

LEMMA ActiveIsList ==
    ASSUME KpiTypeOK
    PROVE  /\ ActiveKpis \in Lists
           /\ DOMAIN ActiveKpis \subseteq Kpis
           /\ \A k \in DOMAIN ActiveKpis :
                /\ ActiveKpis[k].text = kpis[k].text
                /\ ActiveKpis[k].type = kpis[k].type
<1> DEFINE S == {k \in Kpis : kpis[k].listed}
<1>1. ActiveKpis \in [S -> [text : Texts, type : Types]] /\ DOMAIN ActiveKpis = S
  BY DEF ActiveKpis, KpiTypeOK, Definitions
<1>2. S \in SUBSET Kpis
  OBVIOUS
<1>3. ActiveKpis \in Lists
  BY <1>1, <1>2 DEF Lists
<1>4. \A k \in DOMAIN ActiveKpis : /\ ActiveKpis[k].text = kpis[k].text
                                   /\ ActiveKpis[k].type = kpis[k].type
  BY DEF ActiveKpis
<1>5. QED
  BY <1>1, <1>2, <1>3, <1>4

LEMMA NoListIsList == NoList \in Lists /\ DOMAIN NoList = {}
<1>1. NoList \in [{} -> [text : Texts, type : Types]] /\ DOMAIN NoList = {}
  BY DEF NoList
<1>2. {} \in SUBSET Kpis
  OBVIOUS
<1>3. QED
  BY <1>1, <1>2 DEF Lists

LEMMA NoListIsRun == NoList \in UNION {[S -> Types] : S \in SUBSET Kpis}
<1>1. NoList \in [{} -> Types]
  BY DEF NoList
<1>2. {} \in SUBSET Kpis
  OBVIOUS
<1>3. QED
  BY <1>1, <1>2

LEMMA ListFields ==
    ASSUME NEW list \in Lists
    PROVE  /\ DOMAIN list \subseteq Kpis
           /\ \A k \in DOMAIN list : list[k] \in [text : Texts, type : Types]
<1>1. PICK S \in SUBSET Kpis : list \in [S -> [text : Texts, type : Types]]
  BY DEF Lists
<1>2. QED
  BY <1>1

LEMMA ParsedIsType ==
    ASSUME KpiTypeOK, NEW list \in Lists, NEW k \in DOMAIN list
    PROVE  Parsed(k, list[k]) \in Types
<1>1. k \in Kpis /\ list[k].text \in Texts /\ list[k].type \in Types
  BY ListFields
<1>2. formulas[<<k, list[k].text>>] \in Types \cup {NoType}
  BY <1>1 DEF KpiTypeOK
<1>3. QED
  BY <1>1, <1>2 DEF Parsed

\* Calculations keep to their own caller and to formulas of the table.
LEMMA CalculateEffect ==
    ASSUME KpiTypeOK, NEW c \in Callers, NEW level \in Levels,
           NEW list \in Lists, Calculate(c, level, list)
    PROVE  /\ callers' \in [Callers -> CallerStates]
           /\ formulas' \in [Kpis \X Texts -> Types \cup {NoType}]
           /\ callers'[c].at = "calculated"
           /\ callers'[c].left = 0
           /\ callers'[c].list = list
           /\ DOMAIN callers'[c].run \subseteq DOMAIN list
           /\ \A k \in DOMAIN callers'[c].run :
                callers'[c].run[k] = Parsed(k, list[k])
           /\ \A d \in Callers \ {c} : callers'[d] = callers[d]
           /\ \A k \in Kpis, x \in Texts :
                \/ formulas'[<<k, x>>] = formulas[<<k, x>>]
                \/ /\ k \in DOMAIN list /\ list[k].text = x
                   /\ formulas'[<<k, x>>] = Parsed(k, list[k])
<1> DEFINE mine == {k \in DOMAIN list : LevelOf[k] = level}
           run == [k \in mine |-> Parsed(k, list[k])]
           call == [at |-> "calculated", level |-> level, left |-> 0,
                    list |-> list, run |-> run]
<1>1. callers' = [callers EXCEPT ![c] = call]
  BY DEF Calculate
<1>2. formulas' = [key \in Kpis \X Texts |->
                     IF key[1] \in mine /\ list[key[1]].text = key[2]
                       THEN Parsed(key[1], list[key[1]])
                       ELSE formulas[key]]
  BY DEF Calculate
<1>3. mine \in SUBSET Kpis /\ mine \subseteq DOMAIN list
  BY ListFields
<1>4. run \in [mine -> Types]
  BY <1>3, ParsedIsType
<1>5. run \in UNION {[S -> Types] : S \in SUBSET Kpis}
  BY <1>3, <1>4
<1>6. DOMAIN run = mine /\ \A k \in mine : run[k] = Parsed(k, list[k])
  OBVIOUS
<1> HIDE DEF run
<1>7. call \in CallerStates
  BY <1>5, KpiAssumption DEF CallerStates, CallerSteps
<1>8. /\ call.at = "calculated" /\ call.left = 0 /\ call.list = list
      /\ call.run = run
  OBVIOUS
<1> HIDE DEF mine, call
<1>9. /\ callers' \in [Callers -> CallerStates]
      /\ callers'[c] = call
      /\ \A d \in Callers \ {c} : callers'[d] = callers[d]
  BY <1>1, <1>7 DEF KpiTypeOK
<1>10. formulas' \in [Kpis \X Texts -> Types \cup {NoType}]
  <2>1. ASSUME NEW key \in Kpis \X Texts
        PROVE  (IF key[1] \in mine /\ list[key[1]].text = key[2]
                  THEN Parsed(key[1], list[key[1]]) ELSE formulas[key])
                 \in Types \cup {NoType}
    BY <1>3, ParsedIsType DEF KpiTypeOK
  <2>2. QED
    BY <1>2, <2>1
<1>11. ASSUME NEW k \in Kpis, NEW x \in Texts
       PROVE  \/ formulas'[<<k, x>>] = formulas[<<k, x>>]
              \/ /\ k \in DOMAIN list /\ list[k].text = x
                 /\ formulas'[<<k, x>>] = Parsed(k, list[k])
  BY <1>2, <1>3
<1>12. QED
  BY <1>3, <1>6, <1>8, <1>9, <1>10, <1>11

LEMMA InvInit == Init => Inv
<1> SUFFICES ASSUME Init PROVE Inv
  OBVIOUS
<1>1. callers \in [Callers -> CallerStates]
  <2>1. \A l \in Levels : [at |-> "idle", level |-> l, left |-> 0,
                           list |-> NoList, run |-> NoList] \in CallerStates
    BY NoListIsList, NoListIsRun, KpiAssumption DEF CallerStates, CallerSteps
  <2>2. QED
    BY <2>1 DEF Init
<1>2. had \subseteq Kpis \X Texts \X Types
  BY DEF Init, Definitions
<1>3. quiet \in 0..Settled /\ timers \in [0..Ttl -> 0..MaxTimers]
  BY KpiAssumption DEF Init, Settled
<1>4. kpiCache \subseteq Lists /\ Cardinality(kpiCache) <= 1
  BY FS_EmptySet DEF Init
<1>5. KpiTypeOK
  BY <1>1, <1>2, <1>3, <1>4 DEF Init, KpiTypeOK
<1>6. \A c \in Callers : callers[c].at = "idle" /\ callers[c].list = NoList
  BY DEF Init
<1>7. AtRest /\ LateAnswers /\ SomeTimer /\ StaleIsDropped
  BY <1>6 DEF Init, AtRest, LateAnswers, SomeTimer, StaleIsDropped
<1>8. AllHeld
  BY <1>6, NoListIsList DEF Init, AllHeld, Held
<1>9. QED
  BY <1>5, <1>7, <1>8 DEF Inv

-----------------------------------------------------------------------------
(* Steps of KpiService.                                                    *)

LEMMA StoreStep ==
    ASSUME Inv, NEW k \in Kpis, NEW d \in Definitions, Store(k, d)
    PROVE  Inv'
<1>1. /\ kpis' \in [Kpis -> Definitions]
      /\ kpis'[k] = d
      /\ \A j \in Kpis \ {k} : kpis'[j] = kpis[j]
      /\ had' = had \cup {<<k, d.text, d.type>>}
      /\ quiet' = 0
      /\ UNCHANGED <<kpiCache, timers, formulas, callers>>
  BY DEF Store, Inv, KpiTypeOK
<1>2. KpiTypeOK'
  BY <1>1, KpiAssumption DEF Inv, KpiTypeOK, Definitions, Settled
<1>3. AtRest'
  BY <1>1 DEF Inv, AtRest
<1>4. LateAnswers'
  BY <1>1 DEF Inv, LateAnswers, KpiTypeOK, CallerStates
<1>5. SomeTimer'
  BY <1>1 DEF Inv, SomeTimer
<1>6. StaleIsDropped'
  <2>1. SUFFICES ASSUME NEW list \in kpiCache
                 PROVE  \E t \in 0..Ttl : timers[t] > 0 /\ 0 + t <= MaxQuery + Ttl
    BY <1>1 DEF StaleIsDropped
  <2>2. PICK t \in 0..Ttl : timers[t] > 0
    BY DEF Inv, SomeTimer
  <2>3. QED
    BY <2>2, KpiAssumption
<1>7. AllHeld'
  BY <1>1 DEF Inv, AllHeld, Held
<1>8. QED
  BY <1>2, <1>3, <1>4, <1>5, <1>6, <1>7 DEF Inv

-----------------------------------------------------------------------------
(* Steps of KpiEngineService.                                              *)

\* What has been calculated was held: so the formulas stay held.
LEMMA CalculateHeld ==
    ASSUME Inv, NEW c \in Callers, NEW level \in Levels, NEW list \in Lists,
           Held(list), Calculate(c, level, list), UNCHANGED had
    PROVE  /\ \A d \in Callers : Held(callers[d].list)'
           /\ \A k \in Kpis, x \in Texts : formulas'[<<k, x>>] # NoType =>
                <<k, x, formulas'[<<k, x>>]>> \in had
<1>1. Held(list)'
  BY DEF Held
<1>2. \A d \in Callers : Held(callers[d].list)'
  BY <1>1, CalculateEffect DEF Inv, AllHeld, Held
<1>3. ASSUME NEW k \in Kpis, NEW x \in Texts, formulas'[<<k, x>>] # NoType
      PROVE  <<k, x, formulas'[<<k, x>>]>> \in had
  <2>1. CASE formulas'[<<k, x>>] = formulas[<<k, x>>]
    BY <1>3, <2>1 DEF Inv, AllHeld
  <2>2. CASE /\ k \in DOMAIN list /\ list[k].text = x
             /\ formulas'[<<k, x>>] = Parsed(k, list[k])
    BY <1>3, <2>2 DEF Inv, AllHeld, Held, Parsed
  <2>3. QED
    BY <2>1, <2>2, CalculateEffect DEF Inv
<1>4. QED
  BY <1>2, <1>3

LEMMA FindCachedStep ==
    ASSUME Inv, NEW c \in Callers, NEW level \in Levels, FindCached(c, level)
    PROVE  Inv'
<1>1. PICK list \in kpiCache : Calculate(c, level, list)
  BY DEF FindCached
<1>2. list \in Lists /\ Held(list)
  BY DEF Inv, KpiTypeOK, AllHeld
<1>3. UNCHANGED <<kpis, had, quiet, kpiCache, timers>>
  BY DEF FindCached
<1>4. /\ callers' \in [Callers -> CallerStates]
      /\ formulas' \in [Kpis \X Texts -> Types \cup {NoType}]
      /\ callers'[c].at = "calculated"
      /\ callers'[c].left = 0
      /\ \A d \in Callers \ {c} : callers'[d] = callers[d]
  BY <1>1, <1>2, CalculateEffect DEF Inv
<1>5. ActiveKpis' = ActiveKpis
  BY <1>3 DEF ActiveKpis
<1>6. KpiTypeOK'
  BY <1>3, <1>4 DEF Inv, KpiTypeOK
<1>7. AtRest' /\ LateAnswers'
  BY <1>3, <1>4, <1>5 DEF Inv, AtRest, LateAnswers
<1>8. SomeTimer' /\ StaleIsDropped'
  BY <1>3, <1>5 DEF Inv, SomeTimer, StaleIsDropped
<1>9. AllHeld'
  <2>1. \A l \in kpiCache : Held(l)'
    BY <1>3 DEF Inv, AllHeld, Held
  <2>2. /\ \A d \in Callers : Held(callers[d].list)'
        /\ \A k \in Kpis, x \in Texts : formulas'[<<k, x>>] # NoType =>
             <<k, x, formulas'[<<k, x>>]>> \in had
    BY <1>1, <1>2, <1>3, CalculateHeld
  <2>3. QED
    BY <1>3, <2>1, <2>2 DEF Inv, AllHeld
<1>10. QED
  BY <1>6, <1>7, <1>8, <1>9 DEF Inv

\* A stale answer arrives early enough for the timer it starts.
LEMMA ReceiveStep ==
    ASSUME Inv, NEW c \in Callers, Receive(c)
    PROVE  Inv'
<1> DEFINE list == callers[c].list
           level == callers[c].level
<1>1. list \in Lists /\ level \in Levels /\ Held(list)
  BY DEF Inv, KpiTypeOK, CallerStates, AllHeld
<1>2. /\ callers[c].at = "answered"
      /\ kpiCache' = {list}
      /\ timers[Ttl] < MaxTimers
      /\ timers' = [timers EXCEPT ![Ttl] = timers[Ttl] + 1]
      /\ Calculate(c, level, list)
      /\ UNCHANGED <<kpis, had, quiet>>
  BY DEF Receive
<1> HIDE DEF list, level
<1>3. /\ callers' \in [Callers -> CallerStates]
      /\ formulas' \in [Kpis \X Texts -> Types \cup {NoType}]
      /\ callers'[c].at = "calculated"
      /\ callers'[c].left = 0
      /\ \A d \in Callers \ {c} : callers'[d] = callers[d]
  BY <1>1, <1>2, CalculateEffect DEF Inv
<1>4. ActiveKpis' = ActiveKpis
  BY <1>2 DEF ActiveKpis
<1>5. /\ timers' \in [0..Ttl -> 0..MaxTimers]
      /\ Ttl \in 0..Ttl /\ timers'[Ttl] > 0
  BY <1>2, KpiAssumption DEF Inv, KpiTypeOK
<1>6. KpiTypeOK'
  <2>1. Cardinality({list}) = 1
    BY FS_Singleton
  <2>2. QED
    BY <1>1, <1>2, <1>3, <1>5, <2>1 DEF Inv, KpiTypeOK
<1>7. AtRest' /\ LateAnswers'
  BY <1>2, <1>3, <1>4 DEF Inv, AtRest, LateAnswers
<1>8. SomeTimer'
  BY <1>5 DEF SomeTimer
<1>9. StaleIsDropped'
  <2>1. SUFFICES ASSUME list # ActiveKpis
                 PROVE  quiet + Ttl <= MaxQuery + Ttl
    BY <1>2, <1>4, <1>5 DEF StaleIsDropped
  <2>2. /\ quiet + callers[c].left <= MaxQuery
        /\ callers[c].left \in Nat /\ quiet \in Nat
    BY <1>2, <2>1, KpiAssumption
       DEF Inv, LateAnswers, KpiTypeOK, CallerStates, Settled, list
  <2>3. QED
    BY <2>2, KpiAssumption
<1>10. AllHeld'
  <2>1. \A l \in kpiCache' : Held(l)'
    BY <1>1, <1>2 DEF Held
  <2>2. /\ \A d \in Callers : Held(callers[d].list)'
        /\ \A k \in Kpis, x \in Texts : formulas'[<<k, x>>] # NoType =>
             <<k, x, formulas'[<<k, x>>]>> \in had
    BY <1>1, <1>2, CalculateHeld
  <2>3. QED
    BY <1>2, <2>1, <2>2 DEF Inv, AllHeld
<1>11. QED
  BY <1>6, <1>7, <1>8, <1>9, <1>10 DEF Inv

\* Changing the fields of a caller.
LEMMA CallerFields ==
    ASSUME NEW call \in CallerStates, NEW step \in CallerSteps,
           NEW list \in Lists
    PROVE  /\ [call EXCEPT !.at = step, !.list = list] \in CallerStates
           /\ [call EXCEPT !.at = step, !.left = 0, !.list = list]
                 \in CallerStates
           /\ [call EXCEPT !.at = step, !.left = 0, !.list = list,
                            !.run = NoList] \in CallerStates
<1>1. 0 \in 0..MaxQuery
  BY KpiAssumption
<1> DEFINE Runs == UNION {[S -> Types] : S \in SUBSET Kpis}
<1>2. CallerStates = [at : CallerSteps, level : Levels, left : 0..MaxQuery,
                      list : Lists, run : Runs]
  BY DEF CallerStates
<1>3. NoList \in Runs
  BY NoListIsRun
<1> HIDE DEF Runs
<1>4. QED
  BY <1>1, <1>2, <1>3

\* Send, Query, QueryFails and Restart change callers only, or drop things.
LEMMA SendStep ==
    ASSUME Inv, NEW c \in Callers, NEW level \in Levels, Send(c, level)
    PROVE  Inv'
<1> DEFINE call == [at |-> "sent", level |-> level, left |-> MaxQuery,
                    list |-> NoList, run |-> NoList]
<1>1. call \in CallerStates
  BY NoListIsList, NoListIsRun, KpiAssumption DEF CallerStates, CallerSteps
<1>2. call.at = "sent" /\ call.list = NoList
  OBVIOUS
<1>3. callers' = [callers EXCEPT ![c] = call]
      /\ UNCHANGED <<kpis, had, quiet, kpiCache, timers, formulas>>
  BY DEF Send
<1> HIDE DEF call
<1>4. /\ callers' \in [Callers -> CallerStates]
      /\ callers'[c] = call
      /\ \A d \in Callers \ {c} : callers'[d] = callers[d]
  BY <1>1, <1>3 DEF Inv, KpiTypeOK
<1>5. ActiveKpis' = ActiveKpis
  BY <1>3 DEF ActiveKpis
<1>6. KpiTypeOK'
  BY <1>3, <1>4 DEF Inv, KpiTypeOK
<1>7. AtRest' /\ LateAnswers'
  BY <1>2, <1>3, <1>4, <1>5 DEF Inv, AtRest, LateAnswers
<1>8. SomeTimer' /\ StaleIsDropped'
  BY <1>3, <1>5 DEF Inv, SomeTimer, StaleIsDropped
<1>9. AllHeld'
  BY <1>2, <1>3, <1>4, NoListIsList DEF Inv, AllHeld, Held
<1>10. QED
  BY <1>6, <1>7, <1>8, <1>9 DEF Inv

LEMMA QueryStep ==
    ASSUME Inv, NEW c \in Callers, Query(c)
    PROVE  Inv'
<1> DEFINE call == [callers[c] EXCEPT !.at = "answered", !.list = ActiveKpis]
<1>1. /\ call \in CallerStates
      /\ call.at = "answered" /\ call.list = ActiveKpis
  <2>1. callers[c] \in CallerStates /\ "answered" \in CallerSteps
    BY DEF Inv, KpiTypeOK, CallerSteps
  <2>2. ActiveKpis \in Lists
    BY ActiveIsList DEF Inv
  <2>3. call \in CallerStates
    BY <2>1, <2>2, CallerFields
  <2>4. QED
    BY <2>1, <2>3 DEF CallerStates
<1>2. callers' = [callers EXCEPT ![c] = call]
      /\ UNCHANGED <<kpis, had, quiet, kpiCache, timers, formulas>>
  BY DEF Query
<1> HIDE DEF call
<1>3. /\ callers' \in [Callers -> CallerStates]
      /\ callers'[c] = call
      /\ \A d \in Callers \ {c} : callers'[d] = callers[d]
  BY <1>1, <1>2 DEF Inv, KpiTypeOK
<1>4. ActiveKpis' = ActiveKpis
  BY <1>2 DEF ActiveKpis
<1>5. KpiTypeOK'
  BY <1>2, <1>3 DEF Inv, KpiTypeOK
<1>6. AtRest' /\ LateAnswers'
  BY <1>1, <1>2, <1>3, <1>4 DEF Inv, AtRest, LateAnswers
<1>7. SomeTimer' /\ StaleIsDropped'
  BY <1>2, <1>4 DEF Inv, SomeTimer, StaleIsDropped
<1>8. AllHeld'
  <2>1. Held(ActiveKpis)
    BY ActiveIsList DEF Inv, AllHeld, Held
  <2>2. \A d \in Callers : Held(callers[d].list)'
    BY <1>1, <1>2, <1>3, <2>1 DEF Inv, AllHeld, Held
  <2>3. QED
    BY <1>2, <2>2 DEF Inv, AllHeld, Held
<1>9. QED
  BY <1>5, <1>6, <1>7, <1>8 DEF Inv

LEMMA QueryFailsStep ==
    ASSUME Inv, NEW c \in Callers, QueryFails(c)
    PROVE  Inv'
<1> DEFINE call == [callers[c] EXCEPT !.at = "idle", !.left = 0,
                                      !.list = NoList]
<1>1. /\ call \in CallerStates
      /\ call.at = "idle" /\ call.list = NoList
  <2>1. callers[c] \in CallerStates /\ "idle" \in CallerSteps
    BY DEF Inv, KpiTypeOK, CallerSteps
  <2>2. call \in CallerStates
    BY <2>1, NoListIsList, CallerFields
  <2>3. QED
    BY <2>1, <2>2 DEF CallerStates
<1>2. callers' = [callers EXCEPT ![c] = call]
      /\ UNCHANGED <<kpis, had, quiet, kpiCache, timers, formulas>>
  BY DEF QueryFails
<1> HIDE DEF call
<1>3. /\ callers' \in [Callers -> CallerStates]
      /\ callers'[c] = call
      /\ \A d \in Callers \ {c} : callers'[d] = callers[d]
  BY <1>1, <1>2 DEF Inv, KpiTypeOK
<1>4. ActiveKpis' = ActiveKpis
  BY <1>2 DEF ActiveKpis
<1>5. KpiTypeOK'
  BY <1>2, <1>3 DEF Inv, KpiTypeOK
<1>6. AtRest' /\ LateAnswers'
  BY <1>1, <1>2, <1>3, <1>4 DEF Inv, AtRest, LateAnswers
<1>7. SomeTimer' /\ StaleIsDropped'
  BY <1>2, <1>4 DEF Inv, SomeTimer, StaleIsDropped
<1>8. AllHeld'
  BY <1>1, <1>2, <1>3, NoListIsList DEF Inv, AllHeld, Held
<1>9. QED
  BY <1>5, <1>6, <1>7, <1>8 DEF Inv

LEMMA TimerFiresStep ==
    ASSUME Inv, TimerFires
    PROVE  Inv'
<1>1. /\ timers' \in [0..Ttl -> 0..MaxTimers]
      /\ kpiCache' = {}
      /\ UNCHANGED <<kpis, had, quiet, formulas, callers>>
  BY KpiAssumption DEF TimerFires, Inv, KpiTypeOK
<1>2. ActiveKpis' = ActiveKpis
  BY <1>1 DEF ActiveKpis
<1>3. KpiTypeOK'
  BY <1>1, FS_EmptySet DEF Inv, KpiTypeOK
<1>4. AtRest' /\ LateAnswers' /\ SomeTimer' /\ StaleIsDropped' /\ AllHeld'
  BY <1>1, <1>2 DEF Inv, AtRest, LateAnswers, SomeTimer, StaleIsDropped,
                    AllHeld, Held
<1>5. QED
  BY <1>3, <1>4 DEF Inv

LEMMA RestartStep ==
    ASSUME Inv, Restart
    PROVE  Inv'
<1>1. /\ kpiCache' = {}
      /\ timers' = [t \in 0..Ttl |-> 0]
      /\ formulas' = [key \in Kpis \X Texts |-> NoType]
      /\ callers' = [c \in Callers |-> [callers[c] EXCEPT
                       !.at = "idle", !.left = 0,
                       !.list = NoList, !.run = NoList]]
      /\ UNCHANGED <<kpis, had, quiet>>
  BY DEF Restart
<1>2. /\ callers' \in [Callers -> CallerStates]
      /\ \A c \in Callers : callers'[c].at = "idle" /\ callers'[c].list = NoList
  <2>1. ASSUME NEW c \in Callers
        PROVE  /\ callers'[c] \in CallerStates
               /\ callers'[c].at = "idle" /\ callers'[c].list = NoList
    <3>1. callers[c] \in CallerStates /\ "idle" \in CallerSteps
      BY DEF Inv, KpiTypeOK, CallerSteps
    <3>2. callers'[c] = [callers[c] EXCEPT !.at = "idle", !.left = 0,
                                           !.list = NoList, !.run = NoList]
      BY <1>1
    <3>3. [callers[c] EXCEPT !.at = "idle", !.left = 0, !.list = NoList,
                             !.run = NoList] \in CallerStates
      BY <3>1, NoListIsList, CallerFields
    <3>4. QED
      BY <3>1, <3>2, <3>3 DEF CallerStates
  <2>2. QED
    BY <1>1, <2>1
<1>3. KpiTypeOK'
  <2>1. /\ timers' \in [0..Ttl -> 0..MaxTimers]
        /\ formulas' \in [Kpis \X Texts -> Types \cup {NoType}]
    <3>1. timers' = [t \in 0..Ttl |-> 0]
      BY DEF Restart
    <3>2. formulas' = [key \in Kpis \X Texts |-> NoType]
      BY DEF Restart
    <3>3. 0 \in 0..MaxTimers
      BY KpiAssumption
    <3>4. QED
      BY <3>1, <3>2, <3>3
  <2>2. UNCHANGED <<kpis, had, quiet>> /\ kpiCache' = {}
    BY <1>1
  <2>3. QED
    BY <1>2, <2>1, <2>2, FS_EmptySet DEF Inv, KpiTypeOK
<1>4. AtRest' /\ LateAnswers' /\ SomeTimer' /\ StaleIsDropped'
  BY <1>1, <1>2 DEF AtRest, LateAnswers, SomeTimer, StaleIsDropped
<1>5. AllHeld'
  BY <1>1, <1>2, NoListIsList DEF Inv, AllHeld, Held
<1>6. QED
  BY <1>3, <1>4, <1>5 DEF Inv

\* A change grows older, the answers and timers that may know it not come
\* nearer by as much.
LEMMA TickStep ==
    ASSUME Inv, Tick
    PROVE  Inv'
<1>1. /\ timers[0] = 0
      /\ \A c \in Callers : callers[c].at \in {"sent", "answered"}
                              => callers[c].left > 0
      /\ timers' = [t \in 0..Ttl |-> IF t = Ttl THEN 0 ELSE timers[t + 1]]
      /\ UNCHANGED <<kpis, had, kpiCache, formulas>>
  BY DEF Tick
<1>2. quiet' \in 0..Settled /\ quiet' <= quiet + 1 /\ quiet \in Nat
  <2>1. quiet' = IF quiet = Settled THEN quiet ELSE quiet + 1
    BY DEF Tick
  <2>2. quiet \in 0..Settled /\ Settled \in Nat
    BY KpiAssumption DEF Inv, KpiTypeOK, Settled
  <2>3. QED
    BY <2>1, <2>2
<1>3. callers' = [c \in Callers |->
                    IF callers[c].left > 0
                      THEN [callers[c] EXCEPT !.left = callers[c].left - 1]
                      ELSE callers[c]]
  BY DEF Tick
<1>4. \A c \in Callers :
        /\ callers'[c] \in CallerStates
        /\ callers'[c].at = callers[c].at
        /\ callers'[c].list = callers[c].list
        /\ callers[c].left \in Nat /\ callers'[c].left \in Nat
        /\ callers[c].left > 0 => callers'[c].left = callers[c].left - 1
        /\ callers[c].left = 0 => callers'[c].left = 0
  <2>1. ASSUME NEW c \in Callers, NEW call \in CallerStates,
               call = callers[c], callers[c].left \in 0..MaxQuery
        PROVE  /\ callers'[c] \in CallerStates
               /\ callers'[c].at = callers[c].at
               /\ callers'[c].list = callers[c].list
               /\ callers[c].left \in Nat /\ callers'[c].left \in Nat
               /\ callers[c].left > 0 => callers'[c].left = callers[c].left - 1
               /\ callers[c].left = 0 => callers'[c].left = 0
    <3> DEFINE Runs == UNION {[S -> Types] : S \in SUBSET Kpis}
    <3>1. CallerStates = [at : CallerSteps, level : Levels, left : 0..MaxQuery,
                          list : Lists, run : Runs]
      BY DEF CallerStates
    <3> HIDE DEF Runs
    <3>2. CASE callers[c].left > 0
      <4>1. callers'[c] = [call EXCEPT !.left = call.left - 1]
        BY <1>3, <2>1, <3>2
      <4>2. call.left - 1 \in 0..MaxQuery
        BY <2>1, <3>2, KpiAssumption
      <4>3. QED
        BY <2>1, <3>1, <3>2, <4>1, <4>2
    <3>3. CASE ~(callers[c].left > 0)
      BY <1>3, <2>1, <3>3
    <3>4. QED
      BY <3>2, <3>3
  <2>2. \A c \in Callers : /\ callers[c] \in CallerStates
                            /\ callers[c].left \in 0..MaxQuery
    BY DEF Inv, KpiTypeOK, CallerStates
  <2>3. QED
    BY <2>1, <2>2
<1>5. callers' \in [Callers -> CallerStates]
  BY <1>3, <1>4
<1>6. timers' \in [0..Ttl -> 0..MaxTimers]
  BY <1>1, KpiAssumption DEF Inv, KpiTypeOK
<1>7. \A t \in 0..Ttl : timers[t] > 0 =>
        t - 1 \in 0..Ttl /\ timers'[t - 1] = timers[t]
  BY <1>1, KpiAssumption
<1>8. ActiveKpis' = ActiveKpis
  BY <1>1 DEF ActiveKpis
<1>9. KpiTypeOK'
  BY <1>1, <1>2, <1>5, <1>6 DEF Inv, KpiTypeOK, Settled
<1>10. AtRest'
  BY <1>4 DEF Inv, AtRest
<1>11. LateAnswers'
  <2>1. SUFFICES ASSUME NEW c \in Callers, callers[c].at = "answered",
                        callers[c].list # ActiveKpis
                 PROVE  quiet' + callers'[c].left <= MaxQuery
    BY <1>4, <1>8 DEF LateAnswers
  <2>2. quiet + callers[c].left <= MaxQuery /\ callers[c].left > 0
    BY <1>1, <2>1 DEF Inv, LateAnswers
  <2>3. quiet' \in Nat
    BY <1>2, KpiAssumption DEF Settled
  <2>4. QED
    BY <1>2, <1>4, <2>2, <2>3, KpiAssumption
<1>12. SomeTimer'
  BY <1>1, <1>7 DEF Inv, SomeTimer
<1>13. StaleIsDropped'
  <2>1. SUFFICES ASSUME NEW list \in kpiCache, list # ActiveKpis
                 PROVE  \E t \in 0..Ttl :
                          timers'[t] > 0 /\ quiet' + t <= MaxQuery + Ttl
    BY <1>1, <1>8 DEF StaleIsDropped
  <2>2. PICK t \in 0..Ttl : timers[t] > 0 /\ quiet + t <= MaxQuery + Ttl
    BY <2>1 DEF Inv, StaleIsDropped
  <2>3. /\ t - 1 \in 0..Ttl /\ timers'[t - 1] > 0
        /\ quiet' + (t - 1) <= MaxQuery + Ttl
    <3>1. t - 1 \in 0..Ttl /\ timers'[t - 1] > 0
      BY <1>7, <2>2
    <3>2. quiet' \in Nat
      BY <1>2, KpiAssumption DEF Settled
    <3>3. t \in Nat /\ MaxQuery + Ttl \in Nat
      BY KpiAssumption
    <3>4. quiet' <= quiet + 1 /\ quiet \in Nat
      BY <1>2
    <3>5. quiet' + (t - 1) <= MaxQuery + Ttl
      BY <2>2, <3>2, <3>3, <3>4
    <3>6. QED
      BY <3>1, <3>5
  <2>4. QED
    BY <2>3
<1>14. AllHeld'
  BY <1>1, <1>4 DEF Inv, AllHeld, Held
<1>15. QED
  BY <1>9, <1>10, <1>11, <1>12, <1>13, <1>14 DEF Inv

LEMMA InvStep == Inv /\ [Next]_vars => Inv'
<1> SUFFICES ASSUME Inv, [Next]_vars PROVE Inv'
  OBVIOUS
<1>1. ASSUME NEW k \in Kpis, Save(k) \/ Remove(k)
      PROVE  Inv'
  <2>1. PICK d \in Definitions : Store(k, d)
    <3>1. [kpis[k] EXCEPT !.listed = FALSE] \in Definitions
      BY DEF Inv, KpiTypeOK, Definitions
    <3>2. QED
      BY <1>1, <3>1 DEF Save, Remove
  <2>2. QED
    BY <2>1, StoreStep
<1>2. CASE UNCHANGED vars
  <2>1. Inv' <=> Inv
    BY <1>2 DEF vars, Inv, KpiTypeOK, AtRest, LateAnswers, ActiveKpis,
                SomeTimer, StaleIsDropped, AllHeld, Held
  <2>2. QED
    BY <2>1
<1>3. QED
  BY <1>1, <1>2, FindCachedStep, SendStep, QueryStep, ReceiveStep,
     QueryFailsStep, TimerFiresStep, RestartStep, TickStep DEF Next

-----------------------------------------------------------------------------
(* What a calculation uses once a change is old enough.                    *)

\* Who calculates found a list or received one.
LEMMA Calculating ==
    ASSUME Inv, [Next]_vars, NEW c \in Callers, Calculates(c)
    PROVE  \E list \in Lists, level \in Levels :
             /\ Calculate(c, level, list)
             /\ list \in kpiCache
                \/ (callers[c].at = "answered" /\ list = callers[c].list)
<1>2. callers' # callers
  BY DEF Calculates
<1>3. ASSUME NEW d \in Callers, NEW level \in Levels, FindCached(d, level)
      PROVE  \E list \in kpiCache : Calculate(c, level, list)
  <2>1. PICK list \in kpiCache : Calculate(d, level, list)
    BY <1>3 DEF FindCached
  <2>2. list \in Lists
    BY DEF Inv, KpiTypeOK
  <2>3. d = c
    BY <2>1, <2>2, CalculateEffect DEF Inv, Calculates
  <2>4. QED
    BY <2>1, <2>3
<1>4. ASSUME NEW d \in Callers, Receive(d)
      PROVE  /\ callers[c].at = "answered"
             /\ Calculate(c, callers[c].level, callers[c].list)
  <2>1. /\ callers[d].at = "answered"
        /\ Calculate(d, callers[d].level, callers[d].list)
    BY <1>4 DEF Receive
  <2>2. callers[d].list \in Lists /\ callers[d].level \in Levels
    BY DEF Inv, KpiTypeOK, CallerStates
  <2>3. d = c
    BY <2>1, <2>2, CalculateEffect DEF Inv, Calculates
  <2>4. QED
    BY <2>1, <2>3
<1>5. ASSUME NEW d \in Callers,
             (\E l \in Levels : Send(d, l)) \/ Query(d) \/ QueryFails(d)
      PROVE  FALSE
  <2>1. ASSUME NEW call, callers' = [callers EXCEPT ![d] = call],
               call.at # "calculated"
        PROVE  FALSE
    <3>1. callers'[c] = IF c = d THEN call ELSE callers[c]
      BY <2>1 DEF Inv, KpiTypeOK
    <3>2. QED
      BY <2>1, <3>1 DEF Calculates
  <2>2. ASSUME NEW l \in Levels, Send(d, l)
        PROVE  FALSE
    <3> DEFINE call == [at |-> "sent", level |-> l, left |-> MaxQuery,
                        list |-> NoList, run |-> NoList]
    <3>1. callers' = [callers EXCEPT ![d] = call] /\ call.at = "sent"
      BY <2>2 DEF Send
    <3> HIDE DEF call
    <3>2. QED
      BY <2>1, <3>1
  <2>3. ASSUME Query(d)
        PROVE  FALSE
    <3> DEFINE call == [callers[d] EXCEPT !.at = "answered",
                                          !.list = ActiveKpis]
    <3>1. callers' = [callers EXCEPT ![d] = call]
      BY <2>3 DEF Query
    <3>2. call.at = "answered"
      BY DEF Inv, KpiTypeOK, CallerStates
    <3> HIDE DEF call
    <3>3. QED
      BY <2>1, <3>1, <3>2
  <2>4. ASSUME QueryFails(d)
        PROVE  FALSE
    <3> DEFINE call == [callers[d] EXCEPT !.at = "idle", !.left = 0,
                                          !.list = NoList]
    <3>1. callers' = [callers EXCEPT ![d] = call]
      BY <2>4 DEF QueryFails
    <3>2. call.at = "idle"
      BY DEF Inv, KpiTypeOK, CallerStates
    <3> HIDE DEF call
    <3>3. QED
      BY <2>1, <3>1, <3>2
  <2>5. QED
    BY <1>5, <2>2, <2>3, <2>4
<1>6. CASE Restart
  <2>1. callers'[c].at = "idle"
    BY <1>6 DEF Restart, Inv, KpiTypeOK, CallerStates
  <2>2. QED
    BY <2>1 DEF Calculates
<1>7. CASE Tick
  <2>1. callers'[c].at = callers[c].at
        /\ (callers[c].left = 0 => callers'[c] = callers[c])
    BY <1>7 DEF Tick, Inv, KpiTypeOK, CallerStates
  <2>2. QED
    BY <2>1 DEF Inv, AtRest, Calculates
<1>8. CASE \/ \E k \in Kpis : Save(k) \/ Remove(k)
           \/ TimerFires \/ UNCHANGED vars
  BY <1>2, <1>8 DEF Save, Remove, Store, TimerFires, vars
<1>9. QED
  <2>1. callers[c].list \in Lists /\ callers[c].level \in Levels
        /\ kpiCache \subseteq Lists
    BY DEF Inv, KpiTypeOK, CallerStates
  <2>2. QED
    <3>1. CASE \E d \in Callers, l \in Levels : FindCached(d, l)
      <4>1. PICK d \in Callers, l \in Levels : FindCached(d, l)
        BY <3>1
      <4>2. PICK list \in kpiCache : Calculate(c, l, list)
        BY <1>3, <4>1
      <4>3. list \in Lists
        BY <2>1
      <4>4. QED
        BY <4>2, <4>3
    <3>2. CASE \E d \in Callers : Receive(d)
      BY <1>4, <2>1, <3>2
    <3>3. CASE \E d \in Callers :
                 (\E l \in Levels : Send(d, l)) \/ Query(d) \/ QueryFails(d)
      BY <1>5, <3>3
    <3>4. QED
      BY <1>6, <1>7, <1>8, <3>1, <3>2, <3>3 DEF Next

LEMMA SettledList ==
    ASSUME Inv, quiet = Settled, NEW c \in Callers, NEW list \in Lists,
           list \in kpiCache
             \/ (callers[c].at = "answered" /\ list = callers[c].list)
    PROVE  list = ActiveKpis
<1>1. SUFFICES ASSUME list # ActiveKpis PROVE FALSE
  OBVIOUS
<1>2. CASE list \in kpiCache
  BY <1>1, <1>2, KpiAssumption DEF Inv, StaleIsDropped, Settled
<1>3. CASE callers[c].at = "answered" /\ list = callers[c].list
  BY <1>1, <1>3, KpiAssumption
     DEF Inv, LateAnswers, Settled, KpiTypeOK, CallerStates
<1>4. QED
  BY <1>2, <1>3

-----------------------------------------------------------------------------
(* The theorems.                                                           *)

\* The inductive invariant: stale answers and stale lists are on their way
\* out, and nothing is used that the table never held.
THEOREM Invariance == Spec => []Inv
<1>1. QED
  BY InvInit, InvStep, PTL DEF Spec

\* Rows, caches, timers and callers keep their types; there is at most one
\* stored list.
THEOREM TypeCorrect == Spec => []KpiTypeOK
<1>1. Inv => KpiTypeOK
  BY DEF Inv
<1>2. QED
  BY Invariance, <1>1, PTL

\* "Simple cache with 60-second TTL": a change older than the TTL and a query
\* is seen by every calculation, however stores, answers and timers interleave.
THEOREM Current == Spec => SettledIsCurrent
<1> DEFINE A == \A c \in Callers :
                  (quiet = Settled /\ Calculates(c))
                     => callers'[c].list = ActiveKpis
<1>1. Inv /\ [Next]_vars => A
  <2>1. SUFFICES ASSUME Inv, [Next]_vars, NEW c \in Callers, quiet = Settled,
                        Calculates(c)
                 PROVE  callers'[c].list = ActiveKpis
    OBVIOUS
  <2>2. PICK list \in Lists, level \in Levels :
          /\ Calculate(c, level, list)
          /\ list \in kpiCache
             \/ (callers[c].at = "answered" /\ list = callers[c].list)
    BY <2>1, Calculating
  <2>3. QED
    BY <2>1, <2>2, SettledList, CalculateEffect DEF Inv
<1>2. QED
  BY <1>1, Invariance, PTL DEF Spec, SettledIsCurrent

\* Two types of one text make two members.
LEMMA TwoTypes ==
    ASSUME NEW T \in SUBSET Types, NEW a \in T, NEW b \in T, a # b
    PROVE  Cardinality(T) > 1
<1>1. IsFiniteSet(T) /\ {a, b} \subseteq T
  BY KpiAssumption, FS_Subset
<1>2. Cardinality({a, b}) <= Cardinality(T) /\ Cardinality(T) \in Nat
  BY <1>1, FS_Subset, FS_CardinalityType
<1>3. Cardinality({a, b}) = 2
  <2>1. Cardinality({a}) = 1 /\ IsFiniteSet({a})
    BY FS_Singleton
  <2>2. {a, b} = {a} \cup {b} /\ b \notin {a}
    OBVIOUS
  <2>3. QED
    BY <2>1, <2>2, FS_AddElement
<1>4. QED
  BY <1>2, <1>3

\* Then the formula of the definition is executed, unless the table held its
\* text under two types: the parsed formula is never dropped.
THEOREM FormulaOfDefinition == Spec => SettledFormula
<1> DEFINE A == \A c \in Callers :
                  (quiet = Settled /\ Calculates(c))
                    => \A k \in DOMAIN callers'[c].run :
                         \/ callers'[c].run[k] = kpis[k].type
                         \/ Cardinality({t \in Types :
                                           <<k, kpis[k].text, t>> \in had}) > 1
<1>1. Inv /\ [Next]_vars => A
  <2>1. SUFFICES ASSUME Inv, [Next]_vars, NEW c \in Callers, quiet = Settled,
                        Calculates(c), NEW k \in DOMAIN callers'[c].run,
                        callers'[c].run[k] # kpis[k].type
                 PROVE  Cardinality({t \in Types :
                                       <<k, kpis[k].text, t>> \in had}) > 1
    OBVIOUS
  <2>2. PICK list \in Lists, level \in Levels :
          /\ Calculate(c, level, list)
          /\ list \in kpiCache
             \/ (callers[c].at = "answered" /\ list = callers[c].list)
    BY <2>1, Calculating
  <2>3. list = ActiveKpis
    BY <2>1, <2>2, SettledList
  <2>4. k \in DOMAIN list /\ callers'[c].run[k] = Parsed(k, list[k])
    BY <2>1, <2>2, CalculateEffect DEF Inv
  <2>5. /\ k \in Kpis
        /\ list[k].text = kpis[k].text
        /\ list[k].type = kpis[k].type
    BY <2>1, <2>3, <2>4, ActiveIsList DEF Inv
  <2>6. /\ kpis[k].text \in Texts /\ kpis[k].type \in Types
        /\ formulas[<<k, kpis[k].text>>] \in Types \cup {NoType}
    BY <2>1, <2>5 DEF Inv, KpiTypeOK, Definitions
  <2>7. /\ formulas[<<k, kpis[k].text>>] # NoType
        /\ formulas[<<k, kpis[k].text>>] # kpis[k].type
    BY <2>1, <2>4, <2>5 DEF Parsed
  <2>8. /\ <<k, kpis[k].text, kpis[k].type>> \in had
        /\ <<k, kpis[k].text, formulas[<<k, kpis[k].text>>]>> \in had
    BY <2>1, <2>5, <2>6, <2>7 DEF Inv, AllHeld
  <2>9. QED
    BY <2>6, <2>7, <2>8, TwoTypes
<1>2. QED
  BY <1>1, Invariance, PTL DEF Spec, SettledFormula

=============================================================================
