------------------------------ MODULE KpiEngine ------------------------------
(***************************************************************************)
(* The KPI engine of one Node process: KPI definitions are rows of kpis,    *)
(* which KpiService changes and KpiEngineService reads through two caches,  *)
(* the list of active definitions (dropped by a timer 60 s after it was     *)
(* stored) and the parsed formulas (never dropped).  A recalculation of a   *)
(* plan asks for the definitions once per SKU, per FU and per plan; the     *)
(* recalculations of a process share the caches and interleave at every     *)
(* await.  Nothing calls clearCache.                                        *)
(*                                                                         *)
(* What a formula computes is left out; which formula is computed is not.   *)
(***************************************************************************)
EXTENDS Naturals, FiniteSets

CONSTANTS Kpis,      \* ids of KPI definitions
          Levels,    \* calculation levels: SKU, FU, plan
          LevelOf,   \* KPI -> level; an instance does not change it
          Texts,     \* formula texts
          Types,     \* formula types, which decide how a text is parsed
          NoType,    \* not a type: the text is not parsed yet
          Callers,   \* recalculations in progress
          Ttl,       \* ticks a stored list lives
          MaxQuery,  \* bound on the ticks between sending a query and its answer
          MaxTimers  \* bound on the timers running at once

ASSUME KpiAssumption == /\ LevelOf \in [Kpis -> Levels]
                        /\ IsFiniteSet(Types) /\ NoType \notin Types
                        /\ Ttl \in Nat \ {0}
                        /\ MaxQuery \in Nat /\ MaxTimers \in Nat

VARIABLES kpis,      \* rows of kpis
          had,       \* <<kpi, text, type>> the table ever held (history)
          quiet,     \* ticks since a row changed, as far as they matter
          kpiCache,  \* set of the stored lists: none or one
          timers,    \* remaining ticks -> timers that will drop the entry
          formulas,  \* <<kpi, text>> -> the type the text was parsed for
          callers    \* caller -> where it is

vars == <<kpis, had, quiet, kpiCache, timers, formulas, callers>>

\* listed: isActive, and not soft-deleted.
Definitions == [text : Texts, type : Types, listed : BOOLEAN]

\* A list of active definitions, without the order of calculation.
Lists == UNION {[S -> [text : Texts, type : Types]] : S \in SUBSET Kpis}

NoList == [k \in {} |-> k]

CallerSteps == {"idle", "sent", "answered", "calculated"}

\* left: ticks within which the query comes back.  list and run are what was
\* last received and which formulas were executed, in which type.
CallerStates == [at : CallerSteps, level : Levels, left : 0..MaxQuery,
                 list : Lists, run : UNION {[S -> Types] : S \in SUBSET Kpis}]

\* Long enough for every trace of an older definition to be gone.
Settled == Ttl + MaxQuery + 1

KpiTypeOK == /\ kpis \in [Kpis -> Definitions]
             /\ had \subseteq Kpis \X Texts \X Types
             /\ quiet \in 0..Settled
             /\ kpiCache \subseteq Lists /\ Cardinality(kpiCache) <= 1
             /\ timers \in [0..Ttl -> 0..MaxTimers]
             /\ formulas \in [Kpis \X Texts -> Types \cup {NoType}]
             /\ callers \in [Callers -> CallerStates]

\* Started with an empty cache; the callers' level is set when they begin.
Init == /\ kpis \in [Kpis -> Definitions]
        /\ had = {<<k, kpis[k].text, kpis[k].type>> : k \in Kpis}
        /\ quiet = 0
        /\ kpiCache = {}
        /\ timers = [t \in 0..Ttl |-> 0]
        /\ formulas = [key \in Kpis \X Texts |-> NoType]
        /\ callers \in [Callers -> {[at |-> "idle", level |-> l, left |-> 0,
                                     list |-> NoList, run |-> NoList] :
                                      l \in Levels}]

-----------------------------------------------------------------------------
(* KpiService.                                                             *)

Store(k, d) == /\ kpis[k] # d
               /\ kpis' = [kpis EXCEPT ![k] = d]
               /\ had' = had \cup {<<k, d.text, d.type>>}
               /\ quiet' = 0
               /\ UNCHANGED <<kpiCache, timers, formulas, callers>>

\* create, update and seedDefaults: the request may set every column, so this
\* is any row.  One that is listed again after it was removed is more than the
\* code does: there it is a row with a new id, which no cache has heard of.
Save(k) == \E d \in Definitions : Store(k, d)

Remove(k) == Store(k, [kpis[k] EXCEPT !.listed = FALSE])

-----------------------------------------------------------------------------
(* KpiEngineService.                                                       *)

\* The query: active definitions of the tenant.
ActiveKpis == [k \in {k \in Kpis : kpis[k].listed} |->
                 [text |-> kpis[k].text, type |-> kpis[k].type]]

\* Mutant: the key of the formula cache is the id of the KPI.
ParsedById(k, definition) ==
    LET old == {t \in Texts : formulas[<<k, t>>] # NoType}
    IN IF old = {} THEN definition.type
         ELSE formulas[<<k, CHOOSE t \in old : TRUE>>]

\* getOrParseFormula: the key is the id and the text.
Parsed(k, definition) ==
    IF formulas[<<k, definition.text>>] = NoType
      THEN definition.type
      ELSE formulas[<<k, definition.text>>]

\* calculateSku, calculateFu or calculatePlan with the definitions received,
\* without an await: the formulas of its level are looked up and executed.
Calculate(c, level, list) ==
    LET mine == {k \in DOMAIN list : LevelOf[k] = level}
    IN /\ callers' = [callers EXCEPT
                        ![c] = [at |-> "calculated", level |-> level,
                                left |-> 0, list |-> list,
                                run |-> [k \in mine |-> Parsed(k, list[k])]]]
       /\ formulas' = [key \in Kpis \X Texts |->
                         IF key[1] \in mine /\ list[key[1]].text = key[2]
                           THEN Parsed(key[1], list[key[1]])
                           ELSE formulas[key]]

\* A recalculation gets to its next level: the list is there, or it is asked
\* for.
Idle(c) == callers[c].at \in {"idle", "calculated"}

FindCached(c, level) == /\ Idle(c)
                        /\ \E list \in kpiCache : Calculate(c, level, list)
                        /\ UNCHANGED <<kpis, had, quiet, kpiCache, timers>>

Send(c, level) ==
    /\ Idle(c) /\ kpiCache = {}
    /\ callers' = [callers EXCEPT ![c] = [at |-> "sent", level |-> level,
                                          left |-> MaxQuery, list |-> NoList,
                                          run |-> NoList]]
    /\ UNCHANGED <<kpis, had, quiet, kpiCache, timers, formulas>>

Query(c) == /\ callers[c].at = "sent"
            /\ callers' = [callers EXCEPT ![c].at = "answered",
                                          ![c].list = ActiveKpis]
            /\ UNCHANGED <<kpis, had, quiet, kpiCache, timers, formulas>>

\* Mutant: no timer is started.
ReceiveForGood(c) == /\ callers[c].at = "answered"
                     /\ kpiCache' = {callers[c].list}
                     /\ Calculate(c, callers[c].level, callers[c].list)
                     /\ UNCHANGED <<kpis, had, quiet, timers>>

\* Mutant: every store has a key of its own.
ReceiveBeside(c) == /\ callers[c].at = "answered"
                    /\ kpiCache' = kpiCache \cup {callers[c].list}
                    /\ timers[Ttl] < MaxTimers
                    /\ timers' = [timers EXCEPT ![Ttl] = @ + 1]
                    /\ Calculate(c, callers[c].level, callers[c].list)
                    /\ UNCHANGED <<kpis, had, quiet>>

\* Whoever's answer comes last stores its list, also over a newer one, and
\* every store starts a timer of its own.
Receive(c) ==
    /\ callers[c].at = "answered"
    /\ kpiCache' = {callers[c].list}
    /\ timers[Ttl] < MaxTimers
    /\ timers' = [timers EXCEPT ![Ttl] = @ + 1]
    /\ Calculate(c, callers[c].level, callers[c].list)
    /\ UNCHANGED <<kpis, had, quiet>>

\* The query throws; PlanService goes on without the KPIs of the level.
QueryFails(c) == /\ callers[c].at \in {"sent", "answered"}
                 /\ callers' = [callers EXCEPT ![c].at = "idle",
                                               ![c].left = 0,
                                               ![c].list = NoList]
                 /\ UNCHANGED <<kpis, had, quiet, kpiCache, timers, formulas>>

\* The callback of one setTimeout, whoever stored what it drops.
TimerFires == /\ timers[0] > 0
              /\ timers' = [timers EXCEPT ![0] = @ - 1]
              /\ kpiCache' = {}
              /\ UNCHANGED <<kpis, had, quiet, formulas, callers>>

\* The process starts again.
Restart == /\ kpiCache' = {}
           /\ timers' = [t \in 0..Ttl |-> 0]
           /\ formulas' = [key \in Kpis \X Texts |-> NoType]
           /\ callers' = [c \in Callers |-> [callers[c] EXCEPT
                            !.at = "idle", !.left = 0,
                            !.list = NoList, !.run = NoList]]
           /\ UNCHANGED <<kpis, had, quiet>>

-----------------------------------------------------------------------------
\* Time: a timer that is due fires, and an answer that is due is received,
\* before it goes on.
Tick ==
    /\ timers[0] = 0
    /\ \A c \in Callers : callers[c].at \in {"sent", "answered"}
                            => callers[c].left > 0
    /\ timers' = [t \in 0..Ttl |-> IF t = Ttl THEN 0 ELSE timers[t + 1]]
    /\ quiet' = IF quiet = Settled THEN quiet ELSE quiet + 1
    /\ callers' = [c \in Callers |->
                     IF callers[c].left > 0
                       THEN [callers[c] EXCEPT !.left = @ - 1]
                       ELSE callers[c]]
    /\ UNCHANGED <<kpis, had, kpiCache, formulas>>

Next == \/ \E k \in Kpis : Save(k) \/ Remove(k)
        \/ \E c \in Callers :
             \/ \E l \in Levels : FindCached(c, l) \/ Send(c, l)
             \/ Query(c) \/ Receive(c) \/ QueryFails(c)
        \/ TimerFires \/ Restart \/ Tick

Spec == Init /\ [][Next]_vars

-----------------------------------------------------------------------------
(* Properties.                                                             *)

Calculates(c) == /\ callers'[c].at = "calculated"
                 /\ callers[c] # callers'[c]

\* "Simple cache with 60-second TTL": once a change of a definition is older
\* than the TTL and a query, every level of every recalculation gets the
\* definitions as they are - although late answers overwrite newer lists and
\* the timers of several stores drop one another's entry.
SettledIsCurrent ==
    [][\A c \in Callers :
         (quiet = Settled /\ Calculates(c)) => callers'[c].list = ActiveKpis]_vars

\* Then, too, what is executed is the formula of the definition, except where
\* the table held one text of the KPI under two types: the text is parsed for
\* the type it came with first, and stays so until the process ends.
SettledFormula ==
    [][\A c \in Callers :
         (quiet = Settled /\ Calculates(c))
           => \A k \in DOMAIN callers'[c].run :
                \/ callers'[c].run[k] = kpis[k].type
                \/ Cardinality({t \in Types :
                                  <<k, kpis[k].text, t>> \in had}) > 1]_vars

=============================================================================
