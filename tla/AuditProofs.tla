------------------------------ MODULE AuditProofs ------------------------------
(***************************************************************************)
(* Proofs about Audit, for any finite number of requests and any calls:    *)
(* how far the counts of one report can disagree.                          *)
(***************************************************************************)
EXTENDS Audit, FiniteSetTheorems, TLAPS

(* Types of what the reports are made from, and where a report is.          *)
RowTypes ==
  /\ transactions \subseteq Requests /\ old \subseteq transactions
  /\ outcome \in [Requests -> Outcomes \cup {Unknown}]
  /\ wpc \in [Requests -> {"log", "event", "store", "done"}]
  /\ \A r \in Requests : wpc[r] = "log" => r \notin transactions
  /\ \A r \in transactions : outcome[r] \in Outcomes
  /\ IsFiniteSet(events)

CallFunctions ==
  /\ pc \in [Viewers -> {"idle", "rate", "minute", "count", "page", "total", "select",
                         "answered", "refused"}]
  /\ op \in [Viewers -> {"none", "events", "transactions"} \cup DOMAIN Reports]
  /\ got \in [Viewers -> Seq(Nat)]
  /\ added \in [Viewers -> Nat] /\ aged \in [Viewers -> Nat]

CallStage(v) ==
  /\ pc[v] \in {"idle", "rate", "minute"} => got[v] = <<>>
  /\ pc[v] \in {"rate", "minute", "count"} => op[v] \in DOMAIN Reports
  /\ pc[v] = "count" => Len(got[v]) < Len(Reports[op[v]])
  /\ pc[v] = "page" => op[v] = "transactions"
  /\ pc[v] \in {"total", "select"} => op[v] = "events"

CallTypes == CallFunctions /\ \A v \in Viewers : CallStage(v)

Types == RowTypes /\ CallTypes

(* How many statements each report has, and which.                          *)
LEMMA EachReport ==
  /\ DOMAIN Reports = {"statistics", "requests", "protected", "blocked", "success", "summary",
                       "live", "latency", "providers", "activity"}
  /\ /\ Len(Reports["statistics"]) = 4
     /\ Reports["statistics"][1] = <<"ever", "all">>
     /\ Reports["statistics"][2] = <<"ever", "success">>
     /\ Reports["statistics"][3] = <<"ever", "blocked">>
     /\ Reports["statistics"][4] = <<"ever", "redacted">>
  /\ /\ Len(Reports["success"]) = 3
     /\ Reports["success"][1] = <<"recent", "all">>
     /\ Reports["success"][2] = <<"recent", "success">>
  /\ /\ Len(Reports["summary"]) = 3
     /\ Reports["summary"][1] = <<"recent", "redacted">>
     /\ Reports["summary"][2] = <<"recent", "blocked">>
     /\ Reports["summary"][3] = <<"recent", "all">>
  /\ /\ Len(Reports["live"]) = 2
     /\ Reports["live"][1] = <<"recent", "failure">>
     /\ Reports["live"][2] = <<"recent", "all">>
  /\ \A o \in Cards :
       /\ o \in DOMAIN Reports /\ Len(Reports[o]) = 2
       /\ \E k \in {"all", "redacted", "blocked"} :
            Reports[o][1] = <<"recent", k>> /\ Reports[o][2] = <<"earlier", k>>
<1> USE DEF Reports, GetStatistics, handleStatTotalRequests, handleStatPIIProtected,
            handleStatBlockedRequests, handleSuccessRate, handleProtectionSummary,
            handleLiveStats, handleStatAvgLatency, handleTopProviders, handleRecentActivity
<1>1. DOMAIN Reports = {"statistics", "requests", "protected", "blocked", "success", "summary",
                        "live", "latency", "providers", "activity"}
  OBVIOUS
<1>2. \A o \in Cards :
        /\ o \in DOMAIN Reports /\ Len(Reports[o]) = 2
        /\ \E k \in {"all", "redacted", "blocked"} :
             Reports[o][1] = <<"recent", k>> /\ Reports[o][2] = <<"earlier", k>>
  BY DEF Cards
<1> QED
  BY <1>1, <1>2

(* Every report has a statement to begin with.                              *)
LEMMA ReportCounts ==
  ASSUME NEW o \in DOMAIN Reports
  PROVE  Len(Reports[o]) \in Nat /\ 0 < Len(Reports[o])
<1> USE DEF Reports, GetStatistics, handleStatTotalRequests, handleStatPIIProtected,
            handleStatBlockedRequests, handleSuccessRate, handleProtectionSummary,
            handleLiveStats, handleStatAvgLatency, handleTopProviders, handleRecentActivity
<1>1. CASE o = "statistics"
  BY <1>1
<1>2. CASE o \in {"requests", "protected", "blocked", "latency"}
  BY <1>2
<1>3. CASE o \in {"success", "summary", "live"}
  BY <1>3
<1>4. CASE o \in {"providers", "activity"}
  <2>1. Reports[o] = << <<"recent", "all">> >>
    BY <1>4
  <2> HIDE DEF Reports
  <2> QED
    BY <2>1
<1> HIDE DEF Reports
<1>5. o \in {"statistics", "requests", "protected", "blocked", "success", "summary", "live",
            "latency", "providers", "activity"}
  BY EachReport
<1> QED
  BY <1>1, <1>2, <1>3, <1>4, <1>5, Zenon

(* A set of requests has a number of members.                               *)
LEMMA Finite ==
  ASSUME NEW S \in SUBSET Requests
  PROVE  IsFiniteSet(S) /\ Cardinality(S) \in Nat
<1>1. IsFiniteSet(S)
  BY AuditAssumption, FS_Subset
<1> QED
  BY <1>1, FS_CardinalityType

(* A part has no more members than the whole.                               *)
LEMMA Fewer ==
  ASSUME NEW T \in SUBSET Requests, NEW S \in SUBSET T
  PROVE  Cardinality(S) <= Cardinality(T) /\ Cardinality(S) \in Nat /\ Cardinality(T) \in Nat
BY Finite, FS_Subset

(* A part of a set with one more member has at most one more.               *)
LEMMA FewerOrOne ==
  ASSUME NEW T \in SUBSET Requests, NEW r \in Requests, NEW S \in SUBSET (T \cup {r})
  PROVE  Cardinality(S) <= Cardinality(T) + 1
<1>1. Cardinality(S) <= Cardinality(T \cup {r})
  BY Fewer
<1>2. Cardinality(T \cup {r}) <= Cardinality(T) + 1
  BY Finite, FS_AddElement
<1> QED
  BY <1>1, <1>2, Finite

(* Two sets counted apart: what they share is counted twice.                *)
LEMMA Both ==
  ASSUME NEW S \in SUBSET Requests, NEW T \in SUBSET Requests
  PROVE  Cardinality(S) + Cardinality(T) = Cardinality(S \cup T) + Cardinality(S \cap T)
<1>1. S \cup T \in SUBSET Requests /\ S \cap T \in SUBSET Requests
  OBVIOUS
<1>2. /\ Cardinality(S) \in Nat /\ Cardinality(T) \in Nat
      /\ Cardinality(S \cup T) \in Nat /\ Cardinality(S \cap T) \in Nat
  BY <1>1, Finite
<1>3. Cardinality(S \cup T) = Cardinality(S) + Cardinality(T) - Cardinality(S \cap T)
  BY Finite, FS_Union
<1> QED
  BY <1>2, <1>3
-------------------------------------------------------------------------------
(* The empty tables are well typed.                                         *)
LEMMA TypesInit == Init => Types
<1> SUFFICES ASSUME Init PROVE Types
  OBVIOUS
<1> USE DEF Init
<1>1. RowTypes
  BY FS_EmptySet DEF RowTypes
<1>2. CallTypes
  BY DEF CallTypes, CallFunctions, CallStage
<1> QED
  BY <1>1, <1>2 DEF Types

(* A COUNT gives a number.                                                  *)
LEMMA CountsAreNumbers ==
  ASSUME RowTypes, NEW v \in Viewers
  PROVE  /\ OwnRows(v) \in SUBSET transactions
         /\ \A q : CountOf(v, q) \in Nat
         /\ Cardinality(OwnEvents(v)) \in Nat
<1>1. OwnRows(v) \in SUBSET transactions
  BY DEF OwnRows
<1>2. ASSUME NEW q PROVE CountOf(v, q) \in Nat
  <2>1. OwnRows(v) \cap Window(q[1]) \cap Kind(q[2]) \in SUBSET Requests
    BY <1>1 DEF RowTypes
  <2> QED
    BY <2>1, Finite DEF CountOf
<1>3. Cardinality(OwnEvents(v)) \in Nat
  BY FS_Subset, FS_CardinalityType DEF OwnEvents, RowTypes
<1> QED
  BY <1>1, <1>2, <1>3

(* Every step keeps the types of the rows.                                  *)
LEMMA RowTypesNext == Types /\ [Next]_vars => RowTypes'
<1> SUFFICES ASSUME RowTypes, [Next]_vars
             PROVE  RowTypes'
  BY DEF Types
<1>1. ASSUME NEW r \in Requests, LogTransaction(r) PROVE RowTypes'
  <2>1. /\ transactions' \in {transactions, transactions \cup {r}}
        /\ wpc[r] = "log" /\ \E to \in {"event", "done"} : wpc' = [wpc EXCEPT ![r] = to]
        /\ old' = old /\ events' = events
    BY <1>1 DEF LogTransaction, Goto
  <2>2. \E o \in Outcomes : outcome' = [outcome EXCEPT ![r] = o]
    BY <1>1 DEF LogTransaction
  <2> QED
    BY <2>1, <2>2 DEF RowTypes
<1>2. ASSUME NEW r \in Requests, LogEvent(r) PROVE RowTypes'
  BY <1>2 DEF LogEvent, Goto, RowTypes
<1>3. ASSUME NEW r \in Requests, StoreEvent(r) PROVE RowTypes'
  <2>1. IsFiniteSet(events')
    <3>1. \E e : events' \in {events, events \cup {e}}
      BY <1>3 DEF StoreEvent
    <3> QED
      BY <3>1, FS_AddElement DEF RowTypes
  <2> QED
    BY <1>3, <2>1 DEF StoreEvent, Goto, RowTypes
<1>4. ASSUME NEW r \in Requests, GrowOld(r) PROVE RowTypes'
  BY <1>4 DEF GrowOld, RowTypes, writer
<1>5. ASSUME UNCHANGED <<rows, writer>> PROVE RowTypes'
  BY <1>5 DEF rows, writer, RowTypes
<1>6. ASSUME NEW v \in Viewers, AskReport(v) \/ CheckRate(v) \/ UpdateRate(v) \/ CountRows(v)
             \/ CountFails(v) \/ AskTransactions(v) \/ GetTransactions(v)
      PROVE  UNCHANGED <<rows, writer>>
  BY <1>6 DEF AskReport, CheckRate, UpdateRate, CountRows, CountFails, Answer, AskTransactions,
              GetTransactions
<1>7. ASSUME NEW v \in Viewers, AskEvents(v) \/ CountEvents(v) \/ SelectEvents(v) \/ SelectFails(v)
      PROVE  UNCHANGED <<rows, writer>>
  BY <1>7 DEF AskEvents, CountEvents, SelectEvents, SelectFails
<1>8. CASE UNCHANGED vars \/ MinutePasses
  BY <1>5, <1>8 DEF vars, MinutePasses
<1> QED
  BY <1>1, <1>2, <1>3, <1>4, <1>5, <1>6, <1>7, <1>8, Zenon DEF Next

(* Adding one to some counters leaves numbers.                              *)
LEMMA OneMore ==
  ASSUME NEW f \in [Viewers -> Nat], NEW P \in SUBSET Viewers
  PROVE  [v \in Viewers |-> IF v \in P THEN f[v] + 1 ELSE f[v]] \in [Viewers -> Nat]
OBVIOUS

(* What came, and what left its window, since a call began is a number.     *)
LEMMA AddedIsNumbers ==
  ASSUME CallFunctions, NEW r \in Requests, LogTransaction(r) \/ GrowOld(r)
  PROVE  added' \in [Viewers -> Nat] /\ aged' \in [Viewers -> Nat]
<1> USE DEF CallFunctions
<1>1. CASE LogTransaction(r)
  <2> DEFINE P == {v \in Viewers : Concerns(v, outcome'[r]) /\ Reading(v)}
  <2>1. aged' = aged
    BY <1>1 DEF LogTransaction
  <2>2. [v \in Viewers |-> IF v \in P THEN added[v] + 1 ELSE added[v]] \in [Viewers -> Nat]
    BY OneMore
  <2>3. \/ added' = added
        \/ added' = [v \in Viewers |->
             IF Concerns(v, outcome'[r]) /\ Reading(v) THEN added[v] + 1 ELSE added[v]]
    BY <1>1 DEF LogTransaction
  <2> QED
    BY <2>1, <2>2, <2>3
<1>2. CASE GrowOld(r)
  BY <1>2 DEF GrowOld
<1> QED
  BY <1>1, <1>2

(* A step of one call leaves the others where they are.                     *)
LEMMA StagesKept ==
  ASSUME CallTypes, CallFunctions', NEW v \in Viewers,
         \A w \in Viewers \ {v} : pc'[w] = pc[w] /\ op'[w] = op[w] /\ got'[w] = got[w],
         CallStage(v)'
  PROVE  CallTypes'
BY DEF CallTypes, CallStage

(* Every step keeps the types of the calls.                                 *)
LEMMA CallTypesNext == Types /\ [Next]_vars => CallTypes'
<1> SUFFICES ASSUME RowTypes, CallTypes, [Next]_vars
             PROVE  CallTypes'
  BY DEF Types
<1>0. CallFunctions /\ \A v \in Viewers : CallStage(v)
  BY DEF CallTypes
<1>1. ASSUME NEW r \in Requests, LogTransaction(r) \/ GrowOld(r) PROVE CallTypes'
  <2>1. UNCHANGED reader
    BY <1>1 DEF LogTransaction, GrowOld
  <2>2. added' \in [Viewers -> Nat] /\ aged' \in [Viewers -> Nat]
    BY <1>0, <1>1, AddedIsNumbers
  <2> QED
    BY <2>1, <2>2 DEF CallTypes, CallFunctions, CallStage, reader
<1>2. ASSUME NEW r \in Requests, LogEvent(r) \/ StoreEvent(r) PROVE CallTypes'
  BY <1>2 DEF LogEvent, StoreEvent, CallTypes, CallFunctions, CallStage, reader, history
<1>3. CASE UNCHANGED vars \/ MinutePasses
  BY <1>3 DEF vars, MinutePasses, CallTypes, CallFunctions, CallStage, reader, history
<1>4. ASSUME NEW v \in Viewers, AskReport(v) PROVE CallTypes'
  <2>1. PICK o \in DOMAIN Reports :
          /\ op' = [op EXCEPT ![v] = o]
          /\ pc[v] = "idle" /\ pc' = [pc EXCEPT ![v] = IF o = "live" THEN "rate" ELSE "count"]
    BY <1>4 DEF AskReport, Step
  <2>2. UNCHANGED <<got, added, aged>> /\ got[v] = <<>>
    BY <1>0, <1>4, <2>1 DEF AskReport, CallStage, history
  <2>3. CallFunctions'
    BY <1>0, <2>1, <2>2 DEF CallFunctions
  <2>4. CallStage(v)'
    <3>1. pc'[v] \in {"rate", "count"} /\ op'[v] = o /\ got'[v] = <<>>
      BY <1>0, <2>1, <2>2 DEF CallFunctions
    <3>2. 0 < Len(Reports[o])
      BY ReportCounts
    <3>3. Len(got'[v]) < Len(Reports[op'[v]])
      BY <3>1, <3>2
    <3>4. op'[v] \in DOMAIN Reports
      BY <3>1
    <3> QED
      BY <3>1, <3>3, <3>4, Zenon DEF CallStage
  <2> QED
    BY <1>0, <2>1, <2>2, <2>3, <2>4, StagesKept DEF CallFunctions
<1>5. ASSUME NEW v \in Viewers, CheckRate(v) \/ UpdateRate(v) PROVE CallTypes'
  <2>1. /\ pc[v] \in {"rate", "minute"} /\ \E to \in {"minute", "count"} : pc' = [pc EXCEPT ![v] = to]
        /\ UNCHANGED <<op, got, added, aged>>
    BY <1>5 DEF CheckRate, UpdateRate, Step, history
  <2>2. CallFunctions'
    BY <1>0, <2>1 DEF CallFunctions
  <2>3. CallStage(v)'
    <3>1. op[v] \in DOMAIN Reports /\ got[v] = <<>>
      BY <1>0, <2>1 DEF CallStage
    <3>2. 0 < Len(Reports[op[v]])
      BY <3>1, ReportCounts
    <3>3. pc'[v] \in {"minute", "count"} /\ op'[v] = op[v] /\ got'[v] = <<>>
      BY <1>0, <2>1, <3>1 DEF CallFunctions
    <3>4. Len(got'[v]) < Len(Reports[op'[v]])
      BY <3>2, <3>3
    <3>5. op'[v] \in DOMAIN Reports
      BY <3>1, <3>3
    <3> QED
      BY <3>3, <3>4, <3>5, Zenon DEF CallStage
  <2> QED
    BY <1>0, <2>1, <2>2, <2>3, StagesKept DEF CallFunctions
<1>6. ASSUME NEW v \in Viewers, NEW n \in Nat, Answer(v, n) PROVE CallTypes'
  <2>1. /\ pc[v] = "count" /\ UNCHANGED <<op, added, aged>>
        /\ got' = [got EXCEPT ![v] = Append(got[v], n)]
        /\ pc' = [pc EXCEPT ![v] = IF Len(got'[v]) = Len(Reports[op[v]]) THEN "answered" ELSE "count"]
    BY <1>6 DEF Answer, Step
  <2>2. got'[v] \in Seq(Nat) /\ Len(got'[v]) = Len(got[v]) + 1 /\ Len(got[v]) \in Nat
    BY <1>0, <2>1 DEF CallFunctions
  <2>3. op[v] \in DOMAIN Reports /\ Len(got[v]) < Len(Reports[op[v]])
    BY <1>0, <2>1 DEF CallStage
  <2>4. Len(Reports[op[v]]) \in Nat
    BY <2>3, ReportCounts
  <2>5. CallFunctions'
    BY <1>0, <2>1, <2>2 DEF CallFunctions
  <2>6. CallStage(v)'
    BY <1>0, <2>1, <2>2, <2>3, <2>4 DEF CallStage, CallFunctions
  <2> QED
    BY <1>0, <2>1, <2>5, <2>6, StagesKept DEF CallFunctions
<1>7. ASSUME NEW v \in Viewers, NEW to \in {"page", "total", "select", "answered", "refused"},
             pc' = [pc EXCEPT ![v] = to], UNCHANGED <<added, aged>>,
             op' \in {op, [op EXCEPT ![v] = "events"], [op EXCEPT ![v] = "transactions"]},
             to = "page" => op'[v] = "transactions", to \in {"total", "select"} => op'[v] = "events",
             got' = got \/ \E n \in Nat : got' = [got EXCEPT ![v] = <<n>>]
      PROVE  CallTypes'
  <2>1. CallFunctions'
    <3>1. got' \in [Viewers -> Seq(Nat)]
      <4>1. \A n \in Nat : <<n>> \in Seq(Nat)
        OBVIOUS
      <4> QED
        BY <1>0, <1>7, <4>1 DEF CallFunctions
    <3>2. op' \in [Viewers -> {"none", "events", "transactions"} \cup DOMAIN Reports]
      BY <1>0, <1>7 DEF CallFunctions
    <3>3. pc' \in [Viewers -> {"idle", "rate", "minute", "count", "page", "total", "select",
                                "answered", "refused"}]
      BY <1>0, <1>7 DEF CallFunctions
    <3> QED
      BY <1>0, <1>7, <3>1, <3>2, <3>3 DEF CallFunctions
  <2>2. CallStage(v)'
    BY <1>0, <1>7 DEF CallStage, CallFunctions
  <2> QED
    BY <1>0, <1>7, <2>1, <2>2, StagesKept DEF CallFunctions
<1>8. ASSUME NEW v \in Viewers, CountRows(v) \/ CountFails(v) PROVE CallTypes'
  <2>1. CASE \E n \in Nat : Answer(v, n)
    BY <1>6, <2>1
  <2>2. CASE Step(v, "count", "refused") /\ UNCHANGED <<op, got, added, aged>>
    BY <1>7, <2>2 DEF Step
  <2>3. CASE CountRows(v)
    <3>1. CountOf(v, Reports[op[v]][Len(got[v]) + 1]) \in Nat
      BY CountsAreNumbers
    <3> QED
      BY <2>1, <2>3, <3>1 DEF CountRows
  <2>4. CASE CountFails(v)
    BY <2>1, <2>2, <2>4 DEF CountFails, history
  <2> QED
    BY <1>8, <2>3, <2>4
<1>9. ASSUME NEW v \in Viewers, AskTransactions(v) \/ AskEvents(v) PROVE CallTypes'
  <2>1. CASE AskTransactions(v)
    BY <1>0, <1>7, <2>1 DEF AskTransactions, Step, history, CallFunctions
  <2>2. CASE AskEvents(v)
    BY <1>0, <1>7, <2>2 DEF AskEvents, Step, history, CallFunctions
  <2> QED
    BY <1>9, <2>1, <2>2
<1>10. ASSUME NEW v \in Viewers, GetTransactions(v) PROVE CallTypes'
  <2>1. Cardinality(OwnRows(v)) \in Nat /\ Limit \in Nat
    BY CountsAreNumbers, Finite, AuditAssumption DEF RowTypes
  <2>2. /\ \E to \in {"answered", "refused"} : pc' = [pc EXCEPT ![v] = to]
        /\ UNCHANGED <<op, added, aged>>
    BY <1>10 DEF GetTransactions, Step, history
  <2>3. got' = got \/ \E n \in Nat : got' = [got EXCEPT ![v] = <<n>>]
    BY <1>10, <2>1 DEF GetTransactions
  <2> QED
    BY <1>7, <2>2, <2>3
<1>11. ASSUME NEW v \in Viewers, CountEvents(v) PROVE CallTypes'
  <2>1. pc' = [pc EXCEPT ![v] = "select"] /\ UNCHANGED <<op, added, aged>> /\ op[v] = "events"
    BY <1>0, <1>11 DEF CountEvents, Step, CallStage
  <2>2. \E n \in Nat : got' = [got EXCEPT ![v] = <<n>>]
    BY <1>11, CountsAreNumbers DEF CountEvents
  <2> QED
    BY <1>7, <2>1, <2>2
<1>12. ASSUME NEW v \in Viewers, SelectEvents(v) \/ SelectFails(v) PROVE CallTypes'
  <2>1. /\ \E to \in {"total", "answered", "refused"} : pc' = [pc EXCEPT ![v] = to]
        /\ UNCHANGED <<op, got, added, aged>> /\ op[v] = "events"
    BY <1>0, <1>12 DEF SelectEvents, SelectFails, Step, history, CallStage
  <2> QED
    BY <1>7, <2>1
<1> QED
  BY <1>1, <1>2, <1>3, <1>4, <1>5, <1>8, <1>9, <1>10, <1>11, <1>12, Zenon DEF Next

(* Every step keeps the types.                                              *)
LEMMA TypesNext == Types /\ [Next]_vars => Types'
BY RowTypesNext, CallTypesNext DEF Types
-------------------------------------------------------------------------------
(* The sets behind the numbers of a call                                   *)

Rows(v, w, k) == OwnRows(v) \cap Window(w) \cap Kind(k)

Errors(v)  == {r \in OwnRows(v) : outcome[r].status = "error"}
Doubles(v) == {r \in OwnRows(v) : outcome[r].status = "blocked" /\ outcome[r].redacted}
Touched(v) == Rows(v, "recent", "redacted") \cup Rows(v, "recent", "blocked")

Number(v, w, k) == Cardinality(Rows(v, w, k))

Kinds == {"all", "success", "blocked", "failure", "redacted"}

(* Rows are known by their requests, and what a report counts is among the  *)
(* rows of its organization.                                                *)
LEMMA RowsAreRequests ==
  ASSUME RowTypes, NEW v \in Viewers
  PROVE  /\ OwnRows(v) \in SUBSET Requests
         /\ Errors(v) \in SUBSET OwnRows(v) /\ Doubles(v) \in SUBSET OwnRows(v)
         /\ Touched(v) \in SUBSET OwnRows(v)
         /\ \A w, k : Rows(v, w, k) \in SUBSET OwnRows(v)
BY DEF RowTypes, OwnRows, Errors, Doubles, Touched, Rows

(* Each count of a report is a number.                                      *)
LEMMA Numbers ==
  ASSUME RowTypes, NEW v \in Viewers
  PROVE  /\ Cardinality(OwnRows(v)) \in Nat /\ Cardinality(Errors(v)) \in Nat
         /\ Cardinality(Doubles(v)) \in Nat /\ Cardinality(Touched(v)) \in Nat
         /\ \A w, k : Number(v, w, k) \in Nat
<1>1. \A S \in SUBSET OwnRows(v) : Cardinality(S) \in Nat
  BY RowsAreRequests, Finite
<1> QED
  BY <1>1, RowsAreRequests DEF Number

(* What the numbers of one moment have to do with each other.               *)
LEMMA OneMoment ==
  ASSUME RowTypes, NEW v \in Viewers
  PROVE  /\ Number(v, "ever", "all") = Cardinality(OwnRows(v))
         /\ Number(v, "ever", "success") + Number(v, "ever", "blocked") <= Cardinality(OwnRows(v))
         /\ Cardinality(OwnRows(v)) <= Number(v, "ever", "success") + Number(v, "ever", "blocked")
                                       + Cardinality(Errors(v))
         /\ Number(v, "ever", "redacted") <= Cardinality(OwnRows(v))
         /\ Number(v, "recent", "success") <= Number(v, "recent", "all")
         /\ Number(v, "recent", "failure") <= Number(v, "recent", "all")
         /\ Number(v, "recent", "redacted") <= Cardinality(Touched(v))
         /\ Number(v, "recent", "blocked") <= Cardinality(Touched(v))
         /\ Cardinality(Touched(v)) <= Number(v, "recent", "all")
         /\ Number(v, "recent", "redacted") + Number(v, "recent", "blocked")
              <= Cardinality(Touched(v)) + Cardinality(Doubles(v))
         /\ \A k \in Kinds : Number(v, "recent", k) + Number(v, "earlier", k)
                               <= Cardinality(OwnRows(v))
<1> DEFINE A == OwnRows(v)
           S == Rows(v, "ever", "success")
           B == Rows(v, "ever", "blocked")
<1>0. A \in SUBSET Requests /\ S \in SUBSET A /\ B \in SUBSET A /\ Errors(v) \in SUBSET A
  BY RowsAreRequests
<1>1. Number(v, "ever", "all") = Cardinality(A)
  <2>1. Rows(v, "ever", "all") = A
    BY <1>0 DEF Rows, Window, Kind
  <2> QED
    BY <2>1 DEF Number
<1>2. S \cap B = {} /\ S \cup B \in SUBSET A
  BY <1>0 DEF Rows, Kind
<1>3. Cardinality(S) + Cardinality(B) = Cardinality(S \cup B)
  <2>1. Cardinality(S) + Cardinality(B) = Cardinality(S \cup B) + Cardinality(S \cap B)
    BY <1>0, Both
  <2>2. Cardinality(S \cap B) = 0
    BY <1>2, FS_EmptySet
  <2>3. Cardinality(S \cup B) \in Nat
    BY <1>0, <1>2, Fewer
  <2> QED
    BY <2>1, <2>2, <2>3
<1>4. Cardinality(S \cup B) <= Cardinality(A)
  BY <1>0, <1>2, Fewer
<1>5. Cardinality(A) <= Cardinality(S \cup B) + Cardinality(Errors(v))
  <2>1. A = (S \cup B) \cup Errors(v)
    <3>1. \A r \in A : outcome[r] \in Outcomes /\ r \in Requests
      BY <1>0 DEF RowTypes, OwnRows
    <3>2. \A r \in A : outcome[r].status \in {"success", "blocked", "error"}
      BY <3>1 DEF Outcomes
    <3>3. \A r \in A : r \in S \/ r \in B \/ r \in Errors(v)
      BY <3>1, <3>2 DEF Rows, Window, Kind, Errors
    <3> QED
      BY <1>0, <1>2, <3>3
  <2>2. S \cup B \in SUBSET Requests /\ Errors(v) \in SUBSET Requests
        /\ (S \cup B) \cap Errors(v) \in SUBSET Requests
    BY <1>0, <1>2
  <2>3. Cardinality(S \cup B) + Cardinality(Errors(v))
          = Cardinality((S \cup B) \cup Errors(v)) + Cardinality((S \cup B) \cap Errors(v))
    BY <2>2, Both
  <2>4. Cardinality((S \cup B) \cap Errors(v)) \in Nat /\ Cardinality(A) \in Nat
    BY <1>0, <2>2, Finite
  <2> HIDE DEF A, S, B
  <2> QED
    BY <2>1, <2>3, <2>4
<1>6. \A w \in {"recent"} : \A k \in Kinds : Number(v, w, k) <= Number(v, w, "all")
  <2>1. ASSUME NEW k \in Kinds PROVE Number(v, "recent", k) <= Number(v, "recent", "all")
    <3>1. Rows(v, "recent", k) \in SUBSET Rows(v, "recent", "all")
      BY DEF Rows, Kind
    <3>2. Rows(v, "recent", "all") \in SUBSET Requests
      BY <1>0, RowsAreRequests
    <3> QED
      BY <3>1, <3>2, Fewer DEF Number
  <2> QED
    BY <2>1
<1>7. Number(v, "ever", "redacted") <= Cardinality(A)
  BY <1>0, RowsAreRequests, Fewer DEF Number
<1> DEFINE P == Rows(v, "recent", "redacted")
           Q == Rows(v, "recent", "blocked")
<1>8. P \in SUBSET Touched(v) /\ Q \in SUBSET Touched(v) /\ Touched(v) \in SUBSET Requests
      /\ Doubles(v) \in SUBSET Requests
  BY <1>0, RowsAreRequests DEF Touched
<1>9. Cardinality(P) <= Cardinality(Touched(v)) /\ Cardinality(Q) <= Cardinality(Touched(v))
  BY <1>8, Fewer
<1>10. Cardinality(Touched(v)) <= Number(v, "recent", "all")
  <2>1. Touched(v) \in SUBSET Rows(v, "recent", "all")
    BY DEF Touched, Rows, Kind
  <2>2. Rows(v, "recent", "all") \in SUBSET Requests
    BY <1>0, RowsAreRequests
  <2> QED
    BY <2>1, <2>2, Fewer DEF Number
<1>11. Cardinality(P) + Cardinality(Q) <= Cardinality(Touched(v)) + Cardinality(Doubles(v))
  <2>1. P \cap Q \in SUBSET Doubles(v)
    BY DEF Rows, Kind, Doubles
  <2>2. Cardinality(P \cap Q) <= Cardinality(Doubles(v)) /\ Cardinality(P \cap Q) \in Nat
        /\ Cardinality(Doubles(v)) \in Nat /\ Cardinality(Touched(v)) \in Nat
    BY <1>8, <2>1, Fewer
  <2>3. P \in SUBSET Requests /\ Q \in SUBSET Requests
    BY <1>8
  <2>4. Cardinality(P) + Cardinality(Q) = Cardinality(P \cup Q) + Cardinality(P \cap Q)
    BY <2>3, Both
  <2>5. Touched(v) = P \cup Q
    BY DEF Touched
  <2> HIDE DEF P, Q
  <2> QED
    BY <2>2, <2>4, <2>5
<1>12. ASSUME NEW k \in Kinds
       PROVE  Number(v, "recent", k) + Number(v, "earlier", k) <= Cardinality(A)
  <2> DEFINE M == Rows(v, "recent", k)
             N == Rows(v, "earlier", k)
  <2>1. M \in SUBSET A /\ N \in SUBSET A /\ M \cap N = {} /\ M \cup N \in SUBSET A
    BY DEF Rows, Window
  <2>2. Cardinality(M \cup N) <= Cardinality(A) /\ Cardinality(M \cup N) \in Nat
    BY <1>0, <2>1, Fewer
  <2>3. M \in SUBSET Requests /\ N \in SUBSET Requests
    BY <1>0, <2>1
  <2>4. Cardinality(M) + Cardinality(N) = Cardinality(M \cup N) + Cardinality(M \cap N)
    BY <2>3, Both
  <2>5. Cardinality(M \cap N) = 0
    BY <2>1, FS_EmptySet
  <2> HIDE DEF M, N
  <2> QED
    BY <2>2, <2>4, <2>5 DEF M, N, Number
<1> QED
  BY <1>1, <1>3, <1>4, <1>5, <1>6, <1>7, <1>9, <1>10, <1>11, <1>12 DEF Number, Kinds
-------------------------------------------------------------------------------
(* What a write of the proxy, or the clock, does to the rows of a call      *)

SameRows(v) ==
  /\ OwnRows(v)' = OwnRows(v) /\ \A x \in OwnRows(v) : outcome'[x] = outcome[x]
  /\ old' \cap OwnRows(v) = old \cap OwnRows(v)
  /\ added'[v] = added[v] /\ aged'[v] = aged[v]

RowComes(v, r) ==
  /\ r \in Requests \ OwnRows(v) /\ OwnRows(v)' = OwnRows(v) \cup {r}
  /\ \A x \in OwnRows(v) : outcome'[x] = outcome[x]
  /\ old' \cap OwnRows(v) = old \cap OwnRows(v) /\ r \notin old'
  /\ added'[v] = (IF Reading(v) THEN added[v] + 1 ELSE added[v]) /\ aged'[v] = aged[v]

RowAges(v, r) ==
  /\ r \in OwnRows(v) /\ OwnRows(v)' = OwnRows(v)
  /\ \A x \in OwnRows(v) : outcome'[x] = outcome[x]
  /\ old' = old \cup {r}
  /\ aged'[v] = (IF Reading(v) THEN aged[v] + 1 ELSE aged[v]) /\ added'[v] = added[v]

Moves(v) == SameRows(v) \/ \E r \in Requests : RowComes(v, r) \/ RowAges(v, r)

(* A row that comes or grows old moves every count by no more than the call *)
(* is told of.                                                              *)
LEMMA RowsMove ==
  ASSUME Types, NEW v \in Viewers, NEW r \in Requests, LogTransaction(r) \/ GrowOld(r)
  PROVE  Moves(v)
<1>0. RowTypes /\ CallFunctions
  BY DEF Types, CallTypes
<1>1. CASE GrowOld(r)
  <2>1. /\ old' = old \cup {r} /\ r \in transactions \ old /\ r \in Requests
        /\ UNCHANGED <<transactions, outcome, added>>
    BY <1>0, <1>1 DEF GrowOld, writer, RowTypes
  <2>2. OwnRows(v)' = OwnRows(v)
    BY <2>1 DEF OwnRows, Concerns
  <2>3. aged'[v] = IF Concerns(v, outcome[r]) /\ Reading(v) THEN aged[v] + 1 ELSE aged[v]
    BY <1>1 DEF GrowOld
  <2>4. CASE r \in OwnRows(v)
    <3>1. Concerns(v, outcome[r])
      BY <2>4 DEF OwnRows
    <3> QED
      BY <2>1, <2>2, <2>3, <2>4, <3>1 DEF Moves, RowAges
  <2>5. CASE r \notin OwnRows(v)
    <3>1. ~Concerns(v, outcome[r])
      BY <2>1, <2>5 DEF OwnRows
    <3> QED
      BY <2>1, <2>2, <2>3, <2>5, <3>1 DEF Moves, SameRows
  <2> QED
    BY <2>4, <2>5
<1>2. CASE LogTransaction(r)
  <2>1. r \notin transactions /\ r \notin old /\ OwnRows(v) \subseteq transactions
    BY <1>0, <1>2 DEF RowTypes, LogTransaction, Goto, OwnRows
  <2>2. /\ old' = old /\ aged' = aged
        /\ \E o \in Outcomes : outcome' = [outcome EXCEPT ![r] = o]
    BY <1>2 DEF LogTransaction
  <2>3. \A x \in transactions : outcome'[x] = outcome[x]
    BY <1>0, <2>1, <2>2 DEF RowTypes
  <2>4. CASE UNCHANGED <<transactions, added>>
    <3>1. OwnRows(v)' = OwnRows(v)
      BY <2>3, <2>4 DEF OwnRows
    <3> QED
      BY <2>1, <2>2, <2>3, <2>4, <3>1 DEF Moves, SameRows
  <2>5. CASE /\ transactions' = transactions \cup {r}
             /\ added' = [w \in Viewers |->
                  IF Concerns(w, outcome'[r]) /\ Reading(w) THEN added[w] + 1 ELSE added[w]]
    <3>1. CASE Concerns(v, outcome'[r])
      <4>1. OwnRows(v)' = OwnRows(v) \cup {r} /\ r \in Requests \ OwnRows(v)
        BY <2>1, <2>3, <2>5, <3>1 DEF OwnRows, Concerns
      <4>2. added'[v] = IF Reading(v) THEN added[v] + 1 ELSE added[v]
        BY <2>5, <3>1
      <4> QED
        BY <2>1, <2>2, <2>3, <4>1, <4>2 DEF Moves, RowComes
    <3>2. CASE ~Concerns(v, outcome'[r])
      <4>1. OwnRows(v)' = OwnRows(v)
        BY <2>1, <2>3, <2>5, <3>2 DEF OwnRows, Concerns
      <4>2. added'[v] = added[v]
        BY <2>5, <3>2
      <4> QED
        BY <2>1, <2>2, <2>3, <4>1, <4>2 DEF Moves, SameRows
    <3> QED
      BY <3>1, <3>2
  <2> QED
    BY <1>2, <2>4, <2>5, Zenon DEF LogTransaction
<1> QED
  BY <1>1, <1>2

(* Numbers only grow by what comes, and only shrink by what grows old.      *)
LEMMA NumbersMove ==
  ASSUME RowTypes, RowTypes', CallFunctions, NEW v \in Viewers, Moves(v)
  PROVE  /\ added'[v] >= added[v] /\ aged'[v] >= aged[v]
         /\ ~Reading(v) => added'[v] = added[v] /\ aged'[v] = aged[v]
         /\ Cardinality(OwnRows(v)) <= Cardinality(OwnRows(v))'
         /\ \A k \in Kinds : Number(v, "ever", k) <= Number(v, "ever", k)'
         /\ Cardinality(Errors(v)) <= Cardinality(Errors(v))'
         /\ Cardinality(Doubles(v)) <= Cardinality(Doubles(v))'
         /\ Reading(v) =>
              /\ Cardinality(OwnRows(v))' + added[v] <= Cardinality(OwnRows(v)) + added'[v]
              /\ Number(v, "recent", "all")' + added[v] <= Number(v, "recent", "all") + added'[v]
              /\ Cardinality(Touched(v)) + aged[v] <= Cardinality(Touched(v))' + aged'[v]
              /\ \A k \in Kinds :
                   Number(v, "recent", k) + aged[v] <= Number(v, "recent", k)' + aged'[v]
<1>0. /\ OwnRows(v) \in SUBSET Requests /\ OwnRows(v)' \in SUBSET Requests
      /\ added[v] \in Nat /\ aged[v] \in Nat
  <2>1. OwnRows(v) \in SUBSET Requests
    BY RowsAreRequests
  <2>2. OwnRows(v)' \in SUBSET Requests
    BY DEF OwnRows, RowTypes
  <2>3. added[v] \in Nat /\ aged[v] \in Nat
    BY DEF CallFunctions
  <2> QED
    BY <2>1, <2>2, <2>3
<1>1. /\ \A x \in OwnRows(v) : x \in OwnRows(v)' /\ outcome'[x] = outcome[x]
      /\ added'[v] >= added[v] /\ aged'[v] >= aged[v]
      /\ ~Reading(v) => added'[v] = added[v] /\ aged'[v] = aged[v]
  BY <1>0 DEF Moves, SameRows, RowComes, RowAges
<1>2. /\ OwnRows(v) \in SUBSET OwnRows(v)' /\ Errors(v) \in SUBSET (Errors(v)')
      /\ Doubles(v) \in SUBSET (Doubles(v)')
  BY <1>1 DEF Errors, Doubles
<1>3. \A k \in Kinds : Rows(v, "ever", k) \in SUBSET (Rows(v, "ever", k)')
  BY <1>1 DEF Rows, Window, Kind
<1>4. /\ Errors(v)' \in SUBSET Requests /\ Doubles(v)' \in SUBSET Requests
      /\ Touched(v)' \in SUBSET Requests
      /\ \A w, k : Rows(v, w, k)' \in SUBSET Requests
  <2>1. /\ Errors(v)' \in SUBSET (OwnRows(v)') /\ Doubles(v)' \in SUBSET (OwnRows(v)')
        /\ Touched(v)' \in SUBSET (OwnRows(v)')
        /\ \A w, k : Rows(v, w, k)' \in SUBSET (OwnRows(v)')
    BY DEF OwnRows, Errors, Doubles, Touched, Rows
  <2> QED
    BY <1>0, <2>1
<1>5. /\ Cardinality(OwnRows(v)) <= Cardinality(OwnRows(v)')
      /\ Cardinality(Errors(v)) <= Cardinality(Errors(v)')
      /\ Cardinality(Doubles(v)) <= Cardinality(Doubles(v)')
      /\ \A k \in Kinds : Number(v, "ever", k) <= Number(v, "ever", k)'
  BY <1>0, <1>2, <1>3, <1>4, Fewer DEF Number
<1>6. ASSUME Reading(v)
      PROVE  /\ Cardinality(OwnRows(v)') + added[v] <= Cardinality(OwnRows(v)) + added'[v]
             /\ Number(v, "recent", "all")' + added[v] <= Number(v, "recent", "all") + added'[v]
             /\ Cardinality(Touched(v)) + aged[v] <= Cardinality(Touched(v)') + aged'[v]
             /\ \A k \in Kinds :
                  Number(v, "recent", k) + aged[v] <= Number(v, "recent", k)' + aged'[v]
  <2>0. /\ Rows(v, "recent", "all") \in SUBSET Requests /\ Touched(v) \in SUBSET Requests
        /\ \A k : Rows(v, "recent", k) \in SUBSET Requests
    BY <1>0, RowsAreRequests
  <2>1. /\ Cardinality(OwnRows(v)) \in Nat /\ Cardinality(OwnRows(v)') \in Nat
        /\ Cardinality(Touched(v)) \in Nat /\ Cardinality(Touched(v)') \in Nat
        /\ \A k : Cardinality(Rows(v, "recent", k)) \in Nat
        /\ \A k : Cardinality(Rows(v, "recent", k)') \in Nat
    BY <1>0, <1>4, <2>0, Finite
  <2>2. \A k : /\ Number(v, "recent", k) = Cardinality(Rows(v, "recent", k))
              /\ Number(v, "recent", k)' = Cardinality(Rows(v, "recent", k)')
    BY DEF Number
  <2>3. CASE SameRows(v)
    <3>1. Rows(v, "recent", "all")' \in SUBSET Rows(v, "recent", "all")
      BY <2>3 DEF SameRows, Rows, Window, Kind
    <3>2. \A k \in Kinds : Rows(v, "recent", k) \in SUBSET (Rows(v, "recent", k)')
      BY <1>0, <2>3 DEF SameRows, Rows, Window, Kind
    <3>3. Touched(v) \in SUBSET (Touched(v)')
      BY <3>2 DEF Touched, Kinds
    <3>4. /\ Cardinality(Rows(v, "recent", "all")') <= Cardinality(Rows(v, "recent", "all"))
          /\ Cardinality(Touched(v)) <= Cardinality(Touched(v)')
          /\ \A k \in Kinds : Cardinality(Rows(v, "recent", k)) <= Cardinality(Rows(v, "recent", k)')
      BY <1>4, <2>0, <3>1, <3>2, <3>3, Fewer
    <3>5. OwnRows(v)' = OwnRows(v) /\ added'[v] = added[v] /\ aged'[v] = aged[v]
      BY <2>3 DEF SameRows
    <3> QED
      BY <1>0, <2>1, <2>2, <3>4, <3>5
  <2>4. ASSUME NEW r \in Requests, RowComes(v, r)
        PROVE  /\ Cardinality(OwnRows(v)') <= Cardinality(OwnRows(v)) + 1
               /\ Cardinality(Rows(v, "recent", "all")') <= Cardinality(Rows(v, "recent", "all")) + 1
               /\ Cardinality(Touched(v)) <= Cardinality(Touched(v)')
               /\ \A k \in Kinds : Cardinality(Rows(v, "recent", k)) <= Cardinality(Rows(v, "recent", k)')
               /\ added'[v] = added[v] + 1 /\ aged'[v] = aged[v]
    <3>1. OwnRows(v)' \in SUBSET (OwnRows(v) \cup {r})
      BY <2>4 DEF RowComes
    <3>2. Rows(v, "recent", "all")' \in SUBSET (Rows(v, "recent", "all") \cup {r})
      BY <2>4 DEF RowComes, Rows, Window, Kind
    <3>3. \A k \in Kinds : Rows(v, "recent", k) \in SUBSET (Rows(v, "recent", k)')
      BY <1>0, <2>4 DEF RowComes, Rows, Window, Kind
    <3>4. Touched(v) \in SUBSET (Touched(v)')
      BY <3>3 DEF Touched, Kinds
    <3>5. Cardinality(OwnRows(v)') <= Cardinality(OwnRows(v)) + 1
          /\ Cardinality(Rows(v, "recent", "all")') <= Cardinality(Rows(v, "recent", "all")) + 1
      BY <1>0, <2>0, <3>1, <3>2, FewerOrOne
    <3>6. /\ Cardinality(Touched(v)) <= Cardinality(Touched(v)')
          /\ \A k \in Kinds : Cardinality(Rows(v, "recent", k)) <= Cardinality(Rows(v, "recent", k)')
      BY <1>4, <3>3, <3>4, Fewer
    <3> QED
      BY <1>6, <2>4, <3>5, <3>6 DEF RowComes
  <2>5. ASSUME NEW r \in Requests, RowAges(v, r)
        PROVE  /\ Cardinality(OwnRows(v)') = Cardinality(OwnRows(v))
               /\ Cardinality(Rows(v, "recent", "all")') <= Cardinality(Rows(v, "recent", "all"))
               /\ Cardinality(Touched(v)) <= Cardinality(Touched(v)') + 1
               /\ \A k \in Kinds :
                    Cardinality(Rows(v, "recent", k)) <= Cardinality(Rows(v, "recent", k)') + 1
               /\ added'[v] = added[v] /\ aged'[v] = aged[v] + 1
    <3>1. Rows(v, "recent", "all")' \in SUBSET Rows(v, "recent", "all")
      BY <2>5 DEF RowAges, Rows, Window, Kind
    <3>2. \A k \in Kinds : Rows(v, "recent", k) \in SUBSET (Rows(v, "recent", k)' \cup {r})
      BY <1>0, <2>5 DEF RowAges, Rows, Window, Kind
    <3>3. Touched(v) \in SUBSET (Touched(v)' \cup {r})
      BY <3>2 DEF Touched, Kinds
    <3>4. Cardinality(Rows(v, "recent", "all")') <= Cardinality(Rows(v, "recent", "all"))
      BY <2>0, <3>1, Fewer
    <3>5. /\ Cardinality(Touched(v)) <= Cardinality(Touched(v)') + 1
          /\ \A k \in Kinds :
               Cardinality(Rows(v, "recent", k)) <= Cardinality(Rows(v, "recent", k)') + 1
      BY <1>4, <3>2, <3>3, FewerOrOne
    <3> QED
      BY <1>6, <2>5, <3>4, <3>5 DEF RowAges
  <2>6. ASSUME NEW r \in Requests, RowComes(v, r)
        PROVE  /\ Cardinality(OwnRows(v)') + added[v] <= Cardinality(OwnRows(v)) + added'[v]
               /\ Number(v, "recent", "all")' + added[v] <= Number(v, "recent", "all") + added'[v]
               /\ Cardinality(Touched(v)) + aged[v] <= Cardinality(Touched(v)') + aged'[v]
               /\ \A k \in Kinds :
                    Number(v, "recent", k) + aged[v] <= Number(v, "recent", k)' + aged'[v]
    BY <1>0, <2>4, <2>1, <2>2, <2>6
  <2>7. ASSUME NEW r \in Requests, RowAges(v, r)
        PROVE  /\ Cardinality(OwnRows(v)') + added[v] <= Cardinality(OwnRows(v)) + added'[v]
               /\ Number(v, "recent", "all")' + added[v] <= Number(v, "recent", "all") + added'[v]
               /\ Cardinality(Touched(v)) + aged[v] <= Cardinality(Touched(v)') + aged'[v]
               /\ \A k \in Kinds :
                    Number(v, "recent", k) + aged[v] <= Number(v, "recent", k)' + aged'[v]
    BY <1>0, <2>5, <2>1, <2>2, <2>7
  <2> QED
    BY <2>3, <2>6, <2>7, Zenon DEF Moves
<1> QED
  BY <1>1, <1>5, <1>6
-------------------------------------------------------------------------------
(* What is known of a report after each of its statements                  *)

StatisticsBounds(v) ==
  op[v] = "statistics" =>
    /\ pc[v] = "count" =>
         /\ Len(got[v]) >= 1 => Cardinality(OwnRows(v)) <= got[v][1] + added[v]
         /\ Len(got[v]) = 1 =>
              got[v][1] <= Number(v, "ever", "success") + Number(v, "ever", "blocked")
                           + Cardinality(Errors(v))
         /\ Len(got[v]) = 2 =>
              /\ got[v][1] <= got[v][2] + Number(v, "ever", "blocked") + Cardinality(Errors(v))
              /\ got[v][2] <= Number(v, "ever", "success")
         /\ Len(got[v]) = 3 =>
              /\ got[v][1] <= got[v][2] + got[v][3] + Cardinality(Errors(v))
              /\ got[v][2] + got[v][3] <= got[v][1] + added[v]
    /\ pc[v] = "answered" =>
         /\ Len(got[v]) = 4
         /\ got[v][1] <= got[v][2] + got[v][3] + Cardinality(Errors(v))
         /\ got[v][2] + got[v][3] <= got[v][1] + added[v]
         /\ got[v][4] <= got[v][1] + added[v]

SuccessBounds(v) ==
  op[v] = "success" =>
    /\ pc[v] = "count" =>
         /\ Len(got[v]) >= 1 => Number(v, "recent", "all") <= got[v][1] + added[v]
         /\ Len(got[v]) >= 2 => got[v][2] <= got[v][1] + added[v]
    /\ pc[v] = "answered" => Len(got[v]) = 3 /\ got[v][2] <= got[v][1] + added[v]

LiveBounds(v) ==
  op[v] = "live" =>
    /\ pc[v] = "count" /\ Len(got[v]) = 1 =>
         got[v][1] <= Number(v, "recent", "failure") + aged[v]
    /\ pc[v] = "answered" => Len(got[v]) = 2 /\ got[v][1] <= got[v][2] + aged[v]

SummaryBounds(v) ==
  op[v] = "summary" =>
    /\ pc[v] = "count" =>
         /\ Len(got[v]) = 1 =>
              /\ got[v][1] <= Number(v, "recent", "redacted") + aged[v]
              /\ got[v][1] <= Cardinality(Touched(v)) + aged[v]
         /\ Len(got[v]) = 2 =>
              /\ got[v][1] <= Cardinality(Touched(v)) + aged[v]
              /\ got[v][2] <= Cardinality(Touched(v)) + aged[v]
              /\ got[v][1] + got[v][2]
                   <= Cardinality(Touched(v)) + aged[v] + Cardinality(Doubles(v))
    /\ pc[v] = "answered" =>
         /\ Len(got[v]) = 3
         /\ got[v][1] <= got[v][3] + aged[v] /\ got[v][2] <= got[v][3] + aged[v]
         /\ got[v][1] + got[v][2] <= got[v][3] + aged[v] + Cardinality(Doubles(v))

CardBounds(v) ==
  op[v] \in Cards =>
    /\ pc[v] = "count" /\ Len(got[v]) = 1 =>
         \A k \in Kinds : Reports[op[v]][1] = <<"recent", k>> =>
                            got[v][1] <= Number(v, "recent", k) + aged[v]
    /\ pc[v] = "answered" =>
         Len(got[v]) = 2 /\ got[v][1] + got[v][2] <= Cardinality(OwnRows(v)) + aged[v]

Bounds(v) ==
  /\ StatisticsBounds(v) /\ SuccessBounds(v) /\ LiveBounds(v)
  /\ SummaryBounds(v) /\ CardBounds(v)

(* The counts a call has are numbers.                                       *)
LEMMA GotTypes ==
  ASSUME CallFunctions, NEW v \in Viewers
  PROVE  /\ Len(got[v]) \in Nat /\ added[v] \in Nat /\ aged[v] \in Nat
         /\ Len(got[v]) >= 1 => got[v][1] \in Nat
         /\ Len(got[v]) >= 2 => got[v][2] \in Nat
         /\ Len(got[v]) >= 3 => got[v][3] \in Nat
         /\ Len(got[v]) >= 4 => got[v][4] \in Nat
BY DEF CallFunctions

(* The call itself stands still.                                            *)
Waits(v) == pc'[v] = pc[v] /\ op'[v] = op[v] /\ got'[v] = got[v]

(* Whatever the proxy writes meanwhile, and however the time passes.        *)
LEMMA BoundsWait ==
  ASSUME Types, Types', NEW v \in Viewers, Moves(v), Waits(v), Bounds(v)
  PROVE  Bounds(v)'
<1>0. RowTypes /\ RowTypes' /\ CallFunctions /\ CallFunctions'
  BY DEF Types, CallTypes
<1>1. /\ Len(got[v]) \in Nat /\ added[v] \in Nat /\ aged[v] \in Nat
      /\ added'[v] \in Nat /\ aged'[v] \in Nat
      /\ Len(got[v]) >= 1 => got[v][1] \in Nat
      /\ Len(got[v]) >= 2 => got[v][2] \in Nat
      /\ Len(got[v]) >= 3 => got[v][3] \in Nat
      /\ Len(got[v]) >= 4 => got[v][4] \in Nat
  <2>1. added'[v] \in Nat /\ aged'[v] \in Nat
    BY <1>0 DEF CallFunctions
  <2> QED
    BY <1>0, <2>1, GotTypes
<1>2. /\ Cardinality(OwnRows(v)) \in Nat /\ Cardinality(Errors(v)) \in Nat
      /\ Cardinality(Doubles(v)) \in Nat /\ Cardinality(Touched(v)) \in Nat
      /\ \A w, k : Number(v, w, k) \in Nat
  BY <1>0, Numbers
<1>3. /\ Cardinality(OwnRows(v))' \in Nat /\ Cardinality(Errors(v))' \in Nat
      /\ Cardinality(Doubles(v))' \in Nat /\ Cardinality(Touched(v))' \in Nat
      /\ \A w, k : Number(v, w, k)' \in Nat
  <2>1. OwnRows(v)' \in SUBSET Requests
    BY <1>0 DEF OwnRows, RowTypes
  <2>2. /\ Errors(v)' \in SUBSET (OwnRows(v)') /\ Doubles(v)' \in SUBSET (OwnRows(v)')
        /\ Touched(v)' \in SUBSET (OwnRows(v)')
        /\ \A w, k : Rows(v, w, k)' \in SUBSET (OwnRows(v)')
    BY DEF OwnRows, Errors, Doubles, Touched, Rows
  <2>3. \A S \in SUBSET (OwnRows(v)') : Cardinality(S) \in Nat
    BY <2>1, Finite
  <2> QED
    BY <2>2, <2>3 DEF Number
<1>4. /\ added'[v] >= added[v] /\ aged'[v] >= aged[v]
      /\ Cardinality(OwnRows(v)) <= Cardinality(OwnRows(v))'
      /\ \A k \in Kinds : Number(v, "ever", k) <= Number(v, "ever", k)'
      /\ Cardinality(Errors(v)) <= Cardinality(Errors(v))'
      /\ Cardinality(Doubles(v)) <= Cardinality(Doubles(v))'
  BY <1>0, NumbersMove
<1>5. ASSUME pc[v] = "count"
      PROVE  /\ Cardinality(OwnRows(v))' + added[v] <= Cardinality(OwnRows(v)) + added'[v]
             /\ Number(v, "recent", "all")' + added[v] <= Number(v, "recent", "all") + added'[v]
             /\ Cardinality(Touched(v)) + aged[v] <= Cardinality(Touched(v))' + aged'[v]
             /\ \A k \in Kinds :
                  Number(v, "recent", k) + aged[v] <= Number(v, "recent", k)' + aged'[v]
  <2>1. Reading(v)
    BY <1>5 DEF Reading
  <2> QED
    BY <1>0, <2>1, NumbersMove
<1>6. pc'[v] = pc[v] /\ op'[v] = op[v] /\ got'[v] = got[v]
  BY DEF Waits
<1>7. {"all", "success", "blocked", "failure", "redacted"} \subseteq Kinds
  BY DEF Kinds
<1>8. StatisticsBounds(v)'
  <2> SUFFICES ASSUME op[v] = "statistics" PROVE StatisticsBounds(v)'
    BY <1>6 DEF StatisticsBounds
  <2>1. StatisticsBounds(v)
    BY DEF Bounds
  <2>2. CASE pc[v] = "count" /\ Len(got[v]) = 1
    BY <1>1, <1>2, <1>3, <1>4, <1>5, <1>6, <1>7, <2>1, <2>2 DEF StatisticsBounds
  <2>3. CASE pc[v] = "count" /\ Len(got[v]) = 2
    BY <1>1, <1>2, <1>3, <1>4, <1>5, <1>6, <1>7, <2>1, <2>3 DEF StatisticsBounds
  <2>4. CASE pc[v] = "count" /\ Len(got[v]) = 3
    BY <1>1, <1>2, <1>3, <1>4, <1>5, <1>6, <2>1, <2>4 DEF StatisticsBounds
  <2>5. CASE pc[v] = "count" /\ Len(got[v]) \notin {1, 2, 3}
    <3>1. Len(got[v]) >= 1 => Cardinality(OwnRows(v))' <= got[v][1] + added'[v]
      <4>1. Len(got[v]) >= 1 => Cardinality(OwnRows(v)) <= got[v][1] + added[v]
        BY <2>1, <2>5 DEF StatisticsBounds
      <4>2. /\ Cardinality(OwnRows(v))' + added[v] <= Cardinality(OwnRows(v)) + added'[v]
            /\ Cardinality(OwnRows(v)) \in Nat /\ Cardinality(OwnRows(v))' \in Nat
        BY <1>2, <1>3, <1>5, <2>5
      <4> QED
        BY <1>1, <4>1, <4>2
    <3> QED
      BY <1>6, <2>5, <3>1 DEF StatisticsBounds
  <2>6. CASE pc[v] = "answered"
    <3>1. /\ Len(got[v]) = 4
          /\ got[v][1] <= got[v][2] + got[v][3] + Cardinality(Errors(v))
          /\ got[v][2] + got[v][3] <= got[v][1] + added[v]
          /\ got[v][4] <= got[v][1] + added[v]
      BY <2>1, <2>6 DEF StatisticsBounds
    <3>2. /\ got[v][1] <= got[v][2] + got[v][3] + Cardinality(Errors(v))'
          /\ got[v][2] + got[v][3] <= got[v][1] + added'[v]
          /\ got[v][4] <= got[v][1] + added'[v]
      <4>1. got[v][1] \in Nat /\ got[v][2] \in Nat /\ got[v][3] \in Nat /\ got[v][4] \in Nat
        BY <1>1, <3>1
      <4>2. /\ Cardinality(Errors(v)) <= Cardinality(Errors(v))'
            /\ Cardinality(Errors(v)) \in Nat /\ Cardinality(Errors(v))' \in Nat
            /\ added'[v] >= added[v] /\ added[v] \in Nat /\ added'[v] \in Nat
        BY <1>1, <1>2, <1>3, <1>4
      <4> QED
        BY <3>1, <4>1, <4>2
    <3> QED
      BY <1>6, <2>6, <3>1, <3>2 DEF StatisticsBounds
  <2>7. CASE pc[v] \notin {"count", "answered"}
    BY <1>6, <2>7 DEF StatisticsBounds
  <2> QED
    BY <2>2, <2>3, <2>4, <2>5, <2>6, <2>7
<1>9. SuccessBounds(v)'
  <2> SUFFICES ASSUME op[v] = "success" PROVE SuccessBounds(v)'
    BY <1>6 DEF SuccessBounds
  <2>1. SuccessBounds(v)
    BY DEF Bounds
  <2>2. CASE pc[v] = "count"
    <3>1. ASSUME Len(got[v]) >= 1 PROVE Number(v, "recent", "all")' <= got[v][1] + added'[v]
      <4>1. Number(v, "recent", "all") <= got[v][1] + added[v]
        BY <2>1, <2>2, <3>1 DEF SuccessBounds
      <4>2. got[v][1] \in Nat
        BY <1>1, <3>1
      <4>3. Number(v, "recent", "all") \in Nat /\ Number(v, "recent", "all")' \in Nat
        BY <1>2, <1>3
      <4>4. Number(v, "recent", "all")' + added[v] <= Number(v, "recent", "all") + added'[v]
        BY <1>5, <2>2
      <4> QED
        BY <1>1, <4>1, <4>2, <4>3, <4>4
    <3>2. ASSUME Len(got[v]) >= 2 PROVE got[v][2] <= got[v][1] + added'[v]
      BY <1>1, <1>4, <2>1, <2>2, <3>2 DEF SuccessBounds
    <3> QED
      BY <1>6, <2>2, <3>1, <3>2 DEF SuccessBounds
  <2>3. CASE pc[v] = "answered"
    BY <1>1, <1>4, <1>6, <2>1, <2>3 DEF SuccessBounds
  <2> QED
    BY <1>6, <2>2, <2>3 DEF SuccessBounds
<1>10. LiveBounds(v)'
  <2> SUFFICES ASSUME op[v] = "live" PROVE LiveBounds(v)'
    BY <1>6 DEF LiveBounds
  <2>1. LiveBounds(v)
    BY DEF Bounds
  <2>2. CASE pc[v] = "count"
    <3>1. Number(v, "recent", "failure") + aged[v] <= Number(v, "recent", "failure")' + aged'[v]
      BY <1>5, <1>7, <2>2
    <3>2. Len(got[v]) = 1 => got[v][1] <= Number(v, "recent", "failure")' + aged'[v]
      BY <1>1, <1>2, <1>3, <2>1, <2>2, <3>1 DEF LiveBounds
    <3> QED
      BY <1>6, <2>2, <3>2 DEF LiveBounds
  <2>3. CASE pc[v] = "answered"
    BY <1>1, <1>4, <1>6, <2>1, <2>3 DEF LiveBounds
  <2> QED
    BY <1>6, <2>2, <2>3 DEF LiveBounds
<1>11. SummaryBounds(v)'
  <2> SUFFICES ASSUME op[v] = "summary" PROVE SummaryBounds(v)'
    BY <1>6 DEF SummaryBounds
  <2>1. SummaryBounds(v)
    BY DEF Bounds
  <2>2. CASE pc[v] = "count"
    <3>1. /\ Number(v, "recent", "redacted") + aged[v] <= Number(v, "recent", "redacted")' + aged'[v]
          /\ Cardinality(Touched(v)) + aged[v] <= Cardinality(Touched(v))' + aged'[v]
          /\ Cardinality(Doubles(v)) <= Cardinality(Doubles(v))'
      BY <1>4, <1>5, <1>7, <2>2
    <3>2. /\ Number(v, "recent", "redacted") \in Nat /\ Number(v, "recent", "redacted")' \in Nat
          /\ Cardinality(Touched(v)) \in Nat /\ Cardinality(Touched(v))' \in Nat
          /\ Cardinality(Doubles(v)) \in Nat /\ Cardinality(Doubles(v))' \in Nat
          /\ aged[v] \in Nat /\ aged'[v] \in Nat
      BY <1>1, <1>2, <1>3
    <3>3. CASE Len(got[v]) = 1
      BY <1>1, <1>6, <2>1, <2>2, <3>1, <3>2, <3>3 DEF SummaryBounds
    <3>4. CASE Len(got[v]) = 2
      BY <1>1, <1>6, <2>1, <2>2, <3>1, <3>2, <3>4 DEF SummaryBounds
    <3>5. CASE Len(got[v]) \notin {1, 2}
      BY <1>6, <2>2, <3>5 DEF SummaryBounds
    <3> QED
      BY <3>3, <3>4, <3>5
  <2>3. CASE pc[v] = "answered"
    <3>1. /\ Cardinality(Doubles(v)) <= Cardinality(Doubles(v))'
          /\ Cardinality(Doubles(v)) \in Nat /\ Cardinality(Doubles(v))' \in Nat
          /\ aged[v] \in Nat /\ aged'[v] \in Nat /\ aged'[v] >= aged[v]
      BY <1>1, <1>2, <1>3, <1>4
    <3>2. /\ Len(got[v]) = 3
          /\ got[v][1] <= got[v][3] + aged[v] /\ got[v][2] <= got[v][3] + aged[v]
          /\ got[v][1] + got[v][2] <= got[v][3] + aged[v] + Cardinality(Doubles(v))
      BY <2>1, <2>3 DEF SummaryBounds
    <3>3. /\ got[v][1] <= got[v][3] + aged'[v] /\ got[v][2] <= got[v][3] + aged'[v]
          /\ got[v][1] + got[v][2] <= got[v][3] + aged'[v] + Cardinality(Doubles(v))'
      <4>1. got[v][1] \in Nat /\ got[v][2] \in Nat /\ got[v][3] \in Nat
        BY <1>1, <3>2
      <4> QED
        BY <3>1, <3>2, <4>1
    <3> QED
      BY <1>6, <2>3, <3>2, <3>3 DEF SummaryBounds
  <2> QED
    BY <1>6, <2>2, <2>3 DEF SummaryBounds
<1>12. CardBounds(v)'
  <2> SUFFICES ASSUME op[v] \in Cards PROVE CardBounds(v)'
    BY <1>6 DEF CardBounds
  <2>1. CardBounds(v)
    BY DEF Bounds
  <2>2. CASE pc[v] = "count"
    <3>1. ASSUME Len(got[v]) = 1, NEW k \in Kinds, Reports[op[v]][1] = <<"recent", k>>
          PROVE  got[v][1] <= Number(v, "recent", k)' + aged'[v]
      <4>1. got[v][1] <= Number(v, "recent", k) + aged[v]
        BY <2>1, <2>2, <3>1 DEF CardBounds
      <4>2. /\ Number(v, "recent", k) + aged[v] <= Number(v, "recent", k)' + aged'[v]
            /\ Number(v, "recent", k) \in Nat /\ Number(v, "recent", k)' \in Nat
            /\ got[v][1] \in Nat
        BY <1>1, <1>2, <1>3, <1>5, <2>2, <3>1
      <4> QED
        BY <1>1, <4>1, <4>2
    <3> QED
      BY <1>6, <2>2, <3>1 DEF CardBounds
  <2>3. CASE pc[v] = "answered"
    <3>1. /\ Cardinality(OwnRows(v)) <= Cardinality(OwnRows(v))'
          /\ Cardinality(OwnRows(v)) \in Nat /\ Cardinality(OwnRows(v))' \in Nat
          /\ aged[v] \in Nat /\ aged'[v] \in Nat /\ aged'[v] >= aged[v]
      BY <1>1, <1>2, <1>3, <1>4
    <3>2. Len(got[v]) = 2 /\ got[v][1] + got[v][2] <= Cardinality(OwnRows(v)) + aged[v]
      BY <2>1, <2>3 DEF CardBounds
    <3>3. got[v][1] \in Nat /\ got[v][2] \in Nat
      BY <1>1, <3>2
    <3>4. got[v][1] + got[v][2] <= Cardinality(OwnRows(v))' + aged'[v]
      BY <3>1, <3>2, <3>3
    <3> QED
      BY <1>6, <2>3, <3>2, <3>4 DEF CardBounds
  <2> QED
    BY <1>6, <2>2, <2>3 DEF CardBounds
<1> QED
  BY <1>8, <1>9, <1>10, <1>11, <1>12 DEF Bounds
-------------------------------------------------------------------------------
(* The rows a call is about are as they were.                               *)
SameMoment(v) ==
  /\ Cardinality(OwnRows(v))' = Cardinality(OwnRows(v))
  /\ Cardinality(Errors(v))' = Cardinality(Errors(v))
  /\ Cardinality(Doubles(v))' = Cardinality(Doubles(v))
  /\ Cardinality(Touched(v))' = Cardinality(Touched(v))
  /\ \A w, k : Number(v, w, k)' = Number(v, w, k)
  /\ added'[v] = added[v] /\ aged'[v] = aged[v]

(* A COUNT looks at one moment, and appends one number to what the call     *)
(* has.                                                                     *)
LEMMA CountTaken ==
  ASSUME Types, NEW v \in Viewers, CountRows(v)
  PROVE  /\ SameMoment(v) /\ pc[v] = "count" /\ op'[v] = op[v] /\ op[v] \in DOMAIN Reports
         /\ Len(got[v]) \in Nat /\ Len(got[v]) < Len(Reports[op[v]])
         /\ Len(got'[v]) = Len(got[v]) + 1
         /\ Len(got[v]) >= 1 => got'[v][1] = got[v][1]
         /\ Len(got[v]) >= 2 => got'[v][2] = got[v][2]
         /\ Len(got[v]) >= 3 => got'[v][3] = got[v][3]
         /\ LET q == Reports[op[v]][Len(got[v]) + 1]
            IN  got'[v][Len(got[v]) + 1] = Number(v, q[1], q[2])
         /\ pc'[v] = IF Len(got[v]) + 1 = Len(Reports[op[v]]) THEN "answered" ELSE "count"
<1>0. RowTypes /\ CallFunctions /\ CallStage(v)
  BY DEF Types, CallTypes
<1> DEFINE q == Reports[op[v]][Len(got[v]) + 1]
<1>1. /\ pc[v] = "count" /\ UNCHANGED <<transactions, old, outcome, op, added, aged>>
      /\ got' = [got EXCEPT ![v] = Append(got[v], CountOf(v, q))]
      /\ pc' = [pc EXCEPT ![v] = IF Len(got'[v]) = Len(Reports[op[v]]) THEN "answered" ELSE "count"]
  BY DEF CountRows, Answer, Step, rows, writer
<1>2. CountOf(v, q) = Number(v, q[1], q[2]) /\ CountOf(v, q) \in Nat
  BY <1>0, CountsAreNumbers DEF CountOf, Number, Rows
<1>3. SameMoment(v)
  <2>1. OwnRows(v)' = OwnRows(v)
    BY <1>1 DEF OwnRows, Concerns
  <2>2. Errors(v)' = Errors(v) /\ Doubles(v)' = Doubles(v)
    BY <1>1, <2>1 DEF Errors, Doubles
  <2>3. \A w, k : Rows(v, w, k)' = Rows(v, w, k)
    BY <1>1, <2>1 DEF Rows, Window, Kind
  <2>4. Touched(v)' = Touched(v)
    BY <2>3 DEF Touched
  <2>5. added'[v] = added[v] /\ aged'[v] = aged[v]
    BY <1>1
  <2> QED
    BY <2>1, <2>2, <2>3, <2>4, <2>5 DEF SameMoment, Number
<1>4. op[v] \in DOMAIN Reports /\ Len(got[v]) < Len(Reports[op[v]])
  BY <1>0, <1>1 DEF CallStage
<1>5. got[v] \in Seq(Nat) /\ Len(got[v]) \in Nat
  BY <1>0 DEF CallFunctions
<1>6. got'[v] = Append(got[v], CountOf(v, q)) /\ op'[v] = op[v]
  BY <1>0, <1>1 DEF CallFunctions
<1>7. /\ Len(got'[v]) = Len(got[v]) + 1
      /\ \A i \in 1..Len(got[v]) : got'[v][i] = got[v][i]
      /\ got'[v][Len(got[v]) + 1] = CountOf(v, q)
  <2> HIDE DEF q
  <2> QED
    BY <1>2, <1>5, <1>6
<1>8. pc'[v] = IF Len(got[v]) + 1 = Len(Reports[op[v]]) THEN "answered" ELSE "count"
  BY <1>0, <1>1, <1>7 DEF CallFunctions
<1>9. /\ Len(got[v]) >= 1 => got'[v][1] = got[v][1]
      /\ Len(got[v]) >= 2 => got'[v][2] = got[v][2]
      /\ Len(got[v]) >= 3 => got'[v][3] = got[v][3]
  BY <1>5, <1>7
<1> QED
  BY <1>1, <1>2, <1>3, <1>4, <1>5, <1>6, <1>7, <1>8, <1>9

(* The statement of the report op[v] that comes after n others.             *)
CountAfter(v, n) == Number(v, Reports[op[v]][n + 1][1], Reports[op[v]][n + 1][2])

(* The number appended is that of the statement whose turn it is.           *)
LEMMA NextCount ==
  ASSUME Types, NEW v \in Viewers, CountRows(v)
  PROVE  /\ Len(got[v]) = 0 => got'[v][1] = CountAfter(v, 0)
         /\ Len(got[v]) = 1 => got'[v][2] = CountAfter(v, 1)
         /\ Len(got[v]) = 2 => got'[v][3] = CountAfter(v, 2)
         /\ Len(got[v]) = 3 => got'[v][4] = CountAfter(v, 3)
<1>1. got'[v][Len(got[v]) + 1] = CountAfter(v, Len(got[v]))
  BY CountTaken DEF CountAfter
<1>2. ASSUME NEW n \in Nat, Len(got[v]) = n PROVE got'[v][n + 1] = CountAfter(v, n)
  BY <1>1, <1>2
<1>3. Len(got[v]) = 0 => got'[v][0 + 1] = CountAfter(v, 0)
  BY <1>2
<1>4. Len(got[v]) = 1 => got'[v][1 + 1] = CountAfter(v, 1)
  BY <1>2
<1>5. Len(got[v]) = 2 => got'[v][2 + 1] = CountAfter(v, 2)
  BY <1>2
<1>6. Len(got[v]) = 3 => got'[v][3 + 1] = CountAfter(v, 3)
  BY <1>2
<1> QED
  BY <1>3, <1>4, <1>5, <1>6

(* A report is answered with its last count.                                *)
LEMMA LastCount ==
  ASSUME Types, NEW v \in Viewers, CountRows(v)
  PROVE  /\ Len(Reports[op[v]]) = 4 =>
              /\ Len(got[v]) \in {0, 1, 2, 3}
              /\ pc'[v] = IF Len(got[v]) = 3 THEN "answered" ELSE "count"
         /\ Len(Reports[op[v]]) = 3 =>
              /\ Len(got[v]) \in {0, 1, 2}
              /\ pc'[v] = IF Len(got[v]) = 2 THEN "answered" ELSE "count"
         /\ Len(Reports[op[v]]) = 2 =>
              /\ Len(got[v]) \in {0, 1}
              /\ pc'[v] = IF Len(got[v]) = 1 THEN "answered" ELSE "count"
<1>1. PICK n \in Nat : n = Len(got[v])
  BY CountTaken
<1>2. PICK m : m = Len(Reports[op[v]])
  OBVIOUS
<1>3. n < m /\ pc'[v] = IF n + 1 = m THEN "answered" ELSE "count"
  BY <1>1, <1>2, CountTaken
<1>4. m = 4 => n \in {0, 1, 2, 3} /\ pc'[v] = IF n = 3 THEN "answered" ELSE "count"
  BY <1>3
<1>5. m = 3 => n \in {0, 1, 2} /\ pc'[v] = IF n = 2 THEN "answered" ELSE "count"
  BY <1>3
<1>6. m = 2 => n \in {0, 1} /\ pc'[v] = IF n = 1 THEN "answered" ELSE "count"
  BY <1>3
<1> QED
  BY <1>1, <1>2, <1>4, <1>5, <1>6, Zenon

(* After each statement of the statistics.                                  *)
LEMMA StatisticsCounted ==
  ASSUME Types, NEW v \in Viewers, CountRows(v), StatisticsBounds(v)
  PROVE  StatisticsBounds(v)'
<1>0. RowTypes /\ CallFunctions
  BY DEF Types, CallTypes
<1>1. /\ SameMoment(v) /\ pc[v] = "count" /\ op'[v] = op[v]
      /\ Len(got'[v]) = Len(got[v]) + 1 /\ Len(got[v]) \in Nat
      /\ Len(got[v]) >= 1 => got'[v][1] = got[v][1]
      /\ Len(got[v]) >= 2 => got'[v][2] = got[v][2]
      /\ Len(got[v]) >= 3 => got'[v][3] = got[v][3]
  BY CountTaken
<1> SUFFICES ASSUME op[v] = "statistics" PROVE StatisticsBounds(v)'
  BY <1>1 DEF StatisticsBounds
<1>10. /\ Len(Reports[op[v]]) = 4
       /\ Reports[op[v]][1] = <<"ever", "all">> /\ Reports[op[v]][2] = <<"ever", "success">>
       /\ Reports[op[v]][3] = <<"ever", "blocked">> /\ Reports[op[v]][4] = <<"ever", "redacted">>
  BY EachReport
<1>2. /\ Len(got[v]) \in {0, 1, 2, 3}
      /\ pc'[v] = IF Len(got[v]) = 3 THEN "answered" ELSE "count"
  BY <1>10, LastCount
<1>4. /\ Cardinality(OwnRows(v)) \in Nat /\ Cardinality(Errors(v)) \in Nat
      /\ Number(v, "ever", "success") \in Nat /\ Number(v, "ever", "blocked") \in Nat
      /\ Number(v, "ever", "redacted") \in Nat /\ added[v] \in Nat
  BY <1>0, Numbers, GotTypes
<1>5. /\ Cardinality(OwnRows(v))' = Cardinality(OwnRows(v))
      /\ Cardinality(Errors(v))' = Cardinality(Errors(v))
      /\ Number(v, "ever", "success")' = Number(v, "ever", "success")
      /\ Number(v, "ever", "blocked")' = Number(v, "ever", "blocked")
      /\ added'[v] = added[v]
  BY <1>1 DEF SameMoment
<1>6. CASE Len(got[v]) = 0
  <2>1. got'[v][1] = Cardinality(OwnRows(v))
    BY <1>0, <1>6, <1>10, NextCount, OneMoment DEF CountAfter
  <2>2. Cardinality(OwnRows(v)) <= Number(v, "ever", "success") + Number(v, "ever", "blocked")
                                   + Cardinality(Errors(v))
    BY <1>0, OneMoment
  <2> QED
    BY <1>1, <1>2, <1>4, <1>5, <1>6, <2>1, <2>2 DEF StatisticsBounds
<1>7. CASE Len(got[v]) = 1
  <2>1. got'[v][2] = Number(v, "ever", "success")
    BY <1>7, <1>10, NextCount DEF CountAfter
  <2>2. got'[v][1] = got[v][1] /\ got[v][1] \in Nat
    BY <1>0, <1>1, <1>7, GotTypes
  <2> QED
    BY <1>1, <1>2, <1>4, <1>5, <1>7, <2>1, <2>2 DEF StatisticsBounds
<1>8. CASE Len(got[v]) = 2
  <2>1. got'[v][3] = Number(v, "ever", "blocked")
    BY <1>8, <1>10, NextCount DEF CountAfter
  <2>2. /\ got'[v][1] = got[v][1] /\ got[v][1] \in Nat
        /\ got'[v][2] = got[v][2] /\ got[v][2] \in Nat
    BY <1>0, <1>1, <1>8, GotTypes
  <2>3. Number(v, "ever", "success") + Number(v, "ever", "blocked") <= Cardinality(OwnRows(v))
    BY <1>0, OneMoment
  <2> QED
    BY <1>1, <1>2, <1>4, <1>5, <1>8, <2>1, <2>2, <2>3 DEF StatisticsBounds
<1>9. CASE Len(got[v]) = 3
  <2>1. got'[v][4] = Number(v, "ever", "redacted")
    BY <1>9, <1>10, NextCount DEF CountAfter
  <2>2. /\ got'[v][1] = got[v][1] /\ got[v][1] \in Nat
        /\ got'[v][2] = got[v][2] /\ got'[v][3] = got[v][3]
    BY <1>0, <1>1, <1>9, GotTypes
  <2>3. Number(v, "ever", "redacted") <= Cardinality(OwnRows(v))
    BY <1>0, OneMoment
  <2> QED
    BY <1>1, <1>2, <1>4, <1>5, <1>9, <2>1, <2>2, <2>3 DEF StatisticsBounds
<1> QED
  BY <1>2, <1>6, <1>7, <1>8, <1>9

(* After each statement of the success rate and of the live widget.         *)
LEMMA RatesCounted ==
  ASSUME Types, NEW v \in Viewers, CountRows(v), SuccessBounds(v), LiveBounds(v)
  PROVE  SuccessBounds(v)' /\ LiveBounds(v)'
<1>0. RowTypes /\ CallFunctions
  BY DEF Types, CallTypes
<1>1. /\ SameMoment(v) /\ pc[v] = "count" /\ op'[v] = op[v]
      /\ Len(got'[v]) = Len(got[v]) + 1 /\ Len(got[v]) \in Nat
      /\ Len(got[v]) >= 1 => got'[v][1] = got[v][1]
      /\ Len(got[v]) >= 2 => got'[v][2] = got[v][2]
  BY CountTaken
<1>2. /\ Number(v, "recent", "all") \in Nat /\ Number(v, "recent", "success") \in Nat
      /\ Number(v, "recent", "failure") \in Nat /\ added[v] \in Nat /\ aged[v] \in Nat
  BY <1>0, Numbers, GotTypes
<1>3. /\ Number(v, "recent", "all")' = Number(v, "recent", "all")
      /\ Number(v, "recent", "failure")' = Number(v, "recent", "failure")
      /\ added'[v] = added[v] /\ aged'[v] = aged[v]
  BY <1>1 DEF SameMoment
<1>4. /\ Number(v, "recent", "success") <= Number(v, "recent", "all")
      /\ Number(v, "recent", "failure") <= Number(v, "recent", "all")
  BY <1>0, OneMoment
<1>5. SuccessBounds(v)'
  <2> SUFFICES ASSUME op[v] = "success" PROVE SuccessBounds(v)'
    BY <1>1 DEF SuccessBounds
  <2>6. /\ Len(Reports[op[v]]) = 3 /\ Reports[op[v]][1] = <<"recent", "all">>
        /\ Reports[op[v]][2] = <<"recent", "success">>
    BY EachReport
  <2>1. /\ Len(got[v]) \in {0, 1, 2}
        /\ pc'[v] = IF Len(got[v]) = 2 THEN "answered" ELSE "count"
    BY <2>6, LastCount
  <2>3. CASE Len(got[v]) = 0
    <3>1. got'[v][1] = Number(v, "recent", "all")
      BY <2>3, <2>6, NextCount DEF CountAfter
    <3> QED
      BY <1>1, <1>2, <1>3, <2>1, <2>3, <3>1 DEF SuccessBounds
  <2>4. CASE Len(got[v]) = 1
    <3>1. got'[v][2] = Number(v, "recent", "success")
      BY <2>4, <2>6, NextCount DEF CountAfter
    <3>2. got'[v][1] = got[v][1] /\ got[v][1] \in Nat
      BY <1>0, <1>1, <2>4, GotTypes
    <3> QED
      BY <1>1, <1>2, <1>3, <1>4, <2>1, <2>4, <3>1, <3>2 DEF SuccessBounds
  <2>5. CASE Len(got[v]) = 2
    BY <1>1, <1>3, <2>1, <2>5 DEF SuccessBounds
  <2> QED
    BY <2>1, <2>3, <2>4, <2>5
<1>6. LiveBounds(v)'
  <2> SUFFICES ASSUME op[v] = "live" PROVE LiveBounds(v)'
    BY <1>1 DEF LiveBounds
  <2>6. /\ Len(Reports[op[v]]) = 2 /\ Reports[op[v]][1] = <<"recent", "failure">>
        /\ Reports[op[v]][2] = <<"recent", "all">>
    BY EachReport
  <2>1. /\ Len(got[v]) \in {0, 1}
        /\ pc'[v] = IF Len(got[v]) = 1 THEN "answered" ELSE "count"
    BY <2>6, LastCount
  <2>3. CASE Len(got[v]) = 0
    <3>1. got'[v][1] = Number(v, "recent", "failure")
      BY <2>3, <2>6, NextCount DEF CountAfter
    <3> QED
      BY <1>1, <1>2, <1>3, <2>1, <2>3, <3>1 DEF LiveBounds
  <2>4. CASE Len(got[v]) = 1
    <3>1. got'[v][2] = Number(v, "recent", "all")
      BY <2>4, <2>6, NextCount DEF CountAfter
    <3>2. got'[v][1] = got[v][1] /\ got[v][1] \in Nat
      BY <1>0, <1>1, <2>4, GotTypes
    <3> QED
      BY <1>1, <1>2, <1>3, <1>4, <2>1, <2>4, <3>1, <3>2 DEF LiveBounds
  <2> QED
    BY <2>1, <2>3, <2>4
<1> QED
  BY <1>5, <1>6

(* After each statement of the summary.                                     *)
LEMMA SummaryCounted ==
  ASSUME Types, NEW v \in Viewers, CountRows(v), SummaryBounds(v)
  PROVE  SummaryBounds(v)'
<1>0. RowTypes /\ CallFunctions
  BY DEF Types, CallTypes
<1>1. /\ SameMoment(v) /\ pc[v] = "count" /\ op'[v] = op[v]
      /\ Len(got'[v]) = Len(got[v]) + 1 /\ Len(got[v]) \in Nat
      /\ Len(got[v]) >= 1 => got'[v][1] = got[v][1]
      /\ Len(got[v]) >= 2 => got'[v][2] = got[v][2]
  BY CountTaken
<1> SUFFICES ASSUME op[v] = "summary" PROVE SummaryBounds(v)'
  BY <1>1 DEF SummaryBounds
<1>10. /\ Len(Reports[op[v]]) = 3 /\ Reports[op[v]][1] = <<"recent", "redacted">>
       /\ Reports[op[v]][2] = <<"recent", "blocked">> /\ Reports[op[v]][3] = <<"recent", "all">>
  BY EachReport
<1>2. /\ Len(got[v]) \in {0, 1, 2}
      /\ pc'[v] = IF Len(got[v]) = 2 THEN "answered" ELSE "count"
  BY <1>10, LastCount
<1>4. /\ Number(v, "recent", "redacted") \in Nat /\ Number(v, "recent", "blocked") \in Nat
      /\ Number(v, "recent", "all") \in Nat /\ Cardinality(Touched(v)) \in Nat
      /\ Cardinality(Doubles(v)) \in Nat /\ aged[v] \in Nat
  BY <1>0, Numbers, GotTypes
<1>5. /\ Number(v, "recent", "redacted")' = Number(v, "recent", "redacted")
      /\ Cardinality(Touched(v))' = Cardinality(Touched(v))
      /\ Cardinality(Doubles(v))' = Cardinality(Doubles(v)) /\ aged'[v] = aged[v]
  BY <1>1 DEF SameMoment
<1>6. /\ Number(v, "recent", "redacted") <= Cardinality(Touched(v))
      /\ Number(v, "recent", "blocked") <= Cardinality(Touched(v))
      /\ Cardinality(Touched(v)) <= Number(v, "recent", "all")
      /\ Number(v, "recent", "redacted") + Number(v, "recent", "blocked")
           <= Cardinality(Touched(v)) + Cardinality(Doubles(v))
  BY <1>0, OneMoment
<1>7. CASE Len(got[v]) = 0
  <2>1. got'[v][1] = Number(v, "recent", "redacted")
    BY <1>7, <1>10, NextCount DEF CountAfter
  <2> QED
    BY <1>1, <1>2, <1>4, <1>5, <1>6, <1>7, <2>1 DEF SummaryBounds
<1>8. CASE Len(got[v]) = 1
  <2>1. got'[v][2] = Number(v, "recent", "blocked")
    BY <1>8, <1>10, NextCount DEF CountAfter
  <2>2. got'[v][1] = got[v][1] /\ got[v][1] \in Nat
    BY <1>0, <1>1, <1>8, GotTypes
  <2> QED
    BY <1>1, <1>2, <1>4, <1>5, <1>6, <1>8, <2>1, <2>2 DEF SummaryBounds
<1>9. CASE Len(got[v]) = 2
  <2>1. got'[v][3] = Number(v, "recent", "all")
    BY <1>9, <1>10, NextCount DEF CountAfter
  <2>2. /\ got'[v][1] = got[v][1] /\ got[v][1] \in Nat
        /\ got'[v][2] = got[v][2] /\ got[v][2] \in Nat
    BY <1>0, <1>1, <1>9, GotTypes
  <2> QED
    BY <1>1, <1>2, <1>4, <1>5, <1>6, <1>9, <2>1, <2>2 DEF SummaryBounds
<1> QED
  BY <1>2, <1>7, <1>8, <1>9

(* After each statement of a card.                                          *)
LEMMA CardCounted ==
  ASSUME Types, NEW v \in Viewers, CountRows(v), CardBounds(v)
  PROVE  CardBounds(v)'
<1>0. RowTypes /\ CallFunctions
  BY DEF Types, CallTypes
<1>1. /\ SameMoment(v) /\ pc[v] = "count" /\ op'[v] = op[v]
      /\ Len(got'[v]) = Len(got[v]) + 1 /\ Len(got[v]) \in Nat
      /\ Len(got[v]) >= 1 => got'[v][1] = got[v][1]
  BY CountTaken
<1> SUFFICES ASSUME op[v] \in Cards PROVE CardBounds(v)'
  BY <1>1 DEF CardBounds
<1>2. PICK c \in {"all", "redacted", "blocked"} :
        Reports[op[v]][1] = <<"recent", c>> /\ Reports[op[v]][2] = <<"earlier", c>>
  BY EachReport
<1>9. Len(Reports[op[v]]) = 2 /\ c \in Kinds
  BY EachReport DEF Kinds
<1>3. /\ Len(got[v]) \in {0, 1}
      /\ pc'[v] = IF Len(got[v]) = 1 THEN "answered" ELSE "count"
  BY <1>9, LastCount
<1>5. /\ Number(v, "recent", c) \in Nat /\ Number(v, "earlier", c) \in Nat
      /\ Cardinality(OwnRows(v)) \in Nat /\ aged[v] \in Nat
  BY <1>0, Numbers, GotTypes
<1>6. /\ Number(v, "recent", c)' = Number(v, "recent", c)
      /\ Cardinality(OwnRows(v))' = Cardinality(OwnRows(v)) /\ aged'[v] = aged[v]
  BY <1>1 DEF SameMoment
<1>7. CASE Len(got[v]) = 0
  <2>1. got'[v][1] = Number(v, "recent", c)
    BY <1>2, <1>7, NextCount DEF CountAfter
  <2>2. \A k : Reports[op[v]][1] = <<"recent", k>> => k = c
    BY <1>2
  <2>3. got'[v][1] <= Number(v, "recent", c)' + aged'[v]
    BY <1>5, <1>6, <2>1
  <2> QED
    BY <1>1, <1>3, <1>7, <2>2, <2>3 DEF CardBounds
<1>8. CASE Len(got[v]) = 1
  <2>1. got'[v][2] = Number(v, "earlier", c)
    BY <1>2, <1>8, NextCount DEF CountAfter
  <2>2. got'[v][1] = got[v][1] /\ got[v][1] \in Nat
    BY <1>0, <1>1, <1>8, GotTypes
  <2>3. got[v][1] <= Number(v, "recent", c) + aged[v]
    BY <1>1, <1>2, <1>9, <1>8 DEF CardBounds
  <2>4. Number(v, "recent", c) + Number(v, "earlier", c) <= Cardinality(OwnRows(v))
    BY <1>0, <1>9, OneMoment
  <2>5. got'[v][1] + got'[v][2] <= Cardinality(OwnRows(v))' + aged'[v]
    BY <1>5, <1>6, <2>1, <2>2, <2>3, <2>4
  <2> QED
    BY <1>1, <1>3, <1>8, <2>5 DEF CardBounds
<1> QED
  BY <1>3, <1>7, <1>8

(* The next COUNT keeps the counts within their bounds, whatever the        *)
(* report.                                                                  *)
LEMMA BoundsCounted ==
  ASSUME Types, NEW v \in Viewers, CountRows(v), Bounds(v)
  PROVE  Bounds(v)'
BY StatisticsCounted, RatesCounted, SummaryCounted, CardCounted DEF Bounds
-------------------------------------------------------------------------------
Bounded == \A v \in Viewers \ failed : Bounds(v)

IInv == Types /\ Bounded

(* A call that has not counted anything, or is no report.                   *)
Quiet(v) ==
  \/ pc[v] \notin {"count", "answered"} \/ (pc[v] = "count" /\ got[v] = <<>>)
  \/ op[v] \in {"events", "transactions"}

(* A call that has counted nothing is within any bounds.                    *)
LEMMA BoundsQuiet ==
  ASSUME NEW v \in Viewers, Quiet(v)'
  PROVE  Bounds(v)'
<1>1. CASE pc'[v] \notin {"count", "answered"} \/ op'[v] \in {"events", "transactions"}
  BY <1>1 DEF Bounds, StatisticsBounds, SuccessBounds, LiveBounds, SummaryBounds, CardBounds, Cards
<1>2. CASE pc'[v] = "count" /\ got'[v] = <<>>
  <2>1. Len(got'[v]) = 0
    BY <1>2
  <2>2. ~(Len(got'[v]) >= 1) /\ ~(Len(got'[v]) >= 2) /\ Len(got'[v]) \notin {1, 2, 3}
    BY <2>1
  <2> QED
    BY <1>2, <2>2
       DEF Bounds, StatisticsBounds, SuccessBounds, LiveBounds, SummaryBounds, CardBounds
<1> QED
  BY <1>1, <1>2 DEF Quiet

(* The invariant holds before the first row.                                *)
LEMMA IInvInit == Init => IInv
<1> SUFFICES ASSUME Init PROVE IInv
  OBVIOUS
<1>1. ASSUME NEW v \in Viewers PROVE Bounds(v)
  <2>1. pc[v] = "idle"
    BY DEF Init
  <2> QED
    BY <2>1 DEF Bounds, StatisticsBounds, SuccessBounds, LiveBounds, SummaryBounds, CardBounds
<1> QED
  BY <1>1, TypesInit DEF IInv, Bounded

(* Nothing that a report counts changes, nor what it has counted.           *)
LEMMA RowsRest ==
  ASSUME NEW v \in Viewers, UNCHANGED <<transactions, old, outcome>>,
         added'[v] = added[v], aged'[v] = aged[v]
  PROVE  Moves(v)
BY DEF Moves, SameRows, OwnRows, Concerns

(* What a step of a call does to its own bounds, and to those of the others. *)
LEMMA OwnSteps ==
  ASSUME Types, Types', NEW v \in Viewers, Bounds(v) \/ v \in failed,
         \/ AskReport(v) \/ CheckRate(v) \/ UpdateRate(v) \/ CountRows(v) \/ CountFails(v)
         \/ AskTransactions(v) \/ GetTransactions(v)
         \/ AskEvents(v) \/ CountEvents(v) \/ SelectEvents(v) \/ SelectFails(v)
  PROVE  /\ UNCHANGED <<transactions, old, outcome, added, aged>> /\ failed \subseteq failed'
         /\ \A w \in Viewers \ {v} : Waits(w)
         /\ v \in failed' \/ Bounds(v)'
<1>0. CallFunctions /\ CallStage(v)
  BY DEF Types, CallTypes
<1>1. CASE CountRows(v)
  <2>1. /\ UNCHANGED <<transactions, old, outcome, added, aged>> /\ failed' = failed
        /\ \A w \in Viewers \ {v} : Waits(w)
    BY <1>0, <1>1 DEF CountRows, Answer, Step, Waits, CallFunctions, rows, writer
  <2> QED
    BY <1>1, <2>1, BoundsCounted
<1>2. CASE CountFails(v)
  <2>1. CASE /\ Step(v, "count", "refused")
             /\ UNCHANGED <<rows, writer, op, got, offset, seen, shown, gauge, history>>
    <3>1. Quiet(v)'
      BY <1>0, <2>1 DEF Step, Quiet, CallFunctions
    <3> QED
      BY <1>0, <2>1, <3>1, BoundsQuiet DEF Step, Waits, CallFunctions, rows, writer, history
  <2>2. CASE Answer(v, 0) /\ failed' = failed \cup {v}
    BY <1>0, <2>2 DEF Answer, Step, Waits, CallFunctions, rows, writer
  <2> QED
    BY <1>2, <2>1, <2>2 DEF CountFails
<1>3. CASE AskReport(v)
  <2>1. pc[v] = "idle" /\ got' = got /\ \E to \in {"rate", "count"} : pc' = [pc EXCEPT ![v] = to]
    BY <1>3 DEF AskReport, Step
  <2>2. got[v] = <<>>
    BY <1>0, <2>1 DEF CallStage
  <2>3. Quiet(v)'
    BY <1>0, <2>1, <2>2 DEF Quiet, CallFunctions
  <2>4. \A w \in Viewers \ {v} : Waits(w)
    BY <1>0, <1>3, <2>1 DEF AskReport, Waits, CallFunctions
  <2> QED
    BY <1>3, <2>3, <2>4, BoundsQuiet DEF AskReport, rows, writer, history
<1>4. CASE CheckRate(v) \/ UpdateRate(v)
  <2>1. pc[v] \in {"rate", "minute"} /\ op' = op /\ got' = got
        /\ \E to \in {"minute", "count"} : pc' = [pc EXCEPT ![v] = to]
    BY <1>4 DEF CheckRate, UpdateRate, Step
  <2>2. got[v] = <<>>
    BY <1>0, <2>1 DEF CallStage
  <2>3. Quiet(v)'
    BY <1>0, <2>1, <2>2 DEF Quiet, CallFunctions
  <2>4. \A w \in Viewers \ {v} : Waits(w)
    BY <1>0, <2>1 DEF Waits, CallFunctions
  <2> QED
    BY <1>4, <2>3, <2>4, BoundsQuiet DEF CheckRate, UpdateRate, rows, writer, history
<1>5. CASE AskTransactions(v) \/ AskEvents(v)
  <2>1. \E to \in {"transactions", "events"} : op' = [op EXCEPT ![v] = to]
    BY <1>5 DEF AskTransactions, AskEvents
  <2>2. Quiet(v)'
    BY <1>0, <2>1 DEF Quiet, CallFunctions
  <2>3. \A w \in Viewers \ {v} : Waits(w)
    BY <1>0, <1>5, <2>1 DEF AskTransactions, AskEvents, Step, Waits, CallFunctions
  <2> QED
    BY <1>5, <2>2, <2>3, BoundsQuiet DEF AskTransactions, AskEvents, rows, writer, history
<1>6. CASE GetTransactions(v)
  <2>1. op' = op /\ op[v] = "transactions"
    BY <1>0, <1>6 DEF GetTransactions, Step, CallStage
  <2>2. \A w \in Viewers \ {v} : Waits(w)
    BY <1>0, <1>6 DEF GetTransactions, Step, Waits, CallFunctions
  <2> QED
    BY <1>6, <2>1, <2>2, BoundsQuiet DEF Quiet, GetTransactions, rows, writer, history
<1>7. CASE CountEvents(v)
  <2>1. op' = op /\ op[v] = "events"
    BY <1>0, <1>7 DEF CountEvents, Step, CallStage
  <2>2. \A w \in Viewers \ {v} : Waits(w)
    BY <1>0, <1>7 DEF CountEvents, Step, Waits, CallFunctions
  <2> QED
    BY <1>7, <2>1, <2>2, BoundsQuiet DEF Quiet, CountEvents, rows, writer
<1>8. CASE SelectEvents(v) \/ SelectFails(v)
  <2>1. op' = op /\ got' = got /\ op[v] = "events"
    BY <1>0, <1>8 DEF SelectEvents, SelectFails, Step, CallStage
  <2>2. \A w \in Viewers \ {v} : Waits(w)
    BY <1>0, <1>8, <2>1 DEF SelectEvents, SelectFails, Step, Waits, CallFunctions
  <2> QED
    BY <1>8, <2>1, <2>2, BoundsQuiet DEF Quiet, SelectEvents, SelectFails, rows, writer, history
<1> QED
  BY <1>1, <1>2, <1>3, <1>4, <1>5, <1>6, <1>7, <1>8, Zenon

(* Every step keeps the counts within their bounds.                         *)
LEMMA IInvNext == IInv /\ [Next]_vars => IInv'
<1> SUFFICES ASSUME IInv, [Next]_vars PROVE IInv'
  OBVIOUS
<1>0. Types /\ Types' /\ \A v \in Viewers \ failed : Bounds(v)
  BY TypesNext DEF IInv, Bounded
<1>1. ASSUME failed \subseteq failed',
             \A w \in Viewers : (Moves(w) /\ Waits(w)) \/ w \in failed' \/ Bounds(w)'
      PROVE  Bounded'
  <2>1. ASSUME NEW w \in Viewers \ failed' PROVE Bounds(w)'
    <3>1. CASE Moves(w) /\ Waits(w)
      <4>1. Bounds(w)
        BY <1>0, <1>1, <2>1
      <4> QED
        BY <1>0, <2>1, <3>1, <4>1, BoundsWait
    <3> QED
      BY <1>1, <2>1, <3>1
  <2> QED
    BY <2>1 DEF Bounded
<1>2. ASSUME NEW r \in Requests, LogTransaction(r) \/ GrowOld(r) PROVE Bounded'
  <2>1. failed' = failed /\ UNCHANGED reader
    BY <1>2 DEF LogTransaction, GrowOld
  <2>2. \A w \in Viewers : Moves(w) /\ Waits(w)
    BY <1>0, <1>2, <2>1, RowsMove DEF Waits, reader
  <2> QED
    BY <1>1, <2>1, <2>2
<1>3. ASSUME (\E r \in Requests : LogEvent(r) \/ StoreEvent(r)) \/ MinutePasses \/ UNCHANGED vars
      PROVE  Bounded'
  <2>1. /\ UNCHANGED <<transactions, old, outcome, added, aged, failed>> /\ UNCHANGED reader
    BY <1>3 DEF LogEvent, StoreEvent, MinutePasses, vars, rows, writer, history
  <2>2. \A w \in Viewers : Moves(w) /\ Waits(w)
    BY <2>1, RowsRest DEF Waits, reader
  <2> QED
    BY <1>1, <2>1, <2>2
<1>4. ASSUME NEW v \in Viewers,
             \/ AskReport(v) \/ CheckRate(v) \/ UpdateRate(v) \/ CountRows(v) \/ CountFails(v)
             \/ AskTransactions(v) \/ GetTransactions(v)
             \/ AskEvents(v) \/ CountEvents(v) \/ SelectEvents(v) \/ SelectFails(v)
      PROVE  Bounded'
  <2>1. Bounds(v) \/ v \in failed
    BY <1>0
  <2>2. /\ UNCHANGED <<transactions, old, outcome, added, aged>> /\ failed \subseteq failed'
        /\ \A w \in Viewers \ {v} : Waits(w)
        /\ v \in failed' \/ Bounds(v)'
    BY <1>0, <1>4, <2>1, OwnSteps
  <2>3. \A w \in Viewers : (Moves(w) /\ Waits(w)) \/ w \in failed' \/ Bounds(w)'
    <3>1. \A w \in Viewers \ {v} : Moves(w) /\ Waits(w)
      BY <2>2, RowsRest
    <3> QED
      BY <2>2, <3>1
  <2>4. failed \subseteq failed'
    BY <2>2
  <2> QED
    BY <1>1, <2>3, <2>4
<1>5. Bounded'
  BY <1>2, <1>3, <1>4, Zenon DEF Next
<1> QED
  BY <1>0, <1>5 DEF IInv

(* The counts of every report are within their bounds at all times.         *)
LEMMA Invariance == Spec => []IInv
BY IInvInit, IInvNext, PTL DEF Spec

(* The bounds of a finished report are what GetStatistics promises.         *)
LEMMA StatisticsFollow == IInv => StatisticsAddUp
<1> SUFFICES ASSUME IInv, NEW v \in Viewers, Answered(v, "statistics")
             PROVE  /\ got[v][2] + got[v][3] <= got[v][1] + added[v]
                    /\ got[v][4] <= got[v][1] + added[v]
                    /\ got[v][1] <= got[v][2] + got[v][3]
                         + Cardinality({r \in OwnRows(v) : outcome[r].status = "error"})
  BY DEF StatisticsAddUp
<1>1. StatisticsBounds(v)
  BY DEF IInv, Bounded, Bounds, Answered
<1> QED
  BY <1>1 DEF StatisticsBounds, Answered, Errors

(* Of a call of GetStatistics whose statements all worked, successes and    *)
(* blocked requests exceed the total by no more than came meanwhile, and    *)
(* only failed requests are missing.                                        *)
THEOREM StatisticsAgree == Spec => []StatisticsAddUp
BY StatisticsFollow, Invariance, PTL

(* The bounds of a finished widget are what it promises.                    *)
LEMMA WidgetsFollow == IInv => WidgetsAddUp
<1>1. IInv => RatesBounded
  BY DEF IInv, Bounded, Bounds, Answered, RatesBounded, SuccessBounds, LiveBounds
<1>2. IInv => SummaryDoubles
  <2> SUFFICES ASSUME IInv, NEW v \in Viewers, Answered(v, "summary")
               PROVE  /\ got[v][1] <= got[v][3] + aged[v] /\ got[v][2] <= got[v][3] + aged[v]
                      /\ got[v][1] + got[v][2] <= got[v][3] + aged[v]
                           + Cardinality({r \in OwnRows(v) : outcome[r].status = "blocked"
                                                             /\ outcome[r].redacted})
    BY DEF SummaryDoubles
  <2>1. SummaryBounds(v)
    BY DEF IInv, Bounded, Bounds, Answered
  <2> QED
    BY <2>1 DEF SummaryBounds, Answered, Doubles
<1>3. IInv => PeriodsDisjoint
  <2> SUFFICES ASSUME IInv, NEW v \in Viewers, NEW o \in Cards, Answered(v, o)
               PROVE  got[v][1] + got[v][2] <= Cardinality(OwnRows(v)) + aged[v]
    BY DEF PeriodsDisjoint
  <2>1. CardBounds(v)
    BY DEF IInv, Bounded, Bounds, Answered
  <2> QED
    BY <2>1 DEF CardBounds, Answered
<1> QED
  BY <1>1, <1>2, <1>3 DEF WidgetsAddUp

(* The counts of a widget whose statements all worked disagree by no more   *)
(* than the rows that came, or left its window, between its statements, and *)
(* by the requests the summary counts twice.                                *)
THEOREM WidgetsAgree == Spec => []WidgetsAddUp
BY WidgetsFollow, Invariance, PTL
-------------------------------------------------------------------------------
(* Every event is of one request, which has stored it, and has the          *)
(* timestamp it took; no more timestamps are given than requests took one.  *)
Stamped == {r \in Requests : wpc[r] \in {"store", "done"}}

EventTypes ==
  /\ events \subseteq [by : Requests, at : Nat]
  /\ stamp \in [Requests -> Nat] /\ clock \in Nat /\ clock <= Cardinality(Stamped)
  /\ \A r \in Requests : stamp[r] <= clock
  /\ \A e \in events : e.at = stamp[e.by] /\ wpc[e.by] = "done"

(* There are no events before the first request.                            *)
LEMMA EventTypesInit == Init => EventTypes
<1> SUFFICES ASSUME Init PROVE EventTypes
  OBVIOUS
<1>1. Stamped = {}
  BY DEF Init, Stamped
<1> QED
  BY <1>1, FS_EmptySet DEF Init, EventTypes

(* The requests that took a timestamp only get more.                        *)
LEMMA StampedGrows ==
  ASSUME Stamped \subseteq Stamped'
  PROVE  /\ Cardinality(Stamped) \in Nat /\ Cardinality(Stamped') \in Nat
         /\ Cardinality(Stamped) <= Cardinality(Stamped')
<1>1. Stamped' \in SUBSET Requests /\ IsFiniteSet(Requests)
  BY AuditAssumption DEF Stamped
<1>2. IsFiniteSet(Stamped')
  BY <1>1, FS_Subset
<1> QED
  BY <1>2, FS_Subset, FS_CardinalityType

(* An event has a timestamp no smaller than all before it.                  *)
LEMMA EventTypesNext == Types /\ EventTypes /\ [Next]_vars => EventTypes'
<1> SUFFICES ASSUME RowTypes, EventTypes, [Next]_vars PROVE EventTypes'
  BY DEF Types
<1>1. ASSUME NEW r \in Requests, LogTransaction(r) PROVE EventTypes'
  <2>1. /\ wpc[r] = "log" /\ \E to \in {"event", "done"} : wpc' = [wpc EXCEPT ![r] = to]
        /\ UNCHANGED <<events, clock, stamp>>
    BY <1>1 DEF LogTransaction, Goto
  <2>2. Stamped \subseteq Stamped'
    BY <2>1 DEF Stamped, RowTypes
  <2>3. clock' <= Cardinality(Stamped')
    BY <2>1, <2>2, StampedGrows DEF EventTypes
  <2> QED
    BY <2>1, <2>3 DEF RowTypes, EventTypes
<1>2. ASSUME NEW r \in Requests, LogEvent(r) PROVE EventTypes'
  <2>1. /\ wpc[r] = "event" /\ wpc' = [wpc EXCEPT ![r] = "store"] /\ events' = events
        /\ clock' \in {clock, clock + 1} /\ stamp' = [stamp EXCEPT ![r] = clock']
    BY <1>2 DEF LogEvent, Goto
  <2>2. clock \in Nat /\ clock' \in Nat /\ clock <= clock' /\ clock' <= clock + 1
    BY <2>1 DEF EventTypes
  <2>3. Stamped' = Stamped \cup {r} /\ r \notin Stamped
    BY <2>1 DEF Stamped, RowTypes
  <2>4. IsFiniteSet(Stamped)
    <3>1. Stamped \in SUBSET Requests
      BY DEF Stamped
    <3> QED
      BY <3>1, AuditAssumption, FS_Subset
  <2>5. Cardinality(Stamped') = Cardinality(Stamped) + 1 /\ Cardinality(Stamped) \in Nat
    BY <2>3, <2>4, FS_AddElement, FS_CardinalityType
  <2>6. clock' <= Cardinality(Stamped')
    BY <2>2, <2>5 DEF EventTypes
  <2>7. stamp' \in [Requests -> Nat] /\ \A q \in Requests : stamp'[q] <= clock'
    BY <2>1, <2>2 DEF EventTypes
  <2>8. \A e \in events : e.by # r
    BY <2>1 DEF EventTypes
  <2>9. \A e \in events' : e.at = stamp'[e.by] /\ wpc'[e.by] = "done"
    BY <2>1, <2>8 DEF EventTypes, RowTypes
  <2> QED
    BY <2>1, <2>2, <2>6, <2>7, <2>9 DEF EventTypes
<1>3. ASSUME NEW r \in Requests, StoreEvent(r) PROVE EventTypes'
  <2> DEFINE e == [by |-> r, at |-> stamp[r]]
  <2>1. /\ wpc[r] = "store" /\ wpc' = [wpc EXCEPT ![r] = "done"]
        /\ events' \in {events, events \cup {e}} /\ UNCHANGED <<clock, stamp>>
    BY <1>3 DEF StoreEvent, Goto
  <2>2. stamp[r] \in Nat /\ Stamped' = Stamped
    BY <2>1 DEF EventTypes, Stamped, RowTypes
  <2>3. events' \subseteq [by : Requests, at : Nat]
    BY <2>1, <2>2 DEF EventTypes
  <2>4. \A f \in events' : f.at = stamp'[f.by] /\ wpc'[f.by] = "done"
    BY <2>1, <2>2 DEF EventTypes, RowTypes
  <2> QED
    BY <2>1, <2>2, <2>3, <2>4 DEF EventTypes, RowTypes
<1>4. ASSUME UNCHANGED <<wpc, stamp, clock, events>> PROVE EventTypes'
  BY <1>4 DEF EventTypes, Stamped
<1>5. ASSUME NEW r \in Requests, GrowOld(r) PROVE UNCHANGED <<wpc, stamp, clock, events>>
  BY <1>5 DEF GrowOld, writer
<1>6. ASSUME NEW v \in Viewers, AskReport(v) \/ CheckRate(v) \/ UpdateRate(v) \/ CountRows(v)
             \/ CountFails(v) \/ AskTransactions(v) \/ GetTransactions(v)
      PROVE  UNCHANGED <<wpc, stamp, clock, events>>
  BY <1>6 DEF AskReport, CheckRate, UpdateRate, CountRows, CountFails, Answer, AskTransactions,
              GetTransactions, rows, writer
<1>7. ASSUME NEW v \in Viewers, AskEvents(v) \/ CountEvents(v) \/ SelectEvents(v) \/ SelectFails(v)
      PROVE  UNCHANGED <<wpc, stamp, clock, events>>
  BY <1>7 DEF AskEvents, CountEvents, SelectEvents, SelectFails, rows, writer
<1>8. CASE UNCHANGED vars \/ MinutePasses
  BY <1>4, <1>8 DEF vars, MinutePasses, rows, writer
<1> QED
  BY <1>1, <1>2, <1>3, <1>4, <1>5, <1>6, <1>7, <1>8, Zenon DEF Next

(* A set of such events has no more of them than there are requests.        *)
LEMMA EventsBounded ==
  ASSUME NEW S \in SUBSET [by : Requests, at : Nat], NEW g,
         \A e \in S : e.at = g[e.by]
  PROVE  IsFiniteSet(S) /\ Cardinality(S) \in Nat /\ Cardinality(S) <= Cardinality(Requests)
<1> DEFINE f == [e \in S |-> e.by]
<1>1. \A a, b \in S : f[a] = f[b] => a = b
  OBVIOUS
<1>2. f \in [S -> Requests]
  OBVIOUS
<1>3. f \in Injection(S, Requests)
  BY <1>1, <1>2 DEF Injection, IsInjective
<1> QED
  BY <1>3, AuditAssumption, FS_Injection, FS_CardinalityType
-------------------------------------------------------------------------------
(* A walk over the events: how many of its own are not older than one.      *)
Ahead(v, e) == Cardinality({f \in OwnEvents(v) : f.at >= e.at})

(* An event stands at one of the places 1 to the number of events.          *)
LEMMA AheadBounds ==
  ASSUME EventTypes, NEW v \in Viewers, NEW e \in OwnEvents(v)
  PROVE  /\ Ahead(v, e) \in Nat /\ Cardinality(OwnEvents(v)) \in Nat
         /\ 1 <= Ahead(v, e) /\ Ahead(v, e) <= Cardinality(OwnEvents(v))
<1> DEFINE Newer == {f \in OwnEvents(v) : f.at >= e.at}
<1>1. OwnEvents(v) \in SUBSET events /\ Newer \in SUBSET events /\ Newer \in SUBSET OwnEvents(v)
  BY DEF OwnEvents
<1>2. /\ IsFiniteSet(Newer) /\ IsFiniteSet(OwnEvents(v))
      /\ Cardinality(Newer) \in Nat /\ Cardinality(OwnEvents(v)) \in Nat
  <2>1. events \subseteq [by : Requests, at : Nat] /\ \A f \in events : f.at = stamp[f.by]
    BY DEF EventTypes
  <2> QED
    BY <1>1, <2>1, EventsBounded
<1>3. Cardinality(Newer) <= Cardinality(OwnEvents(v))
  BY <1>1, <1>2, FS_Subset
<1>4. e \in Newer
  BY DEF EventTypes, OwnEvents
<1>5. Cardinality({e}) <= Cardinality(Newer) /\ Cardinality({e}) = 1
  BY <1>2, <1>4, FS_Subset, FS_Singleton
<1> QED
  BY <1>2, <1>3, <1>5 DEF Ahead

(* An event that comes later is at most in front of it.                     *)
LEMMA AheadGrows ==
  ASSUME EventTypes, EventTypes', NEW v \in Viewers, NEW e \in OwnEvents(v),
         OwnEvents(v) \subseteq OwnEvents(v)'
  PROVE  Ahead(v, e) <= Ahead(v, e)' /\ Ahead(v, e)' \in Nat
<1> DEFINE Newer == {f \in OwnEvents(v) : f.at >= e.at}
<1>1. Newer' \in SUBSET events' /\ Newer \in SUBSET Newer'
  BY DEF OwnEvents
<1>2. IsFiniteSet(Newer') /\ Cardinality(Newer') \in Nat
  <2>1. Newer' \in SUBSET [by : Requests, at : Nat] /\ \A f \in Newer' : f.at = stamp'[f.by]
    BY <1>1 DEF EventTypes
  <2> QED
    BY <2>1, EventsBounded
<1>3. Cardinality(Newer) <= Cardinality(Newer')
  BY <1>1, <1>2, FS_Subset
<1> QED
  BY <1>2, <1>3 DEF Ahead

WalkTypes ==
  /\ offset \in [Viewers -> Nat]
  /\ seen \in [Viewers -> SUBSET events] /\ promised \in [Viewers -> SUBSET events]

(* What a walk was promised it has seen, unless it shares its timestamp, or *)
(* it lies behind the offset; and the total is that of the rows, as long as *)
(* none has come.                                                           *)
Walking(v) ==
  /\ promised[v] \subseteq OwnEvents(v)
  /\ pc[v] = "idle" => offset[v] = 0
  /\ pc[v] \in {"total", "select"} /\ v \notin failed =>
       \A e \in promised[v] : e \in seen[v] \/ Tied(v, e) \/ offset[v] < Ahead(v, e)
  /\ pc[v] = "select" /\ v \notin failed /\ v \notin raced =>
       got[v][1] = Cardinality(OwnEvents(v))
  /\ pc[v] = "answered" /\ op[v] = "events" /\ v \notin failed /\ v \notin raced =>
       \A e \in promised[v] \ seen[v] : Tied(v, e)

Walks == WalkTypes /\ \A v \in Viewers : Walking(v)

(* No walk has begun.                                                       *)
LEMMA WalksInit == Init => Walks
BY DEF Init, Walks, WalkTypes, Walking

(* Events only come, and one that comes before the SELECT has raced it.     *)
LEMMA EventsCome ==
  ASSUME Types, EventTypes, [Next]_vars
  PROVE  /\ events \subseteq events'
         /\ \A v \in Viewers : /\ OwnEvents(v) \subseteq OwnEvents(v)'
                               /\ \/ OwnEvents(v)' = OwnEvents(v)
                                  \/ pc[v] # "select" \/ v \in raced'
<1> DEFINE Same == UNCHANGED <<events, outcome>>
<1>1. ASSUME NEW r \in Requests, LogTransaction(r) PROVE \A v \in Viewers : OwnEvents(v)' = OwnEvents(v)
  <2>1. events' = events /\ wpc[r] = "log" /\ \E o \in Outcomes : outcome' = [outcome EXCEPT ![r] = o]
    BY <1>1 DEF LogTransaction, Goto
  <2>2. \A e \in events : e.by # r /\ e.by \in Requests
    BY <2>1 DEF EventTypes
  <2>3. \A e \in events : outcome'[e.by] = outcome[e.by]
    BY <2>1, <2>2 DEF Types, RowTypes
  <2> QED
    BY <2>1, <2>3 DEF OwnEvents, Concerns
<1>2. ASSUME NEW r \in Requests, StoreEvent(r), NEW v \in Viewers
      PROVE  /\ OwnEvents(v) \subseteq OwnEvents(v)'
             /\ OwnEvents(v)' = OwnEvents(v) \/ pc[v] # "select" \/ v \in raced'
  <2>1. CASE UNCHANGED <<events, raced>>
    BY <1>2, <2>1 DEF StoreEvent, OwnEvents, Concerns
  <2>2. CASE /\ events' = events \cup {[by |-> r, at |-> stamp[r]]}
             /\ raced' = raced \cup {w \in Viewers : Concerns(w, outcome[r]) /\ pc[w] = "select"}
    BY <1>2, <2>2 DEF StoreEvent, OwnEvents, Concerns
  <2> QED
    BY <1>2, <2>1, <2>2 DEF StoreEvent
<1>3. ASSUME NEW r \in Requests, LogEvent(r) \/ GrowOld(r) PROVE Same
  BY <1>3 DEF LogEvent, GrowOld, writer
<1>4. ASSUME NEW v \in Viewers, AskReport(v) \/ CheckRate(v) \/ UpdateRate(v) \/ CountRows(v)
             \/ CountFails(v) \/ AskTransactions(v) \/ GetTransactions(v)
      PROVE  Same
  BY <1>4 DEF AskReport, CheckRate, UpdateRate, CountRows, CountFails, Answer, AskTransactions,
              GetTransactions, rows, writer
<1>5. ASSUME NEW v \in Viewers, AskEvents(v) \/ CountEvents(v) \/ SelectEvents(v) \/ SelectFails(v)
      PROVE  Same
  BY <1>5 DEF AskEvents, CountEvents, SelectEvents, SelectFails, rows, writer
<1>6. ASSUME UNCHANGED vars \/ MinutePasses PROVE Same
  BY <1>6 DEF vars, MinutePasses, rows, writer
<1>7. ASSUME Same PROVE \A v \in Viewers : OwnEvents(v)' = OwnEvents(v)
  BY <1>7 DEF OwnEvents, Concerns
<1>8. \/ \A v \in Viewers : OwnEvents(v)' = OwnEvents(v)
      \/ \E r \in Requests : StoreEvent(r)
  <2> HIDE DEF Same
  <2> QED
    BY <1>1, <1>3, <1>4, <1>5, <1>6, <1>7, Zenon DEF Next
<1>9. events \subseteq events'
  <2>1. ASSUME NEW r \in Requests, LogTransaction(r) \/ StoreEvent(r) PROVE events \subseteq events'
    BY <2>1 DEF LogTransaction, StoreEvent
  <2>2. Same => events \subseteq events'
    OBVIOUS
  <2>3. UNCHANGED vars \/ MinutePasses => events \subseteq events'
    BY DEF vars, MinutePasses, rows
  <2> HIDE DEF Same
  <2> QED
    BY <1>3, <1>4, <1>5, <2>1, <2>2, <2>3, Zenon DEF Next
<1> QED
  BY <1>2, <1>8, <1>9

(* A call that a step does not move, and what is written meanwhile.         *)
Rests(v) ==
  /\ pc'[v] = pc[v] /\ op'[v] = op[v] /\ got'[v] = got[v] /\ offset'[v] = offset[v]
  /\ seen'[v] = seen[v] /\ promised'[v] = promised[v]
  /\ v \in failed => v \in failed'
  /\ v \in raced => v \in raced'

(* A step of somebody else keeps what is known of a walk: events that come  *)
(* push others back, never out of the rest of the walk.                     *)
LEMMA WalkRests ==
  ASSUME Types, EventTypes, EventTypes', [Next]_vars, NEW v \in Viewers,
         Walking(v), Rests(v), offset[v] \in Nat
  PROVE  Walking(v)'
<1>1. /\ OwnEvents(v) \subseteq OwnEvents(v)'
      /\ OwnEvents(v)' = OwnEvents(v) \/ pc[v] # "select" \/ v \in raced'
  BY EventsCome
<1>2. ASSUME NEW e \in promised[v], offset[v] < Ahead(v, e) PROVE offset[v] < Ahead(v, e)'
  <2>1. e \in OwnEvents(v)
    BY DEF Walking
  <2>2. Ahead(v, e) <= Ahead(v, e)' /\ Ahead(v, e)' \in Nat /\ Ahead(v, e) \in Nat
    BY <1>1, <2>1, AheadGrows, AheadBounds
  <2> QED
    BY <1>2, <2>2
<1>t. ASSUME NEW e \in promised[v], Tied(v, e) PROVE Tied(v, e)'
  BY <1>1, <1>t DEF Tied
<1>3. promised'[v] \subseteq OwnEvents(v)' /\ (pc'[v] = "idle" => offset'[v] = 0)
  BY <1>1 DEF Walking, Rests
<1>4. pc'[v] \in {"total", "select"} /\ v \notin failed' =>
        \A e \in promised'[v] : e \in seen'[v] \/ Tied(v, e)' \/ offset'[v] < Ahead(v, e)'
  BY <1>2, <1>t DEF Walking, Rests
<1>5. pc'[v] = "select" /\ v \notin failed' /\ v \notin raced' =>
        got'[v][1] = Cardinality(OwnEvents(v)')
  BY <1>1 DEF Walking, Rests
<1>6. pc'[v] = "answered" /\ op'[v] = "events" /\ v \notin failed' /\ v \notin raced' =>
        \A e \in promised'[v] \ seen'[v] : Tied(v, e)'
  BY <1>t DEF Walking, Rests
<1> QED
  BY <1>3, <1>4, <1>5, <1>6 DEF Walking

(* The events that come first in an order number what was asked for, or all *)
(* there are.                                                               *)
LEMMA LeadingSize ==
  ASSUME EventTypes, NEW v \in Viewers, NEW n \in Nat, NEW A \in Leading(v, n)
  PROVE  /\ A \subseteq OwnEvents(v) /\ Cardinality(A) \in Nat /\ Cardinality(A) <= n
         /\ A # OwnEvents(v) => Cardinality(A) = n
<1>1. A \subseteq OwnEvents(v) /\ OwnEvents(v) \in SUBSET events
  BY DEF Leading, OwnEvents
<1>2. IsFiniteSet(OwnEvents(v)) /\ Cardinality(OwnEvents(v)) \in Nat
  <2>1. events \subseteq [by : Requests, at : Nat] /\ \A f \in events : f.at = stamp[f.by]
    BY DEF EventTypes
  <2> QED
    BY <1>1, <2>1, EventsBounded
<1>3. IF n < Cardinality(OwnEvents(v)) THEN Cardinality(A) = n ELSE A = OwnEvents(v)
  BY DEF Leading
<1> QED
  BY <1>1, <1>2, <1>3

(* A SELECT that works shows what is between the offset and the next one,   *)
(* in whatever order it has events of one timestamp, but for those.         *)
LEMMA PageSeen ==
  ASSUME EventTypes, NEW v \in Viewers, offset[v] \in Nat, NEW e \in OwnEvents(v),
         offset[v] < Ahead(v, e), ~Tied(v, e), NEW P \in Pages(v), e \notin P
  PROVE  offset[v] + Limit < Ahead(v, e)
<1> DEFINE Newer == {f \in OwnEvents(v) : f.at >= e.at}
<1>1. PICK A \in Leading(v, offset[v]) :
        P \cap A = {} /\ A \cup P \in Leading(v, offset[v] + Limit)
  BY DEF Pages
<1> DEFINE B == A \cup P
<1>2. Limit \in Nat /\ offset[v] + Limit \in Nat
  BY AuditAssumption
<1>3. /\ A \subseteq OwnEvents(v) /\ Cardinality(A) \in Nat /\ Cardinality(A) <= offset[v]
      /\ B \subseteq OwnEvents(v) /\ Cardinality(B) \in Nat
      /\ B # OwnEvents(v) => Cardinality(B) = offset[v] + Limit
  <2>1. B \in Leading(v, offset[v] + Limit)
    BY <1>1
  <2> HIDE DEF B
  <2> QED
    BY <1>1, <1>2, <2>1, LeadingSize
<1>4. /\ OwnEvents(v) \in SUBSET events
      /\ \A f \in OwnEvents(v) : f.at \in Nat
  BY DEF OwnEvents, EventTypes
<1>5. IsFiniteSet(OwnEvents(v))
  <2>1. events \subseteq [by : Requests, at : Nat] /\ \A f \in events : f.at = stamp[f.by]
    BY DEF EventTypes
  <2> QED
    BY <1>4, <2>1, EventsBounded
<1>6. Newer \in SUBSET OwnEvents(v) /\ Cardinality(Newer) = Ahead(v, e) /\ Ahead(v, e) \in Nat
  BY AheadBounds DEF Ahead
<1>7. e \notin A
  <2> SUFFICES ASSUME e \in A PROVE FALSE
    OBVIOUS
  <2>1. \A f \in OwnEvents(v) \ A : f.at <= e.at
    BY <1>1 DEF Leading
  <2>2. \A f \in OwnEvents(v) \ A : f.at # e.at
    BY DEF Tied
  <2>3. Newer \subseteq A
    BY <1>4, <2>1, <2>2
  <2>4. IsFiniteSet(A)
    BY <1>3, <1>5, FS_Subset
  <2>5. Cardinality(Newer) <= Cardinality(A)
    BY <2>3, <2>4, FS_Subset
  <2> QED
    BY <1>3, <1>6, <2>5
<1>8. e \in OwnEvents(v) \ B
  BY <1>7
<1>9. \A f \in B : e.at <= f.at
  BY <1>1, <1>8 DEF Leading
<1>10. B \cup {e} \in SUBSET Newer /\ IsFiniteSet(Newer) /\ IsFiniteSet(B)
  <2>1. B \cup {e} \in SUBSET Newer
    BY <1>3, <1>4, <1>9
  <2> QED
    BY <1>5, <1>6, <2>1, <1>3, FS_Subset
<1> HIDE DEF B, Newer
<1>11. Cardinality(B \cup {e}) = Cardinality(B) + 1 /\ Cardinality(B \cup {e}) <= Cardinality(Newer)
  BY <1>8, <1>10, FS_AddElement, FS_Subset
<1>12. Cardinality(B) = offset[v] + Limit
  BY <1>3, <1>8
<1> QED
  BY <1>2, <1>6, <1>11, <1>12

(* The SELECT of a page shows what lies between the old offset and the new  *)
(* one, and the last page what is left.                                     *)
LEMMA WalkSelects ==
  ASSUME Types, Walks, EventTypes, NEW v \in Viewers, SelectEvents(v)
  PROVE  /\ WalkTypes' /\ Walking(v)' /\ \A w \in Viewers \ {v} : Rests(w)
<1>0. CallFunctions /\ CallStage(v) /\ WalkTypes /\ Walking(v)
  BY DEF Types, CallTypes, Walks
<1>p. PICK P \in Pages(v) : seen' = [seen EXCEPT ![v] = seen[v] \cup P]
  BY DEF SelectEvents
<1>1. /\ pc[v] = "select" /\ pc' = [pc EXCEPT ![v] = IF HasMore(v) THEN "total" ELSE "answered"]
      /\ seen' = [seen EXCEPT ![v] = seen[v] \cup P]
      /\ offset' = [offset EXCEPT ![v] = IF HasMore(v) THEN offset[v] + Limit ELSE offset[v]]
      /\ UNCHANGED <<events, outcome, op, got, promised, failed, raced>>
  BY <1>0, <1>p DEF SelectEvents, Step, rows, writer, history
<1>2. offset[v] \in Nat /\ Limit \in Nat /\ OwnEvents(v)' = OwnEvents(v)
  BY <1>0, <1>1, AuditAssumption DEF WalkTypes, OwnEvents, Concerns
<1>3. /\ pc'[v] = (IF HasMore(v) THEN "total" ELSE "answered")
      /\ seen'[v] = seen[v] \cup P
      /\ offset'[v] = (IF HasMore(v) THEN offset[v] + Limit ELSE offset[v])
      /\ promised'[v] = promised[v] /\ promised[v] \subseteq OwnEvents(v)
  BY <1>0, <1>1 DEF CallFunctions, WalkTypes, Walking
<1>4. WalkTypes'
  <2>1. P \subseteq events
    BY DEF Pages, OwnEvents
  <2> QED
    BY <1>0, <1>1, <1>2, <2>1 DEF WalkTypes
<1>5. ASSUME v \notin failed, NEW e \in promised[v], e \notin seen'[v], ~Tied(v, e)
      PROVE  offset[v] + Limit < Ahead(v, e)
  <2>1. e \in OwnEvents(v) /\ e \notin P /\ offset[v] < Ahead(v, e)
    BY <1>0, <1>1, <1>3, <1>5 DEF Walking
  <2> QED
    BY <1>2, <1>5, <2>1, PageSeen
<1>6. \A e \in OwnEvents(v) : Ahead(v, e)' = Ahead(v, e) /\ (Tied(v, e)' <=> Tied(v, e))
  BY <1>2 DEF Ahead, Tied
<1>7. Walking(v)'
  <2>1. CASE HasMore(v)
    <3>1. pc'[v] = "total" /\ offset'[v] = offset[v] + Limit
      BY <1>3, <2>1
    <3> QED
      BY <1>1, <1>2, <1>3, <1>5, <1>6, <3>1 DEF Walking
  <2>2. CASE ~HasMore(v)
    <3>1. pc'[v] = "answered"
      BY <1>3, <2>2
    <3>2. ASSUME v \notin failed, v \notin raced, NEW e \in promised[v],
                 e \notin seen'[v], ~Tied(v, e)
          PROVE  FALSE
      <4>1. got[v][1] = Cardinality(OwnEvents(v))
        BY <1>0, <1>1, <3>2 DEF Walking
      <4>2. Ahead(v, e) <= Cardinality(OwnEvents(v)) /\ Ahead(v, e) \in Nat
            /\ Cardinality(OwnEvents(v)) \in Nat
        BY <1>3, AheadBounds
      <4>3. ~(offset[v] + Limit < Cardinality(OwnEvents(v)))
        BY <2>2, <4>1 DEF HasMore
      <4> QED
        BY <1>2, <1>5, <3>2, <4>2, <4>3
    <3> QED
      BY <1>1, <1>2, <1>3, <1>6, <3>1, <3>2 DEF Walking
  <2> QED
    BY <2>1, <2>2
<1>8. \A w \in Viewers \ {v} : Rests(w)
  BY <1>0, <1>1 DEF Rests, CallFunctions, WalkTypes
<1> QED
  BY <1>4, <1>7, <1>8

(* The other steps of a call keep what is known of its walk.                *)
LEMMA WalkSteps ==
  ASSUME Types, Walks, EventTypes, NEW v \in Viewers,
         \/ AskReport(v) \/ CheckRate(v) \/ UpdateRate(v) \/ CountRows(v) \/ CountFails(v)
         \/ AskTransactions(v) \/ GetTransactions(v)
         \/ AskEvents(v) \/ CountEvents(v) \/ SelectFails(v)
  PROVE  /\ WalkTypes' /\ Walking(v)' /\ \A w \in Viewers \ {v} : Rests(w)
<1>0. CallFunctions /\ CallStage(v) /\ WalkTypes /\ Walking(v)
  BY DEF Types, CallTypes, Walks
<1>1. UNCHANGED <<events, outcome, seen>>
  BY DEF AskReport, CheckRate, UpdateRate, CountRows, CountFails, Answer, AskTransactions,
         GetTransactions, AskEvents, CountEvents, SelectFails, rows, writer
<1>2. OwnEvents(v)' = OwnEvents(v) /\ offset[v] \in Nat /\ Limit \in Nat
  BY <1>0, <1>1, AuditAssumption DEF OwnEvents, Concerns, WalkTypes
<1>3. \A e \in OwnEvents(v) : Ahead(v, e)' = Ahead(v, e) /\ (Tied(v, e)' <=> Tied(v, e))
  BY <1>2 DEF Ahead, Tied
<1>4. ASSUME UNCHANGED <<offset, promised>>, pc'[v] \notin {"idle", "total", "select"},
             pc'[v] = "answered" => op'[v] # "events"
      PROVE  WalkTypes' /\ Walking(v)'
  BY <1>0, <1>1, <1>2, <1>4 DEF WalkTypes, Walking
<1>5. CASE AskReport(v) \/ CheckRate(v) \/ UpdateRate(v) \/ AskTransactions(v) \/ GetTransactions(v)
  <2>1. UNCHANGED <<offset, promised, failed, raced>>
    BY <1>5 DEF AskReport, CheckRate, UpdateRate, AskTransactions, GetTransactions, history
  <2>2. pc'[v] \in {"rate", "minute", "count", "page", "answered", "refused"}
        /\ (pc'[v] = "answered" => op'[v] # "events")
    BY <1>0, <1>5 DEF AskReport, CheckRate, UpdateRate, AskTransactions, GetTransactions, Step,
                      CallFunctions, CallStage
  <2>3. \A w \in Viewers \ {v} : pc'[w] = pc[w] /\ op'[w] = op[w] /\ got'[w] = got[w]
    BY <1>0, <1>5 DEF AskReport, CheckRate, UpdateRate, AskTransactions, GetTransactions, Step,
                      CallFunctions
  <2> QED
    BY <1>1, <1>4, <2>1, <2>2, <2>3 DEF Rests
<1>6. CASE CountRows(v) \/ CountFails(v)
  <2>1. /\ UNCHANGED <<offset, promised, raced, op>> /\ failed \subseteq failed'
        /\ pc[v] = "count" /\ pc'[v] \in {"count", "answered", "refused"}
    BY <1>0, <1>6 DEF CountRows, CountFails, Answer, Step, CallFunctions, history
  <2>2. op[v] # "events"
    BY <1>0, <2>1, EachReport DEF CallStage
  <2>3. \A w \in Viewers \ {v} : pc'[w] = pc[w] /\ got'[w] = got[w]
    BY <1>0, <1>6 DEF CountRows, CountFails, Answer, Step, CallFunctions
  <2> QED
    BY <1>1, <1>4, <2>1, <2>2, <2>3 DEF Rests
<1>7. CASE AskEvents(v)
  <2>1. /\ pc[v] = "idle" /\ pc' = [pc EXCEPT ![v] = "total"] /\ op' = [op EXCEPT ![v] = "events"]
        /\ promised' = [promised EXCEPT ![v] = OwnEvents(v)]
        /\ UNCHANGED <<got, offset, failed, raced>>
    BY <1>7 DEF AskEvents, Step
  <2>2. OwnEvents(v) \subseteq events
    BY DEF OwnEvents
  <2>3. \A e \in OwnEvents(v) : 0 < Ahead(v, e)
    BY AheadBounds
  <2>4. pc'[v] = "total" /\ offset'[v] = 0 /\ promised'[v] = OwnEvents(v)
    BY <1>0, <2>1 DEF CallFunctions, WalkTypes, Walking
  <2>5. Walking(v)'
    BY <1>2, <1>3, <2>3, <2>4 DEF Walking
  <2>6. WalkTypes'
    BY <1>0, <1>1, <2>1, <2>2 DEF WalkTypes
  <2> QED
    BY <1>0, <1>1, <2>1, <2>5, <2>6 DEF Rests, CallFunctions, WalkTypes
<1>8. CASE CountEvents(v)
  <2>1. /\ pc[v] = "total" /\ pc' = [pc EXCEPT ![v] = "select"]
        /\ UNCHANGED <<op, offset, promised>> /\ raced' = raced \ {v} /\ failed \subseteq failed'
        /\ \/ got' = [got EXCEPT ![v] = <<Cardinality(OwnEvents(v))>>]
           \/ got' = [got EXCEPT ![v] = <<0>>] /\ v \in failed'
    BY <1>8 DEF CountEvents, Step
  <2>2. pc'[v] = "select" /\ (v \notin failed' => got'[v] = <<Cardinality(OwnEvents(v))>>)
    BY <1>0, <2>1 DEF CallFunctions
  <2>3. Walking(v)'
    BY <1>0, <1>1, <1>2, <1>3, <2>1, <2>2 DEF Walking
  <2>4. WalkTypes'
    BY <1>0, <1>1, <2>1 DEF WalkTypes
  <2> QED
    BY <1>0, <1>1, <2>1, <2>3, <2>4 DEF Rests, CallFunctions
<1>9. CASE SelectFails(v)
  <2>1. /\ UNCHANGED <<op, got, promised, raced>> /\ failed \subseteq failed'
        /\ \/ pc' = [pc EXCEPT ![v] = "refused"] /\ UNCHANGED offset
           \/ /\ v \in failed'
              /\ \E to \in {"total", "answered"} : pc' = [pc EXCEPT ![v] = to]
              /\ \E n \in Nat : offset' = [offset EXCEPT ![v] = n]
    BY <1>2, <1>9 DEF SelectFails, Step, history
  <2>2. Walking(v)'
    BY <1>0, <1>1, <1>2, <2>1 DEF Walking, CallFunctions
  <2>3. WalkTypes'
    BY <1>0, <1>1, <2>1 DEF WalkTypes
  <2> QED
    BY <1>0, <1>1, <2>1, <2>2, <2>3 DEF Rests, CallFunctions, WalkTypes
<1> QED
  BY <1>5, <1>6, <1>7, <1>8, <1>9, Zenon

(* Every step keeps what is known of every walk.                            *)
LEMMA WalksNext == Types /\ EventTypes /\ EventTypes' /\ Walks /\ [Next]_vars => Walks'
<1> SUFFICES ASSUME Types, EventTypes, EventTypes', Walks, [Next]_vars PROVE Walks'
  OBVIOUS
<1>1. ASSUME WalkTypes', \A v \in Viewers : Rests(v) \/ Walking(v)' PROVE Walks'
  <2>1. ASSUME NEW v \in Viewers PROVE Walking(v)'
    <3>1. Walking(v) /\ offset[v] \in Nat
      BY DEF Walks, WalkTypes
    <3> QED
      BY <1>1, <3>1, WalkRests
  <2> QED
    BY <1>1, <2>1 DEF Walks
<1>2. ASSUME \/ \E r \in Requests : LogTransaction(r) \/ LogEvent(r) \/ StoreEvent(r) \/ GrowOld(r)
             \/ MinutePasses \/ UNCHANGED vars
      PROVE  Walks'
  <2>1. UNCHANGED reader /\ UNCHANGED <<promised, failed>> /\ raced \subseteq raced'
    BY <1>2 DEF LogTransaction, LogEvent, StoreEvent, GrowOld, MinutePasses, vars, history
  <2>2. \A v \in Viewers : Rests(v)
    BY <2>1 DEF Rests, reader
  <2>3. WalkTypes'
    BY <2>1, EventsCome DEF Walks, WalkTypes, reader
  <2> QED
    BY <1>1, <2>2, <2>3
<1>3. ASSUME NEW v \in Viewers, WalkTypes', Walking(v)', \A w \in Viewers \ {v} : Rests(w)
      PROVE  Walks'
  BY <1>1, <1>3
<1>4. ASSUME NEW v \in Viewers,
             \/ AskReport(v) \/ CheckRate(v) \/ UpdateRate(v) \/ CountRows(v) \/ CountFails(v)
             \/ AskTransactions(v) \/ GetTransactions(v)
             \/ AskEvents(v) \/ CountEvents(v) \/ SelectFails(v)
      PROVE  Walks'
  BY <1>3, <1>4, WalkSteps
<1>5. ASSUME NEW v \in Viewers, SelectEvents(v) PROVE Walks'
  BY <1>3, <1>5, WalkSelects
<1> QED
  BY <1>2, <1>4, <1>5, Zenon DEF Next

(* What is known of the walks holds at all times.                           *)
LEMMA WalkInvariance == Spec => [](Types /\ EventTypes /\ Walks)
<1>1. Init => Types /\ EventTypes /\ Walks
  BY TypesInit, EventTypesInit, WalksInit
<1>2. Types /\ EventTypes /\ Walks /\ [Next]_vars => (Types /\ EventTypes /\ Walks)'
  BY TypesNext, EventTypesNext, WalksNext
<1> QED
  BY <1>1, <1>2, PTL DEF Spec

(* A client that follows has_more to the end has seen every event of its    *)
(* organization that was there when it began and shares its timestamp with  *)
(* no other, whatever came since and however each page orders the others,   *)
(* unless a statement failed or an event came between the COUNT and the     *)
(* SELECT of the last page (events_api.go 206-273).                         *)
THEOREM WalkIsComplete == Spec => []WalkComplete
<1>1. Types /\ EventTypes /\ Walks => WalkComplete
  BY DEF Walks, Walking, WalkComplete, Answered
<1> QED
  BY <1>1, WalkInvariance, PTL
-------------------------------------------------------------------------------
(* The tallies of a call count rows, each of them once.                     *)
Tallies ==
  \A v \in Viewers : added[v] <= Cardinality(transactions) /\ aged[v] <= Cardinality(old)

(* There are no more rows than requests.                                    *)
LEMMA RowsAreFinite ==
  ASSUME RowTypes
  PROVE  /\ IsFiniteSet(transactions) /\ IsFiniteSet(old)
         /\ Cardinality(transactions) \in Nat /\ Cardinality(old) \in Nat
         /\ Cardinality(transactions) <= Cardinality(Requests)
         /\ Cardinality(old) <= Cardinality(Requests) /\ Cardinality(Requests) \in Nat
<1>1. transactions \in SUBSET Requests /\ old \in SUBSET Requests
  BY DEF RowTypes
<1> QED
  BY <1>1, Finite, Fewer

(* Every step keeps the totals within the number of requests.               *)
LEMMA TalliesNext == Types /\ Tallies /\ [Next]_vars => Tallies'
<1> SUFFICES ASSUME RowTypes, CallFunctions, Tallies, [Next]_vars PROVE Tallies'
  BY DEF Types, CallTypes
<1>0. /\ IsFiniteSet(transactions) /\ IsFiniteSet(old)
      /\ Cardinality(transactions) \in Nat /\ Cardinality(old) \in Nat
      /\ \A v \in Viewers : added[v] \in Nat /\ aged[v] \in Nat
  BY RowsAreFinite DEF CallFunctions
<1>1. ASSUME NEW r \in Requests, LogTransaction(r) PROVE Tallies'
  <2>1. UNCHANGED <<old, aged>> /\ wpc[r] = "log"
    BY <1>1 DEF LogTransaction, Goto
  <2>2. CASE UNCHANGED <<transactions, added>>
    BY <2>1, <2>2 DEF Tallies
  <2>3. CASE /\ transactions' = transactions \cup {r}
             /\ added' = [v \in Viewers |->
                  IF Concerns(v, outcome'[r]) /\ Reading(v) THEN added[v] + 1 ELSE added[v]]
    <3>1. r \notin transactions
      BY <2>1 DEF RowTypes
    <3>2. Cardinality(transactions') = Cardinality(transactions) + 1
      BY <1>0, <2>3, <3>1, FS_AddElement
    <3>3. \A v \in Viewers : added'[v] \in {added[v], added[v] + 1}
      BY <2>3
    <3> QED
      BY <1>0, <2>1, <3>2, <3>3 DEF Tallies
  <2> QED
    BY <1>1, <2>2, <2>3 DEF LogTransaction
<1>2. ASSUME NEW r \in Requests, GrowOld(r) PROVE Tallies'
  <2>1. /\ UNCHANGED <<transactions, added>> /\ r \notin old /\ old' = old \cup {r}
        /\ \A v \in Viewers : aged'[v] \in {aged[v], aged[v] + 1}
    BY <1>2 DEF GrowOld
  <2>2. Cardinality(old') = Cardinality(old) + 1
    BY <1>0, <2>1, FS_AddElement
  <2> QED
    BY <1>0, <2>1, <2>2 DEF Tallies
<1>3. ASSUME UNCHANGED <<transactions, old, added, aged>> PROVE Tallies'
  BY <1>3 DEF Tallies
<1>4. ASSUME NEW r \in Requests, LogEvent(r) \/ StoreEvent(r)
      PROVE  UNCHANGED <<transactions, old, added, aged>>
  BY <1>4 DEF LogEvent, StoreEvent, history
<1>5. ASSUME NEW v \in Viewers, AskReport(v) \/ CheckRate(v) \/ UpdateRate(v) \/ CountRows(v)
             \/ CountFails(v) \/ AskTransactions(v) \/ GetTransactions(v)
      PROVE  UNCHANGED <<transactions, old, added, aged>>
  BY <1>5 DEF AskReport, CheckRate, UpdateRate, CountRows, CountFails, Answer, AskTransactions,
              GetTransactions, rows, history
<1>6. ASSUME NEW v \in Viewers, AskEvents(v) \/ CountEvents(v) \/ SelectEvents(v) \/ SelectFails(v)
      PROVE  UNCHANGED <<transactions, old, added, aged>>
  BY <1>6 DEF AskEvents, CountEvents, SelectEvents, SelectFails, rows, history
<1>7. CASE UNCHANGED vars \/ MinutePasses
  BY <1>3, <1>7 DEF vars, MinutePasses, rows, history
<1> QED
  BY <1>1, <1>2, <1>3, <1>4, <1>5, <1>6, <1>7, Zenon DEF Next
-------------------------------------------------------------------------------
(* What the calls have counted is at most the number of requests, and they  *)
(* have made four statements at most.                                       *)
Tallied ==
  /\ got \in [Viewers -> Seq(Counts)] /\ \A v \in Viewers : Len(got[v]) <= 4
  /\ rate.org \in Organizations \cup {"none"} /\ rate.count \in Counts /\ due \in BOOLEAN
  /\ failed \subseteq Viewers /\ raced \subseteq Viewers

(* No report has more than four statements.                                 *)
LEMMA ReportsShort ==
  ASSUME NEW o \in DOMAIN Reports
  PROVE  Len(Reports[o]) <= 4 /\ Len(Reports[o]) \in Nat
<1> USE DEF Reports, GetStatistics, handleStatTotalRequests, handleStatPIIProtected,
            handleStatBlockedRequests, handleSuccessRate, handleProtectionSummary,
            handleLiveStats, handleStatAvgLatency, handleTopProviders, handleRecentActivity
<1>1. CASE o = "statistics"
  BY <1>1
<1>2. CASE o \in {"requests", "protected", "blocked", "latency"}
  <2>1. Len(Reports[o]) = 2
    BY <1>2
  <2> HIDE DEF Reports
  <2> QED
    BY <2>1
<1>3. CASE o \in {"success", "summary", "live"}
  <2>1. PICK n \in {2, 3} : Len(Reports[o]) = n
    BY <1>3
  <2> HIDE DEF Reports
  <2> QED
    BY <2>1
<1>4. CASE o \in {"providers", "activity"}
  <2>1. Reports[o] = << <<"recent", "all">> >>
    BY <1>4
  <2> HIDE DEF Reports
  <2>2. Len(Reports[o]) = 1
    BY <2>1
  <2> QED
    BY <2>2
<1> HIDE DEF Reports
<1>5. o \in {"statistics", "requests", "protected", "blocked", "success", "summary", "live",
            "latency", "providers", "activity"}
  BY EachReport
<1> QED
  BY <1>1, <1>2, <1>3, <1>4, <1>5, Zenon

(* A COUNT gives at most the number of requests.                            *)
LEMMA CountsInRange ==
  ASSUME RowTypes, EventTypes, NEW v \in Viewers
  PROVE  /\ \A q : CountOf(v, q) \in Counts
         /\ Cardinality(OwnEvents(v)) \in Counts /\ 0 \in Counts
         /\ Cardinality(OwnRows(v)) \in Counts
<1>0. Cardinality(Requests) \in Nat
  BY RowsAreFinite
<1>1. OwnRows(v) \in SUBSET Requests
  BY DEF OwnRows, RowTypes
<1>2. ASSUME NEW q PROVE CountOf(v, q) \in Counts
  <2>1. OwnRows(v) \cap Window(q[1]) \cap Kind(q[2]) \in SUBSET Requests
    BY <1>1
  <2> QED
    BY <1>0, <2>1, Fewer DEF CountOf, Counts
<1>3. Cardinality(OwnEvents(v)) \in Counts
  <2>1. /\ OwnEvents(v) \in SUBSET [by : Requests, at : Nat]
        /\ \A e \in OwnEvents(v) : e.at = stamp[e.by]
    BY DEF OwnEvents, EventTypes
  <2> QED
    BY <1>0, <2>1, EventsBounded DEF Counts
<1>4. Cardinality(OwnRows(v)) \in Counts
  BY <1>0, <1>1, Fewer DEF Counts
<1> QED
  BY <1>0, <1>2, <1>3, <1>4 DEF Counts

(* Nothing is counted at first.                                             *)
LEMMA TalliedInit == Init => Tallied
<1> SUFFICES ASSUME Init PROVE Tallied
  OBVIOUS
<1>1. 0 \in Counts
  BY AuditAssumption, FS_CardinalityType DEF Counts
<1>2. <<>> \in Seq(Counts) /\ Len(<<>>) <= 4
  OBVIOUS
<1>3. got \in [Viewers -> Seq(Counts)] /\ \A v \in Viewers : Len(got[v]) <= 4
  BY <1>2, Zenon DEF Init
<1> QED
  BY <1>1, <1>3 DEF Init, Tallied, NoRate

(* A call may add one count to its own.                                     *)
LEMMA TalliedMore ==
  ASSUME Tallied, NEW v \in Viewers, NEW n \in Counts, Len(got[v]) < 4,
         got' = [got EXCEPT ![v] = Append(got[v], n)],
         UNCHANGED <<rate, due, raced>>, failed' \subseteq Viewers
  PROVE  Tallied'
<1>1. got[v] \in Seq(Counts) /\ Len(got[v]) \in Nat
  BY DEF Tallied
<1>2. Append(got[v], n) \in Seq(Counts) /\ Len(Append(got[v], n)) = Len(got[v]) + 1
  BY <1>1
<1>3. got' \in [Viewers -> Seq(Counts)]
  BY <1>2 DEF Tallied
<1>4. \A w \in Viewers : Len(got'[w]) <= 4
  BY <1>1, <1>2 DEF Tallied
<1> QED
  BY <1>3, <1>4 DEF Tallied

(* Or have one alone.                                                       *)
LEMMA TalliedOne ==
  ASSUME Tallied, NEW v \in Viewers, NEW n \in Counts,
         got' = [got EXCEPT ![v] = <<n>>],
         UNCHANGED <<rate, due>>, failed' \subseteq Viewers, raced' \subseteq Viewers
  PROVE  Tallied'
<1>1. <<n>> \in Seq(Counts) /\ Len(<<n>>) = 1
  OBVIOUS
<1>2. got' \in [Viewers -> Seq(Counts)]
  BY <1>1 DEF Tallied
<1>3. \A w \in Viewers : Len(got'[w]) <= 4
  BY <1>1 DEF Tallied
<1> QED
  BY <1>2, <1>3 DEF Tallied

(* Every step keeps the counts of the calls within the number of requests.  *)
LEMMA TalliedNext == Types /\ EventTypes /\ Tallied /\ [Next]_vars => Tallied'
<1> SUFFICES ASSUME RowTypes, CallTypes, EventTypes, Tallied, [Next]_vars PROVE Tallied'
  BY DEF Types
<1>1. ASSUME UNCHANGED <<got, rate, due>>, failed' \subseteq Viewers, raced' \subseteq Viewers
      PROVE  Tallied'
  BY <1>1 DEF Tallied
<1>2. ASSUME \/ \E r \in Requests : LogTransaction(r) \/ LogEvent(r) \/ StoreEvent(r) \/ GrowOld(r)
             \/ UNCHANGED vars
      PROVE  Tallied'
  <2>1. UNCHANGED reader /\ UNCHANGED gauge /\ failed' = failed /\ raced' \subseteq Viewers
    BY <1>2 DEF LogTransaction, LogEvent, StoreEvent, GrowOld, vars, history, Tallied
  <2> QED
    BY <1>1, <2>1 DEF reader, gauge, Tallied
<1>3. CASE MinutePasses
  BY <1>3 DEF MinutePasses, reader, history, Tallied
<1>4. ASSUME NEW v \in Viewers, AskReport(v) \/ CheckRate(v) \/ AskTransactions(v)
             \/ AskEvents(v) \/ SelectEvents(v) \/ SelectFails(v)
      PROVE  Tallied'
  <2>1. UNCHANGED <<got, rate, due>> /\ failed' \subseteq Viewers /\ raced' = raced
    BY <1>4 DEF AskReport, CheckRate, AskTransactions, AskEvents, SelectEvents, SelectFails,
                gauge, history, Tallied
  <2> QED
    BY <1>1, <2>1 DEF Tallied
<1>5. ASSUME NEW v \in Viewers, UpdateRate(v) PROVE Tallied'
  <2>1. CountOf(v, <<"recent", "all">>) \in Counts /\ OrgOf[v] \in Organizations
    BY CountsInRange, AuditAssumption
  <2> QED
    BY <1>5, <2>1 DEF UpdateRate, history, Tallied
<1>6. ASSUME NEW v \in Viewers, NEW n \in Counts, pc[v] = "count", Answer(v, n),
             failed' \subseteq Viewers
      PROVE  Tallied'
  <2>1. op[v] \in DOMAIN Reports /\ Len(got[v]) < Len(Reports[op[v]])
    BY <1>6 DEF CallTypes, CallStage
  <2>2. Len(got[v]) < 4
    <3>1. Len(got[v]) \in Nat
      BY DEF Tallied
    <3> QED
      BY <2>1, <3>1, ReportsShort
  <2> QED
    BY <1>6, <2>2, TalliedMore DEF Answer, gauge
<1>7. ASSUME NEW v \in Viewers, CountRows(v) \/ CountFails(v) PROVE Tallied'
  <2>1. CASE CountRows(v)
    <3>1. CountOf(v, Reports[op[v]][Len(got[v]) + 1]) \in Counts
      BY CountsInRange
    <3> QED
      BY <1>6, <2>1, <3>1 DEF CountRows, Tallied
  <2>2. CASE Step(v, "count", "refused") /\ UNCHANGED got /\ UNCHANGED gauge /\ UNCHANGED history
    BY <1>1, <2>2 DEF gauge, history, Tallied
  <2>3. CASE pc[v] = "count" /\ Answer(v, 0) /\ failed' = failed \cup {v}
    BY <1>6, <2>3, CountsInRange DEF Tallied
  <2> QED
    BY <1>7, <2>1, <2>2, <2>3 DEF CountFails
<1>8. ASSUME NEW v \in Viewers, GetTransactions(v) PROVE Tallied'
  <2> DEFINE n == IF Cardinality(OwnRows(v)) < Limit THEN Cardinality(OwnRows(v)) ELSE Limit
  <2>1. n \in Counts
    BY CountsInRange, RowsAreFinite, AuditAssumption DEF Counts
  <2>2. /\ got' = [got EXCEPT ![v] = <<n>>] \/ got' = got
        /\ UNCHANGED gauge /\ UNCHANGED history
    BY <1>8 DEF GetTransactions
  <2> HIDE DEF n
  <2>3. UNCHANGED <<rate, due>> /\ failed' \subseteq Viewers /\ raced' \subseteq Viewers
    BY <2>2 DEF gauge, history, Tallied
  <2> QED
    BY <1>1, <2>1, <2>2, <2>3, TalliedOne
<1>9. ASSUME NEW v \in Viewers, CountEvents(v) PROVE Tallied'
  <2>1. /\ \E n \in Counts : got' = [got EXCEPT ![v] = <<n>>]
        /\ UNCHANGED gauge /\ raced' \subseteq Viewers /\ failed' \subseteq Viewers
    BY <1>9, CountsInRange DEF CountEvents, Tallied
  <2> QED
    BY <2>1, TalliedOne DEF gauge
<1> QED
  BY <1>2, <1>3, <1>4, <1>5, <1>7, <1>8, <1>9, Zenon DEF Next
-------------------------------------------------------------------------------
AuditIInv == IInv /\ EventTypes /\ Walks /\ Tallies /\ Tallied

(* The whole invariant holds at all times.                                  *)
LEMMA AuditInvariance == Spec => []AuditIInv
<1>1. Init => AuditIInv
  <2>1. Init => Tallies
    BY FS_EmptySet DEF Init, Tallies
  <2> QED
    BY <2>1, IInvInit, EventTypesInit, WalksInit, TalliedInit DEF AuditIInv
<1>2. AuditIInv /\ [Next]_vars => AuditIInv'
  BY IInvNext, EventTypesNext, WalksNext, TalliesNext, TalliedNext DEF AuditIInv, IInv
<1> QED
  BY <1>1, <1>2, PTL DEF Spec

(* The invariant has the type invariant of the model in it.                 *)
LEMMA AuditTypes == AuditIInv => TypeOK
<1> SUFFICES ASSUME AuditIInv PROVE TypeOK
  OBVIOUS
<1>0. RowTypes /\ CallFunctions /\ EventTypes /\ WalkTypes /\ Tallies /\ Tallied
  BY DEF AuditIInv, IInv, Types, CallTypes, Walks
<1>1. Cardinality(Requests) \in Nat
  BY <1>0, RowsAreFinite
<1>2. clock \in Counts /\ stamp \in [Requests -> Counts]
  <2>1. Stamped \in SUBSET Requests
    BY DEF Stamped
  <2>2. clock \in Nat /\ clock <= Cardinality(Requests)
    BY <1>0, <2>1, Fewer DEF EventTypes
  <2>3. \A r \in Requests : stamp[r] \in Counts
    BY <1>0, <1>1, <2>2 DEF EventTypes, Counts
  <2> QED
    BY <1>0, <1>1, <2>2, <2>3 DEF EventTypes, Counts
<1>3. events \subseteq Events
  <2>1. \A e \in events : e \in [by : Requests, at : Nat] /\ e.at \in Counts
    BY <1>0, <1>1, <1>2 DEF EventTypes, Counts
  <2> QED
    BY <2>1 DEF Events
<1>4. seen \in [Viewers -> SUBSET Events] /\ offset \in [Viewers -> Nat]
  BY <1>0, <1>3 DEF WalkTypes
<1>5. added \in [Viewers -> Counts] /\ aged \in [Viewers -> Counts]
  <2>1. \A v \in Viewers : added[v] \in Counts /\ aged[v] \in Counts
    BY <1>0, RowsAreFinite DEF Tallies, CallFunctions, Counts
  <2> QED
    BY <1>0, <2>1 DEF CallFunctions
<1>6. got \in [Viewers -> UNION {[1..n -> Counts] : n \in 0..4}]
  <2>1. ASSUME NEW v \in Viewers PROVE got[v] \in UNION {[1..n -> Counts] : n \in 0..4}
    <3>1. got[v] \in Seq(Counts) /\ Len(got[v]) <= 4
      BY <1>0 DEF Tallied
    <3>2. got[v] \in [1..Len(got[v]) -> Counts] /\ Len(got[v]) \in Nat
      BY <3>1
    <3>3. PICK n \in Nat : n = Len(got[v])
      BY <3>2
    <3>4. n <= 4
      BY <3>1, <3>3
    <3>5. n \in 0..4
      BY <3>4
    <3> QED
      BY <3>2, <3>3, <3>5
  <2> QED
    BY <1>0, <2>1 DEF Tallied
<1> QED
  BY <1>0, <1>2, <1>3, <1>4, <1>5, <1>6 DEF TypeOK, RowTypes, CallFunctions, Tallied

(* All that the run checks of the rows, the reports and the walks, for any  *)
(* finite number of requests and any number of calls beside each other.     *)
THEOREM AuditInvariant == Spec => []Inv
<1>1. AuditIInv => WalkComplete
  BY DEF AuditIInv, Walks, Walking, WalkComplete, Answered
<1>2. AuditIInv => Inv
  BY <1>1, AuditTypes, StatisticsFollow, WidgetsFollow DEF AuditIInv, Inv
<1> QED
  BY <1>2, AuditInvariance, PTL
===============================================================================
