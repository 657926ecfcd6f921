--------------------------------- MODULE Audit ---------------------------------
(***************************************************************************)
(* The audit log and what is read from it: pkg/audit/logger.go,            *)
(* events_api.go, api_handlers.go and dashboard_handlers.go.  The proxy    *)
(* adds rows while a call of the API is between two of its statements:     *)
(* a report is several COUNTs, none in a transaction, and a page of events *)
(* is a COUNT and a SELECT.  A row is known by its request.                *)
(***************************************************************************)
EXTENDS Naturals, Sequences, FiniteSets

CONSTANTS
  Requests,       \* proxied requests
  Viewers,        \* calls of the API, each used once
  Organizations,
  OrgOf,          \* the organization of a call
  Limit           \* the page size of a walk over the protection events

ASSUME AuditAssumption ==
  /\ IsFiniteSet(Requests) /\ Limit \in Nat \ {0}
  /\ OrgOf \in [Viewers -> Organizations]

VARIABLES
  transactions,   \* rows of transactions
  old,            \* requests whose row has left the window the widgets look at
  events,         \* rows of events, each with its timestamp
  clock,          \* the time, in timestamps given
  wpc, outcome,   \* each request: its progress, and what the proxy has to log
  stamp,          \* the timestamp of its event
  pc, op,         \* each call
  got,            \* the counts it has so far
  offset, seen,   \* a walk: where it is, and the events it was shown
  rate,           \* currentRPS: whose rows were counted, and how many
  due,            \* a minute has passed since lastUpdateTime
  shown,          \* the rate in the answer
  \* history, of each call
  added, aged,    \* rows of its organization that came, or grew old, meanwhile
  failed,         \* a statement of it failed, and it went on
  promised,       \* events that were there when its walk began
  raced           \* one came between the COUNT and the SELECT of this page

rows    == <<transactions, old, events, clock>>
writer  == <<wpc, outcome, stamp>>
reader  == <<pc, op, got, offset, seen, shown>>
gauge   == <<rate, due>>
history == <<added, aged, failed, promised, raced>>
vars    == <<rows, writer, reader, gauge, history>>

(* What the proxy logs, for the organization of the request's API key: a    *)
(* blocked request has redactions, any other may, one the provider did not  *)
(* take among them.                                                         *)
Outcomes ==
  {o \in [org : Organizations, status : {"success", "blocked", "error"}, redacted : BOOLEAN] :
     o.status = "blocked" => o.redacted}

Unknown == [org |-> "none", status |-> "none", redacted |-> FALSE]

NoRate == [org |-> "none", count |-> 0]

Init ==
  /\ transactions = {} /\ old = {} /\ events = {} /\ clock = 0
  /\ wpc = [r \in Requests |-> "log"] /\ outcome = [r \in Requests |-> Unknown]
  /\ stamp = [r \in Requests |-> 0]
  /\ pc = [v \in Viewers |-> "idle"] /\ op = [v \in Viewers |-> "none"]
  /\ got = [v \in Viewers |-> <<>>]
  /\ offset = [v \in Viewers |-> 0] /\ seen = [v \in Viewers |-> {}]
  /\ rate = NoRate /\ due = FALSE /\ shown = [v \in Viewers |-> NoRate]
  /\ added = [v \in Viewers |-> 0] /\ aged = [v \in Viewers |-> 0] /\ failed = {}
  /\ promised = [v \in Viewers |-> {}] /\ raced = {}
-------------------------------------------------------------------------------
(* The proxy writes                                                        *)

Concerns(v, o) == o.org = OrgOf[v]

Reading(v) == pc[v] \notin {"idle", "answered", "refused"}

Goto(r, from, to) == wpc[r] = from /\ wpc' = [wpc EXCEPT ![r] = to]

(* Redactions make an event, unless the request failed.                     *)
MakesEvent(o) == o.redacted /\ o.status # "error"

(* LogTransaction: a failed INSERT is logged and no more.                   *)
LogTransaction(r) ==
  /\ outcome' \in {[outcome EXCEPT ![r] = o] : o \in Outcomes}
  /\ Goto(r, "log", IF MakesEvent(outcome'[r]) THEN "event" ELSE "done")
  /\ \/ /\ transactions' = transactions \cup {r}
        /\ added' = [v \in Viewers |->
             IF Concerns(v, outcome'[r]) /\ Reading(v) THEN added[v] + 1 ELSE added[v]]
     \/ UNCHANGED <<transactions, added>>
  /\ UNCHANGED <<old, events, clock, stamp, reader, gauge, aged, failed, promised, raced>>

(* LogEvent takes the time, of which the table keeps microseconds: it may be *)
(* that of the event before.  storeEvent inserts the row.                   *)
LogEvent(r) ==
  /\ Goto(r, "event", "store")
  /\ clock' \in {clock, clock + 1} /\ stamp' = [stamp EXCEPT ![r] = clock']
  /\ UNCHANGED <<transactions, old, events, outcome, reader, gauge, history>>

StoreEvent(r) ==
  /\ Goto(r, "store", "done")
  /\ \/ /\ events' = events \cup {[by |-> r, at |-> stamp[r]]}
        /\ raced' = raced \cup {v \in Viewers : Concerns(v, outcome[r]) /\ pc[v] = "select"}
     \/ UNCHANGED <<events, raced>>
  /\ UNCHANGED <<transactions, old, clock, outcome, stamp, reader, gauge, added, aged,
                 failed, promised>>

(* A row leaves the window: 5 minutes, a day, or today.                     *)
GrowOld(r) ==
  /\ r \in transactions \ old /\ old' = old \cup {r}
  /\ aged' = [v \in Viewers |->
       IF Concerns(v, outcome[r]) /\ Reading(v) THEN aged[v] + 1 ELSE aged[v]]
  /\ UNCHANGED <<transactions, events, clock, writer, reader, gauge, added, failed,
                 promised, raced>>

MinutePasses ==
  /\ ~due /\ due' = TRUE
  /\ UNCHANGED <<rows, writer, reader, rate, history>>
-------------------------------------------------------------------------------
(* The reports: their COUNTs in the order of the code, each of a window     *)
(* and of a kind of rows                                                    *)

GetStatistics ==
  <<<<"ever", "all">>, <<"ever", "success">>, <<"ever", "blocked">>, <<"ever", "redacted">>>>

(* Mutant: the earlier period has no end.                                   *)
handleStatTotalRequestsOpen == <<<<"recent", "all">>, <<"ever", "all">>>>

handleStatTotalRequests == <<<<"recent", "all">>, <<"earlier", "all">>>>

handleStatPIIProtected == <<<<"recent", "redacted">>, <<"earlier", "redacted">>>>

handleStatBlockedRequests == <<<<"recent", "blocked">>, <<"earlier", "blocked">>>>

handleSuccessRate ==
  <<<<"recent", "all">>, <<"recent", "success">>, <<"recent", "redacted">>>>

handleProtectionSummary ==
  <<<<"recent", "redacted">>, <<"recent", "blocked">>, <<"recent", "all">>>>

handleLiveStats == <<<<"recent", "failure">>, <<"recent", "all">>>>

(* No row has a processing time.                                            *)
handleStatAvgLatency == <<<<"recent", "timed">>, <<"earlier", "timed">>>>

(* One statement: the rows by provider, and by hour.                        *)
handleTopProviders == <<<<"recent", "all">>>>

handleRecentActivity == <<<<"recent", "all">>>>

Reports ==
  [statistics |-> GetStatistics, requests |-> handleStatTotalRequests,
   protected |-> handleStatPIIProtected, blocked |-> handleStatBlockedRequests,
   success |-> handleSuccessRate, summary |-> handleProtectionSummary,
   live |-> handleLiveStats, latency |-> handleStatAvgLatency,
   providers |-> handleTopProviders, activity |-> handleRecentActivity]

Cards == {"requests", "protected", "blocked"}

Window(w) == CASE w = "ever"    -> Requests
               [] w = "recent"  -> Requests \ old
               [] w = "earlier" -> old

Kind(k) ==
  {r \in Requests :
     \/ k = "all"
     \/ k \in {"success", "blocked"} /\ outcome[r].status = k
     \/ k = "failure" /\ outcome[r].status # "success"
     \/ k = "redacted" /\ outcome[r].redacted}

(* Mutant: no statement is scoped to the organization.                      *)
OwnRowsOfAll(v) == transactions

(* WHERE organization_id = ?                                                *)
OwnRows(v) == {r \in transactions : Concerns(v, outcome[r])}

CountOf(v, q) == Cardinality(OwnRows(v) \cap Window(q[1]) \cap Kind(q[2]))
-------------------------------------------------------------------------------
Step(v, from, to) == pc[v] = from /\ pc' = [pc EXCEPT ![v] = to]

AskReport(v) ==
  /\ \E o \in DOMAIN Reports :
       /\ op' = [op EXCEPT ![v] = o]
       /\ Step(v, "idle", IF o = "live" THEN "rate" ELSE "count")
  /\ UNCHANGED <<rows, writer, got, offset, seen, shown, gauge, history>>

(* updateRequestRate looks at lastUpdateTime, counts the rows of the last   *)
(* minute, and stores the rate and the time, of all organizations in one    *)
(* place.                                                                   *)
CheckRate(v) ==
  /\ Step(v, "rate", IF due THEN "minute" ELSE "count")
  /\ UNCHANGED <<rows, writer, op, got, offset, seen, shown, gauge, history>>

UpdateRate(v) ==
  /\ Step(v, "minute", "count")
  /\ rate' = [org |-> OrgOf[v], count |-> CountOf(v, <<"recent", "all">>)] /\ due' = FALSE
  /\ UNCHANGED <<rows, writer, op, got, offset, seen, shown, history>>

(* The next COUNT; after the last one the report is answered.               *)
Answer(v, n) ==
  /\ got' = [got EXCEPT ![v] = Append(@, n)]
  /\ Step(v, "count", IF Len(got'[v]) = Len(Reports[op[v]]) THEN "answered" ELSE "count")
  /\ shown' = IF pc'[v] = "answered" /\ op[v] = "live" THEN [shown EXCEPT ![v] = rate]
                                                       ELSE shown
  /\ UNCHANGED <<rows, writer, op, offset, seen, gauge, added, aged, promised, raced>>

CountRows(v) ==
  /\ pc[v] = "count" /\ Answer(v, CountOf(v, Reports[op[v]][Len(got[v]) + 1]))
  /\ UNCHANGED failed

(* GetStatistics gives up; a widget ignores the error and shows 0.          *)
CountFails(v) ==
  \/ /\ op[v] = "statistics" /\ Step(v, "count", "refused")
     /\ UNCHANGED <<rows, writer, op, got, offset, seen, shown, gauge, history>>
  \/ /\ op[v] # "statistics" /\ pc[v] = "count" /\ Answer(v, 0)
     /\ failed' = failed \cup {v}
-------------------------------------------------------------------------------
(* GetTransactions, a page of rows: its length is what it calls the total  *)

AskTransactions(v) ==
  /\ Step(v, "idle", "page")
  /\ op' = [op EXCEPT ![v] = "transactions"]
  /\ UNCHANGED <<rows, writer, got, offset, seen, shown, gauge, history>>

GetTransactions(v) ==
  /\ \/ Step(v, "page", "answered") /\ got' = [got EXCEPT ![v] =
          <<IF Cardinality(OwnRows(v)) < Limit THEN Cardinality(OwnRows(v)) ELSE Limit>>]
     \/ Step(v, "page", "refused") /\ UNCHANGED got
  /\ UNCHANGED <<rows, writer, op, offset, seen, shown, gauge, history>>

-------------------------------------------------------------------------------
(* GetEvents, for a client that asks for page after page                   *)

OwnEvents(v) == {e \in events : Concerns(v, outcome[e.by])}

AskEvents(v) ==
  /\ Step(v, "idle", "total")
  /\ op' = [op EXCEPT ![v] = "events"]
  /\ promised' = [promised EXCEPT ![v] = OwnEvents(v)]
  /\ UNCHANGED <<rows, writer, got, offset, seen, shown, gauge, added, aged, failed, raced>>

(* The total; an error leaves it 0.                                         *)
CountEvents(v) ==
  /\ Step(v, "total", "select")
  /\ raced' = raced \ {v}
  /\ \/ got' = [got EXCEPT ![v] = <<Cardinality(OwnEvents(v))>>] /\ UNCHANGED failed
     \/ got' = [got EXCEPT ![v] = <<0>>] /\ failed' = failed \cup {v}
  /\ UNCHANGED <<rows, writer, op, offset, seen, shown, gauge, added, aged, promised>>

(* The sets of n events that some ORDER BY timestamp DESC may put first, all *)
(* events if there are no more than n.                                      *)
Leading(v, n) ==
  {A \in SUBSET OwnEvents(v) :
     /\ \A e \in A, f \in OwnEvents(v) \ A : f.at <= e.at
     /\ IF n < Cardinality(OwnEvents(v)) THEN Cardinality(A) = n ELSE A = OwnEvents(v)}

(* LIMIT ? OFFSET ?  Nothing orders events of one timestamp, and each page  *)
(* may have them in an order of its own.                                    *)
Pages(v) ==
  {P \in SUBSET OwnEvents(v) :
     \E A \in Leading(v, offset[v]) :
       P \cap A = {} /\ A \cup P \in Leading(v, offset[v] + Limit)}

(* Mutant: compared to the last index, not the number of events.            *)
HasMoreButOne(v) == offset[v] + Limit + 1 < got[v][1]

HasMore(v) == offset[v] + Limit < got[v][1]

SelectEvents(v) ==
  /\ Step(v, "select", IF HasMore(v) THEN "total" ELSE "answered")
  /\ \E P \in Pages(v) : seen' = [seen EXCEPT ![v] = @ \cup P]
  /\ offset' = [offset EXCEPT ![v] = IF HasMore(v) THEN @ + Limit ELSE @]
  /\ UNCHANGED <<rows, writer, op, got, shown, gauge, history>>

(* The query fails, or the rows break off, which nobody asks rows.Err about: *)
(* the page is answered as if it were whole.                                *)
SelectFails(v) ==
  \/ /\ Step(v, "select", "refused")
     /\ UNCHANGED <<rows, writer, op, got, offset, seen, shown, gauge, history>>
  \/ /\ Step(v, "select", IF HasMore(v) THEN "total" ELSE "answered")
     /\ offset' = [offset EXCEPT ![v] = IF HasMore(v) THEN @ + Limit ELSE @]
     /\ failed' = failed \cup {v}
     /\ UNCHANGED <<rows, writer, op, got, seen, shown, gauge, added, aged, promised, raced>>

Next ==
  \/ \E r \in Requests : LogTransaction(r) \/ LogEvent(r) \/ StoreEvent(r) \/ GrowOld(r)
  \/ \E v \in Viewers :
       \/ AskReport(v) \/ CheckRate(v) \/ UpdateRate(v) \/ CountRows(v) \/ CountFails(v)
       \/ AskTransactions(v) \/ GetTransactions(v)
       \/ AskEvents(v) \/ CountEvents(v) \/ SelectEvents(v) \/ SelectFails(v)
  \/ MinutePasses

Spec == Init /\ [][Next]_vars
-------------------------------------------------------------------------------
Counts == 0..Cardinality(Requests)
Events == [by : Requests, at : Counts]

(* Types of the rows and of the calls.                                      *)
TypeOK ==
  /\ transactions \subseteq Requests /\ old \subseteq transactions /\ events \subseteq Events
  /\ clock \in Counts /\ wpc \in [Requests -> {"log", "event", "store", "done"}]
  /\ outcome \in [Requests -> Outcomes \cup {Unknown}] /\ stamp \in [Requests -> Counts]
  /\ pc \in [Viewers -> {"idle", "rate", "minute", "count", "page", "total", "select",
                         "answered", "refused"}]
  /\ op \in [Viewers -> {"none", "events", "transactions"} \cup DOMAIN Reports]
  /\ got \in [Viewers -> UNION {[1..n -> Counts] : n \in 0..4}]
  /\ offset \in [Viewers -> Nat] /\ seen \in [Viewers -> SUBSET Events]
  /\ rate.org \in Organizations \cup {"none"} /\ rate.count \in Counts /\ due \in BOOLEAN
  /\ added \in [Viewers -> Counts] /\ aged \in [Viewers -> Counts]
  /\ failed \subseteq Viewers /\ raced \subseteq Viewers

Answered(v, o) == pc[v] = "answered" /\ op[v] = o /\ v \notin failed

(* Successes and blocked requests exceed the total of the statistics by no  *)
(* more rows than came during the call, and only failed ones are missing    *)
(* (logger.go 284-309): its success rate is at most 100 % when nothing      *)
(* comes in.                                                                *)
StatisticsAddUp ==
  \A v \in Viewers :
    Answered(v, "statistics") =>
      /\ got[v][2] + got[v][3] <= got[v][1] + added[v]
      /\ got[v][4] <= got[v][1] + added[v]
      /\ got[v][1] <= got[v][2] + got[v][3]
                      + Cardinality({r \in OwnRows(v) : outcome[r].status = "error"})

(* Success and error rate of the widgets exceed 100 % by no more than what  *)
(* came, or left the window, between their statements (dashboard_handlers.go *)
(* 377-383, 536-541).                                                       *)
RatesBounded ==
  \A v \in Viewers :
    /\ Answered(v, "success") => got[v][2] <= got[v][1] + added[v]
    /\ Answered(v, "live") => got[v][1] <= got[v][2] + aged[v]

(* The summary counts a blocked request with redactions twice, and nothing  *)
(* else (dashboard_handlers.go 401-408).                                    *)
SummaryDoubles ==
  \A v \in Viewers :
    Answered(v, "summary") =>
      /\ got[v][1] <= got[v][3] + aged[v] /\ got[v][2] <= got[v][3] + aged[v]
      /\ got[v][1] + got[v][2] <= got[v][3] + aged[v]
           + Cardinality({r \in OwnRows(v) : outcome[r].status = "blocked" /\ outcome[r].redacted})

(* A card's two periods share the requests that moved from one to the other *)
(* between its statements, and no others (dashboard_handlers.go 290-293).   *)
PeriodsDisjoint ==
  \A v \in Viewers, o \in Cards :
    Answered(v, o) => got[v][1] + got[v][2] <= Cardinality(OwnRows(v)) + aged[v]

(* What the widgets show adds up but for what came, or left the window,     *)
(* between their statements.                                                *)
WidgetsAddUp == RatesBounded /\ SummaryDoubles /\ PeriodsDisjoint

(* Another event of the organization has the timestamp of e.                *)
Tied(v, e) == \E f \in OwnEvents(v) \ {e} : f.at = e.at

(* Who follows has_more to the end has seen every event there was at the    *)
(* beginning that shares its timestamp with no other, unless one came       *)
(* between the two statements of the last page (events_api.go 206-273).     *)
WalkComplete ==
  \A v \in Viewers : Answered(v, "events") /\ v \notin raced =>
    \A e \in promised[v] \ seen[v] : Tied(v, e)

(* "Add ordering and pagination" (events_api.go 210), said of the pages     *)
(* taken together: they show every event there was at the beginning, though *)
(* the ordering has nothing to tell two events of one timestamp apart.      *)
PagesShowAll ==
  \A v \in Viewers : Answered(v, "events") /\ v \notin raced => promised[v] \subseteq seen[v]

Inv ==
  TypeOK /\ StatisticsAddUp /\ WidgetsAddUp /\ WalkComplete

(* NEW_AUTH_SYSTEM.md 17 "All data access is automatically scoped to user's *)
(* organization": the rate shown was counted from rows of the viewer's      *)
(* organization.                                                            *)
RateIsOwn ==
  \A v \in Viewers : shown[v].org \in {"none", OrgOf[v]}
===============================================================================
