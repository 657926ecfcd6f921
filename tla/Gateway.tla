------------------------------- MODULE Gateway --------------------------------
(***************************************************************************)
(* The gateway process around the engine: HandleProxy from routing to the  *)
(* reply (pkg/interceptor/proxy.go), the rows it leaves in the audit       *)
(* database, its three unsynchronized counters, and how main.go stops.     *)
(* What ProcessContent does to a body is in module Anonymizer; here a body *)
(* is known by what it contains.                                           *)
(***************************************************************************)
EXTENDS Router

CONSTANTS
  Calls,         \* concurrent requests to HandleProxy
  Bodies,        \* subset of {"plain", "pii", "sensitive"}
  ProviderCodes, \* the HTTP codes providers answer with
  Nobody,        \* no provider
  NoAnswer,      \* no reply yet
  Unread         \* no counter value in a register

ASSUME SentinelsAssumption ==
  /\ Bodies \subseteq {"plain", "pii", "sensitive"}
  /\ Unread \notin Nat /\ NoAnswer \notin Nat /\ ProviderCodes \subseteq Nat
  /\ Nobody \notin Configured

ASSUME CallsAssumption == IsFiniteSet(Calls)

VARIABLES
  process,      \* "up", "stopping" or "down"
  strict,       \* NEREngine.strictMode
  counter,      \* totalRequests, blockedRequests, anonymizedRequests
  \* each request
  pc,
  req, body,    \* what came in
  provider,     \* request.Provider
  sent,         \* who got the modified request
  code,         \* resp.StatusCode
  outcome,      \* the status it logs
  load,         \* the counter value a ++ has read
  answer,       \* the code it was answered with
  \* the database
  rows,         \* transactions of each request, in order
  events,       \* security events of each request, in order
  lostRows, lostEvents   \* requests whose INSERT failed

service == <<process, strict>>
local   == <<req, body, provider, sent, code, outcome, load, answer>>
store   == <<rows, events, lostRows, lostEvents>>
vars    == <<router, service, counter, pc, local, store>>

Counters == {"total", "blocked", "anonymized"}

(* What comes first is local, then shared state in the order of the code.   *)
Stages == {"idle", "route", "process", "decide", "send", "waiting", "row",
           "event", "reply", "done"} \cup Counters

HasDetails(c) == body[c] # "plain"

(* The engine starts with strict mode off: nothing reads the environment    *)
(* variable STRICT_MODE.                                                    *)
Init ==
  /\ RouterInit
  /\ process = "up" /\ strict = FALSE
  /\ counter  = [k \in Counters |-> 0]
  /\ pc       = [c \in Calls |-> "idle"]
  /\ req      = [c \in Calls |-> NoAnswer]
  /\ body     = [c \in Calls |-> "plain"]
  /\ provider = [c \in Calls |-> Nobody]
  /\ sent     = [c \in Calls |-> Nobody]
  /\ code     = [c \in Calls |-> NoAnswer]
  /\ outcome  = [c \in Calls |-> "none"]
  /\ load     = [c \in Calls |-> Unread]
  /\ answer   = [c \in Calls |-> NoAnswer]
  /\ rows     = [c \in Calls |-> <<>>]
  /\ events   = [c \in Calls |-> <<>>]
  /\ lostRows = {} /\ lostEvents = {}

(* A handler runs while the process does.                                   *)
Goto(c, from, to) ==
  /\ process # "down"
  /\ pc[c] = from /\ pc' = [pc EXCEPT ![c] = to]

Ending(c, status) == outcome' = [outcome EXCEPT ![c] = status]

Answering(c, k) == answer' = [answer EXCEPT ![c] = k]

-------------------------------------------------------------------------------
(* HandleProxy                                                             *)

(* The server takes requests until the process is gone.                     *)
Receive(c) ==
  /\ Goto(c, "idle", "route")
  /\ \E r \in Requests, b \in Bodies :
       /\ req'  = [req EXCEPT ![c] = r]
       /\ body' = [body EXCEPT ![c] = b]
  /\ UNCHANGED <<router, service, counter, provider, sent, code, outcome, load, answer, store>>

Route(c) ==
  /\ Goto(c, "route", "process")
  /\ DetermineProvider(req[c]) # NoRoute
  /\ provider' = [provider EXCEPT ![c] = DetermineProvider(req[c])]
  /\ UNCHANGED <<router, service, counter, req, body, sent, code, outcome, load, answer, store>>

(* 400, and no row.                                                         *)
RouteFails(c) ==
  /\ Goto(c, "route", "done")
  /\ DetermineProvider(req[c]) = NoRoute
  /\ Answering(c, 400)
  /\ UNCHANGED <<router, service, counter, req, body, provider, sent, code, outcome, load, store>>

(* ner.ProcessContent, which returns no error.                              *)
Process(c) ==
  /\ Goto(c, "process", "decide")
  /\ UNCHANGED <<router, service, counter, local, store>>

(* Mutant: the blocked request is forwarded after its row is written.       *)
ShouldBlockOnlyLogs(c) ==
  /\ Goto(c, "decide", "blocked")
  /\ strict /\ body[c] = "sensitive"
  /\ sent' = [sent EXCEPT ![c] = provider[c]]
  /\ Ending(c, "blocked")
  /\ UNCHANGED <<router, service, counter, req, body, provider, code, load, answer, store>>

ShouldBlock(c) ==
  /\ Goto(c, "decide", "blocked")
  /\ strict /\ body[c] = "sensitive"
  /\ Ending(c, "blocked")
  /\ UNCHANGED <<router, service, counter, req, body, provider, sent, code, load, answer, store>>

ShouldNotBlock(c) ==
  /\ Goto(c, "decide", "send")
  /\ ~(strict /\ body[c] = "sensitive")
  /\ UNCHANGED <<router, service, counter, local, store>>

(* forwardRequest, to the URL that routing chose some time ago.             *)
Forward(c) ==
  /\ Goto(c, "send", "waiting")
  /\ sent' = [sent EXCEPT ![c] = provider[c]]
  /\ UNCHANGED <<router, service, counter, req, body, provider, code, outcome, load, answer, store>>

(* Mutant: a request that failed upstream is counted too.                   *)
UpstreamFailCounted(c) ==
  /\ Goto(c, "waiting", "total")
  /\ Ending(c, "error")
  /\ UNCHANGED <<router, service, counter, req, body, provider, sent, code, load, answer, store>>

(* No connection, or 30 seconds without an answer.                          *)
UpstreamFail(c) ==
  /\ Goto(c, "waiting", "row")
  /\ Ending(c, "error")
  /\ UNCHANGED <<router, service, counter, req, body, provider, sent, code, load, answer, store>>

(* io.ReadAll fails: 500, and no row.                                       *)
ReadFail(c) ==
  /\ Goto(c, "waiting", "done")
  /\ Answering(c, 500)
  /\ UNCHANGED <<router, service, counter, req, body, provider, sent, code, outcome, load, store>>

(* The reply is read and its tokens are restored, whatever its code says.   *)
UpstreamReply(c) ==
  /\ Goto(c, "waiting", "total")
  /\ \E k \in ProviderCodes : code' = [code EXCEPT ![c] = k]
  /\ Ending(c, "success")
  /\ UNCHANGED <<router, service, counter, req, body, provider, sent, load, answer, store>>

(* x++ on an int64 that nothing protects is a read and a write.             *)
ReadCounter(c) ==
  /\ process # "down" /\ pc[c] \in Counters /\ load[c] = Unread
  /\ load' = [load EXCEPT ![c] = counter[pc[c]]]
  /\ UNCHANGED <<router, service, counter, pc, req, body, provider, sent, code, outcome, answer, store>>

AfterCount(c) ==
  IF pc[c] = "total" /\ HasDetails(c) THEN "anonymized" ELSE "row"

WriteCounter(c) ==
  /\ pc[c] \in Counters /\ load[c] # Unread
  /\ Goto(c, pc[c], AfterCount(c))
  /\ counter' = [counter EXCEPT ![pc[c]] = load[c] + 1]
  /\ load' = [load EXCEPT ![c] = Unread]
  /\ UNCHANGED <<router, service, req, body, provider, sent, code, outcome, answer, store>>

(* audit.LogTransaction: an error takes the provider's place in the row, as *)
(* the reason of a block does.                                              *)
Row(c) ==
  [ status   |-> outcome[c],
    provider |-> IF outcome[c] = "success" THEN provider[c] ELSE Nobody,
    code     |-> IF outcome[c] = "success" THEN code[c] ELSE 0 ]

LogsEvent(c) == outcome[c] # "error" /\ HasDetails(c)

(* Mutant: no row for a request that nothing was redacted from.             *)
LogTransactionIfRedacted(c) ==
  /\ Goto(c, "row", IF LogsEvent(c) THEN "event" ELSE "reply")
  /\ IF HasDetails(c)
       THEN \/ rows' = [rows EXCEPT ![c] = Append(@, Row(c))] /\ UNCHANGED lostRows
            \/ lostRows' = lostRows \cup {c} /\ UNCHANGED rows
       ELSE UNCHANGED <<rows, lostRows>>
  /\ UNCHANGED <<router, service, counter, local, events, lostEvents>>

LogTransaction(c) ==
  /\ Goto(c, "row", IF LogsEvent(c) THEN "event" ELSE "reply")
  /\ \/ rows' = [rows EXCEPT ![c] = Append(@, Row(c))] /\ UNCHANGED lostRows
     \/ lostRows' = lostRows \cup {c} /\ UNCHANGED rows
  /\ UNCHANGED <<router, service, counter, local, events, lostEvents>>

(* audit.LogEvent: the INSERT fails on an error and on an id in use, which  *)
(* two events of one nanosecond share.                                      *)
LogEvent(c) ==
  /\ Goto(c, "event", "reply")
  /\ \/ /\ events' = [events EXCEPT ![c] =
               Append(@, IF outcome[c] = "blocked" THEN "request_blocked"
                                                   ELSE "pii_detected")]
        /\ UNCHANGED lostEvents
     \/ lostEvents' = lostEvents \cup {c} /\ UNCHANGED events
  /\ UNCHANGED <<router, service, counter, local, rows, lostRows>>

(* The code of the provider is passed on, be it 403, 500 or 502.            *)
ReplyCode(status, k) ==
  CASE status = "blocked" -> 403 [] status = "error" -> 502 [] OTHER -> k

Reply(c) ==
  /\ Goto(c, "reply", "done")
  /\ Answering(c, ReplyCode(outcome[c], code[c]))
  /\ UNCHANGED <<router, service, counter, req, body, provider, sent, code, outcome, load, store>>

-------------------------------------------------------------------------------
(* The process                                                             *)

SetStrictMode(b) ==
  /\ process # "down"
  /\ strict' = b
  /\ UNCHANGED <<router, process, counter, pc, local, store>>

(* "shutting down gracefully": the context that cancel() ends is nobody's.  *)
Signal ==
  /\ process = "up" /\ process' = "stopping"
  /\ UNCHANGED <<router, strict, counter, pc, local, store>>

(* main returns after 5 seconds.                                            *)
Exit ==
  /\ process = "stopping" /\ process' = "down"
  /\ UNCHANGED <<router, strict, counter, pc, local, store>>

(* log.Fatalf on errChan.                                                   *)
ServerError ==
  /\ process = "up" /\ process' = "down"
  /\ UNCHANGED <<router, strict, counter, pc, local, store>>

Administer ==
  /\ process # "down"
  /\ RouterNext
  /\ UNCHANGED <<service, counter, pc, local, store>>

(* What the handler of request c does by itself.                            *)
Handle(c) ==
  \/ Route(c) \/ RouteFails(c) \/ Process(c) \/ ShouldBlock(c) \/ ShouldNotBlock(c)
  \/ Forward(c) \/ UpstreamFail(c) \/ ReadFail(c) \/ UpstreamReply(c)
  \/ ReadCounter(c) \/ WriteCounter(c) \/ LogTransaction(c) \/ LogEvent(c) \/ Reply(c)

Next ==
  \/ \E c \in Calls : Receive(c) \/ Handle(c)
  \/ \E b \in BOOLEAN : SetStrictMode(b)
  \/ Signal \/ Exit \/ ServerError \/ Administer

Spec == Init /\ [][Next]_vars
-------------------------------------------------------------------------------
Outcomes == {"none", "blocked", "error", "success"}

(* Types of the requests and the counters, and of the database.             *)
RequestsTypeOK ==
  /\ counter \in [Counters -> Nat]
  /\ pc \in [Calls -> Stages]
  /\ req \in [Calls -> Requests \cup {NoAnswer}]
  /\ body \in [Calls -> Bodies \cup {"plain"}]
  /\ provider \in [Calls -> Configured \cup {Nobody}]
  /\ sent \in [Calls -> Configured \cup {Nobody}]
  /\ code \in [Calls -> ProviderCodes \cup {NoAnswer}]
  /\ outcome \in [Calls -> Outcomes]
  /\ load \in [Calls -> Nat \cup {Unread}]
  /\ answer \in [Calls -> {NoAnswer, 400, 403, 500, 502} \cup ProviderCodes]

Rows == [ status : Outcomes, provider : Configured \cup {Nobody},
          code : ProviderCodes \cup {0} ]

StoreTypeOK ==
  /\ rows \in [Calls -> Seq(Rows)]
  /\ events \in [Calls -> Seq({"request_blocked", "pii_detected"})]
  /\ lostRows \subseteq Calls /\ lostEvents \subseteq Calls

TypeOK ==
  /\ RouterTypeOK /\ RequestsTypeOK /\ StoreTypeOK
  /\ process \in {"up", "stopping", "down"} /\ strict \in BOOLEAN

Early == {"idle", "route", "process", "decide", "send"}

(* Parts of the inductive invariant: who has got the request, with what     *)
(* outcome, which row it has, and how it was answered, stage by stage.      *)
SentByStage(c) ==
  /\ pc[c] \in Early \cup {"blocked"} => sent[c] = Nobody
  /\ pc[c] \notin {"idle", "route", "done"} => provider[c] # Nobody
  /\ pc[c] = "waiting" => sent[c] = provider[c]
  /\ outcome[c] = "blocked" => sent[c] = Nobody
  /\ outcome[c] = "success" =>
       sent[c] = provider[c] /\ sent[c] # Nobody /\ code[c] \in ProviderCodes

OutcomeByStage(c) ==
  /\ pc[c] \in Early \cup {"waiting"} => outcome[c] = "none"
  /\ pc[c] = "blocked" => outcome[c] = "blocked"
  /\ pc[c] \in {"total", "anonymized"} => outcome[c] = "success"
  /\ pc[c] = "anonymized" => HasDetails(c)
  /\ pc[c] \in {"row", "event", "reply"} => outcome[c] # "none"
  /\ pc[c] = "event" => LogsEvent(c)

(* Past its row, past its event.                                            *)
PastRow(c)   == pc[c] \in {"event", "reply"} \/ (pc[c] = "done" /\ outcome[c] # "none")
PastEvent(c) == PastRow(c) /\ pc[c] # "event"

RowByStage(c) ==
  /\ rows[c] # <<>> => rows[c] = <<Row(c)>> /\ PastRow(c)
  /\ events[c] # <<>> => LogsEvent(c) /\ PastEvent(c)
  /\ PastRow(c) => c \in lostRows \/ rows[c] # <<>>
  /\ PastEvent(c) /\ LogsEvent(c) => c \in lostEvents \/ events[c] # <<>>

AnswerByStage(c) ==
  IF pc[c] # "done" THEN answer[c] = NoAnswer
  ELSE IF outcome[c] = "none" THEN answer[c] = (IF sent[c] = Nobody THEN 400 ELSE 500)
  ELSE answer[c] = ReplyCode(outcome[c], code[c])

CallInv(c) ==
  SentByStage(c) /\ OutcomeByStage(c) /\ RowByStage(c) /\ AnswerByStage(c)

Inv == TypeOK /\ \A c \in Calls : CallInv(c)

(* The audit table tells the truth: at most one row per request; a request  *)
(* with a "blocked" row reached no provider, one with a "success" row that  *)
(* very provider, whose code is in the row and is what the client gets      *)
(* (proxy.go 103-175).                                                      *)
RowsTellTheTruth ==
  \A c \in Calls :
    /\ Len(rows[c]) <= 1
    /\ rows[c] # <<>> =>
         LET row == rows[c][1] IN
           /\ row.status = "blocked" => sent[c] = Nobody
           /\ row.status = "success" => sent[c] = row.provider /\ sent[c] # Nobody
           /\ answer[c] \in {NoAnswer, ReplyCode(row.status, row.code)}

(* Whoever is answered has a row in the table before that, and a security   *)
(* event if there is one to log, but for a request that could not be        *)
(* routed, and for one whose reply could not be read.  An INSERT that fails *)
(* costs that one record (proxy.go 85-175).                                 *)
RowBeforeReply ==
  \A c \in Calls : answer[c] # NoAnswer =>
    \/ outcome[c] = "none" /\ answer[c] = (IF sent[c] = Nobody THEN 400 ELSE 500)
    \/ /\ c \in lostRows \/ rows[c] # <<>>
       /\ LogsEvent(c) => c \in lostEvents \/ events[c] # <<>>
       /\ events[c] # <<>> => LogsEvent(c)

(* "Audit trail of all anonymization events" (README.md 197): a body that   *)
(* was anonymized and forwarded has left a record when its client is        *)
(* answered.  One whose reply cannot be read leaves none (proxy.go 126-131). *)
AnonymizationsAudited ==
  \A c \in Calls :
    answer[c] # NoAnswer /\ sent[c] # Nobody /\ HasDetails(c) =>
      rows[c] # <<>> \/ events[c] # <<>>

(* Who has finished counter[k]++.                                           *)
Counted(k) ==
  {c \in Calls :
     /\ pc[c] \notin {k, "total"}
     /\ outcome[c] = (IF k = "blocked" THEN "blocked" ELSE "success")
     /\ k = "anonymized" => HasDetails(c)}

(* Updates get lost between ++ and ++, yet a counter never runs ahead of    *)
(* what happened and never falls back to zero (proxy.go 104, 154, 156).     *)
CountersKeepTheirBounds ==
  \A k \in Counters :
    /\ counter[k] <= Cardinality(Counted(k))
    /\ Counted(k) # {} => counter[k] >= 1

(* What carries the bounds: a value that was read is no larger than the     *)
(* number of increments that are over.                                      *)
LoadsLag ==
  \A c \in Calls :
    load[c] # Unread =>
      \E k \in Counters : pc[c] = k /\ load[c] <= Cardinality(Counted(k))

CounterInv == Inv /\ LoadsLag /\ CountersKeepTheirBounds

===============================================================================
