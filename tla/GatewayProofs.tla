---------------------------- MODULE GatewayProofs -----------------------------
(***************************************************************************)
(* Proofs about Gateway, for any requests, rules and number of calls.      *)
(***************************************************************************)
EXTENDS Gateway, RouterProofs, FiniteSetTheorems

Step(c) == Receive(c) \/ Handle(c)

(* What happens outside the handlers.                                       *)
Outside ==
  (\E b \in BOOLEAN : SetStrictMode(b)) \/ Signal \/ Exit \/ ServerError \/ Administer

(* Request d is as it was.                                                  *)
Untouched(d) ==
  /\ pc'[d] = pc[d] /\ req'[d] = req[d] /\ body'[d] = body[d]
  /\ provider'[d] = provider[d] /\ sent'[d] = sent[d] /\ code'[d] = code[d]
  /\ outcome'[d] = outcome[d] /\ load'[d] = load[d] /\ answer'[d] = answer[d]
  /\ rows'[d] = rows[d] /\ events'[d] = events[d]
  /\ d \in lostRows <=> d \in lostRows'
  /\ d \in lostEvents <=> d \in lostEvents'

(* A handler changes what is its request's own, and no other's.             *)
LEMMA OthersKeep ==
  ASSUME TypeOK, NEW c \in Calls, NEW d \in Calls, c # d, Step(c)
  PROVE  Untouched(d)
<1> USE DEF TypeOK, RequestsTypeOK, StoreTypeOK, Untouched, Goto, Ending, Answering, router, service, local, store
<1>1. CASE Receive(c)
  BY <1>1 DEF Receive
<1>2. CASE Route(c)
  BY <1>2 DEF Route
<1>3. CASE RouteFails(c)
  BY <1>3 DEF RouteFails
<1>4. CASE Process(c)
  BY <1>4 DEF Process
<1>5. CASE ShouldBlock(c)
  BY <1>5 DEF ShouldBlock
<1>6. CASE ShouldNotBlock(c)
  BY <1>6 DEF ShouldNotBlock
<1>7. CASE Forward(c)
  BY <1>7 DEF Forward
<1>8. CASE UpstreamFail(c)
  BY <1>8 DEF UpstreamFail
<1>9. CASE ReadFail(c)
  BY <1>9 DEF ReadFail
<1>10. CASE UpstreamReply(c)
  BY <1>10 DEF UpstreamReply
<1>11. CASE ReadCounter(c)
  BY <1>11 DEF ReadCounter
<1>12. CASE WriteCounter(c)
  BY <1>12 DEF WriteCounter
<1>13. CASE LogTransaction(c)
  BY <1>13 DEF LogTransaction
<1>14. CASE LogEvent(c)
  BY <1>14 DEF LogEvent
<1>15. CASE Reply(c)
  BY <1>15 DEF Reply
<1> QED
  BY <1>1, <1>2, <1>3, <1>4, <1>5, <1>6, <1>7, <1>8,
     <1>9, <1>10, <1>11, <1>12, <1>13, <1>14, <1>15, Zenon DEF Step, Handle

(* A call that is untouched keeps its part of the invariant.                *)
LEMMA UntouchedKeepsInv ==
  ASSUME NEW d \in Calls, CallInv(d), Untouched(d)
  PROVE  CallInv(d)'
<1>1. SentByStage(d)' /\ OutcomeByStage(d)' /\ AnswerByStage(d)'
  BY DEF CallInv, Untouched, SentByStage, OutcomeByStage, AnswerByStage,
         HasDetails, LogsEvent, ReplyCode
<1>2. RowByStage(d)'
  BY DEF CallInv, Untouched, RowByStage, PastRow, PastEvent, HasDetails, LogsEvent, Row
<1> QED
  BY <1>1, <1>2 DEF CallInv

(* Each step of a handler keeps its own call's part of the invariant.       *)
LEMMA OwnKeeps ==
  ASSUME TypeOK, NEW c \in Calls, CallInv(c), Step(c)
  PROVE  CallInv(c)'
<1> USE DEF TypeOK, RequestsTypeOK, StoreTypeOK, Goto, Ending, Answering,
            router, service, local, store, CallInv, Early, Counters
<1>1. CASE Receive(c)
  <2>1. SentByStage(c)' /\ OutcomeByStage(c)'
    BY <1>1 DEF Receive, SentByStage, OutcomeByStage, HasDetails, LogsEvent
  <2>2. RowByStage(c)'
    BY <1>1 DEF Receive, RowByStage, OutcomeByStage, PastRow, PastEvent,
                 HasDetails, LogsEvent, Row
  <2>3. AnswerByStage(c)'
    BY <1>1 DEF Receive, AnswerByStage, OutcomeByStage
  <2> QED
    BY <2>1, <2>2, <2>3
<1>2. CASE Route(c)
  <2>0. DetermineProvider(req[c]) \in Configured
    BY <1>2, RoutedIsAvailable DEF Route
  <2>1. SentByStage(c)' /\ OutcomeByStage(c)'
    BY <1>2, <2>0, SentinelsAssumption DEF Route, SentByStage, OutcomeByStage, HasDetails, LogsEvent
  <2>2. RowByStage(c)'
    BY <1>2 DEF Route, RowByStage, OutcomeByStage, PastRow, PastEvent,
                 HasDetails, LogsEvent, Row
  <2>3. AnswerByStage(c)'
    BY <1>2 DEF Route, AnswerByStage, OutcomeByStage
  <2> QED
    BY <2>1, <2>2, <2>3
<1>3. CASE RouteFails(c)
  <2>1. SentByStage(c)' /\ OutcomeByStage(c)'
    BY <1>3 DEF RouteFails, SentByStage, OutcomeByStage, HasDetails, LogsEvent
  <2>2. RowByStage(c)'
    BY <1>3 DEF RouteFails, RowByStage, OutcomeByStage, PastRow, PastEvent,
                 HasDetails, LogsEvent, Row
  <2>3. AnswerByStage(c)'
    BY <1>3 DEF RouteFails, AnswerByStage, OutcomeByStage, SentByStage
  <2> QED
    BY <2>1, <2>2, <2>3
<1>4. CASE Process(c)
  <2>1. SentByStage(c)' /\ OutcomeByStage(c)'
    BY <1>4 DEF Process, SentByStage, OutcomeByStage, HasDetails, LogsEvent
  <2>2. RowByStage(c)'
    BY <1>4 DEF Process, RowByStage, OutcomeByStage, PastRow, PastEvent,
                 HasDetails, LogsEvent, Row
  <2>3. AnswerByStage(c)'
    BY <1>4 DEF Process, AnswerByStage, OutcomeByStage
  <2> QED
    BY <2>1, <2>2, <2>3
<1>5. CASE ShouldBlock(c)
  <2>1. SentByStage(c)' /\ OutcomeByStage(c)'
    BY <1>5 DEF ShouldBlock, SentByStage, OutcomeByStage, HasDetails, LogsEvent
  <2>2. RowByStage(c)'
    BY <1>5 DEF ShouldBlock, RowByStage, OutcomeByStage, PastRow, PastEvent,
                 HasDetails, LogsEvent, Row
  <2>3. AnswerByStage(c)'
    BY <1>5 DEF ShouldBlock, AnswerByStage, OutcomeByStage
  <2> QED
    BY <2>1, <2>2, <2>3
<1>6. CASE ShouldNotBlock(c)
  <2>1. SentByStage(c)' /\ OutcomeByStage(c)'
    BY <1>6 DEF ShouldNotBlock, SentByStage, OutcomeByStage, HasDetails, LogsEvent
  <2>2. RowByStage(c)'
    BY <1>6 DEF ShouldNotBlock, RowByStage, OutcomeByStage, PastRow, PastEvent,
                 HasDetails, LogsEvent, Row
  <2>3. AnswerByStage(c)'
    BY <1>6 DEF ShouldNotBlock, AnswerByStage, OutcomeByStage
  <2> QED
    BY <2>1, <2>2, <2>3
<1>7. CASE Forward(c)
  <2>1. SentByStage(c)' /\ OutcomeByStage(c)'
    BY <1>7 DEF Forward, SentByStage, OutcomeByStage, HasDetails, LogsEvent
  <2>2. RowByStage(c)'
    BY <1>7 DEF Forward, RowByStage, OutcomeByStage, PastRow, PastEvent,
                 HasDetails, LogsEvent, Row
  <2>3. AnswerByStage(c)'
    BY <1>7 DEF Forward, AnswerByStage, OutcomeByStage
  <2> QED
    BY <2>1, <2>2, <2>3
<1>8. CASE UpstreamFail(c)
  <2>1. SentByStage(c)' /\ OutcomeByStage(c)'
    BY <1>8 DEF UpstreamFail, SentByStage, OutcomeByStage, HasDetails, LogsEvent
  <2>2. RowByStage(c)'
    BY <1>8 DEF UpstreamFail, RowByStage, OutcomeByStage, PastRow, PastEvent,
                 HasDetails, LogsEvent, Row
  <2>3. AnswerByStage(c)'
    BY <1>8 DEF UpstreamFail, AnswerByStage, OutcomeByStage
  <2> QED
    BY <2>1, <2>2, <2>3
<1>9. CASE ReadFail(c)
  <2>1. SentByStage(c)' /\ OutcomeByStage(c)'
    BY <1>9 DEF ReadFail, SentByStage, OutcomeByStage, HasDetails, LogsEvent
  <2>2. RowByStage(c)'
    BY <1>9 DEF ReadFail, RowByStage, OutcomeByStage, PastRow, PastEvent,
                 HasDetails, LogsEvent, Row
  <2>3. AnswerByStage(c)'
    BY <1>9 DEF ReadFail, AnswerByStage, OutcomeByStage, SentByStage
  <2> QED
    BY <2>1, <2>2, <2>3
<1>10. CASE UpstreamReply(c)
  <2>1. SentByStage(c)' /\ OutcomeByStage(c)'
    BY <1>10 DEF UpstreamReply, SentByStage, OutcomeByStage, HasDetails, LogsEvent
  <2>2. RowByStage(c)'
    BY <1>10 DEF UpstreamReply, RowByStage, OutcomeByStage, PastRow, PastEvent,
                 HasDetails, LogsEvent, Row
  <2>3. AnswerByStage(c)'
    BY <1>10 DEF UpstreamReply, AnswerByStage, OutcomeByStage
  <2> QED
    BY <2>1, <2>2, <2>3
<1>11. CASE ReadCounter(c)
  <2>1. SentByStage(c)' /\ OutcomeByStage(c)'
    BY <1>11 DEF ReadCounter, SentByStage, OutcomeByStage, HasDetails, LogsEvent
  <2>2. RowByStage(c)'
    BY <1>11 DEF ReadCounter, RowByStage, OutcomeByStage, PastRow, PastEvent,
                 HasDetails, LogsEvent, Row
  <2>3. AnswerByStage(c)'
    BY <1>11 DEF ReadCounter, AnswerByStage, OutcomeByStage
  <2> QED
    BY <2>1, <2>2, <2>3
<1>12. CASE WriteCounter(c)
  <2>1. SentByStage(c)' /\ OutcomeByStage(c)'
    BY <1>12 DEF WriteCounter, AfterCount, SentByStage, OutcomeByStage, HasDetails, LogsEvent
  <2>2. RowByStage(c)'
    BY <1>12 DEF WriteCounter, AfterCount, RowByStage, OutcomeByStage, PastRow, PastEvent,
                 HasDetails, LogsEvent, Row
  <2>3. AnswerByStage(c)'
    BY <1>12 DEF WriteCounter, AfterCount, AnswerByStage, OutcomeByStage
  <2> QED
    BY <2>1, <2>2, <2>3
<1>13. CASE LogTransaction(c)
  <2>1. SentByStage(c)' /\ OutcomeByStage(c)'
    BY <1>13 DEF LogTransaction, SentByStage, OutcomeByStage, HasDetails, LogsEvent
  <2>2. RowByStage(c)'
    BY <1>13 DEF LogTransaction, RowByStage, OutcomeByStage, PastRow, PastEvent,
                 HasDetails, LogsEvent, Row
  <2>3. AnswerByStage(c)'
    BY <1>13 DEF LogTransaction, AnswerByStage, OutcomeByStage
  <2> QED
    BY <2>1, <2>2, <2>3
<1>14. CASE LogEvent(c)
  <2>1. SentByStage(c)' /\ OutcomeByStage(c)'
    BY <1>14 DEF LogEvent, SentByStage, OutcomeByStage, HasDetails, LogsEvent
  <2>2. RowByStage(c)'
    BY <1>14 DEF LogEvent, RowByStage, OutcomeByStage, PastRow, PastEvent,
                 HasDetails, LogsEvent, Row
  <2>3. AnswerByStage(c)'
    BY <1>14 DEF LogEvent, AnswerByStage, OutcomeByStage
  <2> QED
    BY <2>1, <2>2, <2>3
<1>15. CASE Reply(c)
  <2>1. SentByStage(c)' /\ OutcomeByStage(c)'
    BY <1>15 DEF Reply, SentByStage, OutcomeByStage, HasDetails, LogsEvent
  <2>2. RowByStage(c)'
    BY <1>15 DEF Reply, RowByStage, OutcomeByStage, PastRow, PastEvent,
                 HasDetails, LogsEvent, Row
  <2>3. AnswerByStage(c)'
    BY <1>15 DEF Reply, AnswerByStage, OutcomeByStage, ReplyCode
  <2> QED
    BY <2>1, <2>2, <2>3
<1> QED
  BY <1>1, <1>2, <1>3, <1>4, <1>5, <1>6, <1>7, <1>8,
     <1>9, <1>10, <1>11, <1>12, <1>13, <1>14, <1>15, Zenon DEF Step, Handle

(* Every step of a handler keeps the types.                                 *)
LEMMA TypeStep ==
  ASSUME TypeOK, NEW c \in Calls, CallInv(c), Step(c)
  PROVE  TypeOK'
<1> USE DEF Goto, Ending, Answering, router, service, local, store
<1> SUFFICES RequestsTypeOK' /\ StoreTypeOK' /\ UNCHANGED <<router, service>>
  BY DEF TypeOK, RouterTypeOK
<1>1. CASE Receive(c)
  <2>1. RequestsTypeOK'
    BY <1>1 DEF TypeOK, RequestsTypeOK, Stages, Receive
  <2>2. StoreTypeOK'
    BY <1>1 DEF TypeOK, StoreTypeOK, Receive
  <2> QED
    BY <1>1, <2>1, <2>2 DEF Receive
<1>2. CASE Route(c)
  <2>0. DetermineProvider(req[c]) \in Configured
    BY <1>2, RoutedIsAvailable DEF Route, TypeOK
  <2>1. RequestsTypeOK'
    BY <2>0, <1>2 DEF TypeOK, RequestsTypeOK, Stages, Route
  <2>2. StoreTypeOK'
    BY <2>0, <1>2 DEF TypeOK, StoreTypeOK, Route
  <2> QED
    BY <1>2, <2>1, <2>2 DEF Route
<1>3. CASE RouteFails(c)
  <2>1. RequestsTypeOK'
    BY <1>3 DEF TypeOK, RequestsTypeOK, Stages, RouteFails
  <2>2. StoreTypeOK'
    BY <1>3 DEF TypeOK, StoreTypeOK, RouteFails
  <2> QED
    BY <1>3, <2>1, <2>2 DEF RouteFails
<1>4. CASE Process(c)
  <2>1. RequestsTypeOK'
    BY <1>4 DEF TypeOK, RequestsTypeOK, Stages, Process
  <2>2. StoreTypeOK'
    BY <1>4 DEF TypeOK, StoreTypeOK, Process
  <2> QED
    BY <1>4, <2>1, <2>2 DEF Process
<1>5. CASE ShouldBlock(c)
  <2>1. RequestsTypeOK'
    BY <1>5 DEF TypeOK, RequestsTypeOK, Stages, ShouldBlock, Counters, Outcomes
  <2>2. StoreTypeOK'
    BY <1>5 DEF TypeOK, StoreTypeOK, ShouldBlock
  <2> QED
    BY <1>5, <2>1, <2>2 DEF ShouldBlock
<1>6. CASE ShouldNotBlock(c)
  <2>1. RequestsTypeOK'
    BY <1>6 DEF TypeOK, RequestsTypeOK, Stages, ShouldNotBlock
  <2>2. StoreTypeOK'
    BY <1>6 DEF TypeOK, StoreTypeOK, ShouldNotBlock
  <2> QED
    BY <1>6, <2>1, <2>2 DEF ShouldNotBlock
<1>7. CASE Forward(c)
  <2>1. RequestsTypeOK'
    BY <1>7 DEF TypeOK, RequestsTypeOK, Stages, Forward
  <2>2. StoreTypeOK'
    BY <1>7 DEF TypeOK, StoreTypeOK, Forward
  <2> QED
    BY <1>7, <2>1, <2>2 DEF Forward
<1>8. CASE UpstreamFail(c)
  <2>1. RequestsTypeOK'
    BY <1>8 DEF TypeOK, RequestsTypeOK, Stages, UpstreamFail, Outcomes
  <2>2. StoreTypeOK'
    BY <1>8 DEF TypeOK, StoreTypeOK, UpstreamFail
  <2> QED
    BY <1>8, <2>1, <2>2 DEF UpstreamFail
<1>9. CASE ReadFail(c)
  <2>1. RequestsTypeOK'
    BY <1>9 DEF TypeOK, RequestsTypeOK, Stages, ReadFail
  <2>2. StoreTypeOK'
    BY <1>9 DEF TypeOK, StoreTypeOK, ReadFail
  <2> QED
    BY <1>9, <2>1, <2>2 DEF ReadFail
<1>10. CASE UpstreamReply(c)
  <2>1. RequestsTypeOK'
    BY <1>10 DEF TypeOK, RequestsTypeOK, Stages, UpstreamReply, Counters, Outcomes
  <2>2. StoreTypeOK'
    BY <1>10 DEF TypeOK, StoreTypeOK, UpstreamReply
  <2> QED
    BY <1>10, <2>1, <2>2 DEF UpstreamReply
<1>11. CASE ReadCounter(c)
  <2>1. RequestsTypeOK'
    BY <1>11 DEF TypeOK, RequestsTypeOK, Stages, ReadCounter, Counters
  <2>2. StoreTypeOK'
    BY <1>11 DEF TypeOK, StoreTypeOK, ReadCounter
  <2> QED
    BY <1>11, <2>1, <2>2 DEF ReadCounter
<1>12. CASE WriteCounter(c)
  <2>0. AfterCount(c) \in Stages /\ load[c] + 1 \in Nat
    BY <1>12 DEF WriteCounter, AfterCount, TypeOK, RequestsTypeOK, Stages, Counters
  <2>1. RequestsTypeOK'
    BY <2>0, <1>12 DEF TypeOK, RequestsTypeOK, Stages, WriteCounter
  <2>2. StoreTypeOK'
    BY <2>0, <1>12 DEF TypeOK, StoreTypeOK, WriteCounter
  <2> QED
    BY <1>12, <2>1, <2>2 DEF WriteCounter
<1>13. CASE LogTransaction(c)
  <2>. Row(c) \in Rows
    BY <1>13 DEF Row, Rows, TypeOK, RequestsTypeOK, CallInv, SentByStage
  <2>0. Append(rows[c], Row(c)) \in Seq(Rows)
    BY DEF TypeOK, StoreTypeOK
  <2>1. RequestsTypeOK'
    BY <2>0, <1>13 DEF TypeOK, RequestsTypeOK, Stages, LogTransaction
  <2>2. StoreTypeOK'
    BY <2>0, <1>13 DEF TypeOK, StoreTypeOK, LogTransaction
  <2> QED
    BY <1>13, <2>1, <2>2 DEF LogTransaction
<1>14. CASE LogEvent(c)
  <2>0. \A e \in {"request_blocked", "pii_detected"} :
           Append(events[c], e) \in Seq({"request_blocked", "pii_detected"})
    BY DEF TypeOK, StoreTypeOK
  <2>1. RequestsTypeOK'
    BY <2>0, <1>14 DEF TypeOK, RequestsTypeOK, Stages, LogEvent
  <2>2. StoreTypeOK'
    BY <2>0, <1>14 DEF TypeOK, StoreTypeOK, LogEvent
  <2> QED
    BY <1>14, <2>1, <2>2 DEF LogEvent
<1>15. CASE Reply(c)
  <2>0. ReplyCode(outcome[c], code[c]) \in {403, 502} \cup ProviderCodes
    BY <1>15 DEF Reply, ReplyCode, CallInv, SentByStage, OutcomeByStage, TypeOK,
                 RequestsTypeOK, Outcomes
  <2>1. RequestsTypeOK'
    BY <2>0, <1>15 DEF TypeOK, RequestsTypeOK, Stages, Reply
  <2>2. StoreTypeOK'
    BY <2>0, <1>15 DEF TypeOK, StoreTypeOK, Reply
  <2> QED
    BY <1>15, <2>1, <2>2 DEF Reply
<1> QED
  BY <1>1, <1>2, <1>3, <1>4, <1>5, <1>6, <1>7, <1>8,
     <1>9, <1>10, <1>11, <1>12, <1>13, <1>14, <1>15, Zenon DEF Step, Handle

(* What happens outside the handlers touches no request.                    *)
LEMMA OutsideKeeps ==
  ASSUME TypeOK, Outside
  PROVE  TypeOK' /\ UNCHANGED <<pc, local, store, counter>>
<1>1. UNCHANGED <<pc, local, store, counter>>
  BY DEF Outside, SetStrictMode, Signal, Exit, ServerError, Administer
<1>2. RouterTypeOK'
  <2>1. [RouterNext]_router
    BY DEF Outside, SetStrictMode, Signal, Exit, ServerError, Administer
  <2> QED
    BY <2>1, RulesStay DEF TypeOK
<1>3. process' \in {"up", "stopping", "down"} /\ strict' \in BOOLEAN
  BY DEF TypeOK, Outside, SetStrictMode, Signal, Exit, ServerError, Administer, service
<1> QED
  BY <1>1, <1>2, <1>3 DEF TypeOK, RequestsTypeOK, StoreTypeOK, local, store

(* A step is a handler's, or the administrator's or the system's.           *)
LEMMA StepOrOutside ==
  Next => (\E c \in Calls : Step(c)) \/ Outside
BY Zenon DEF Next, Step, Outside

(* Every step keeps the types and every call's part of the invariant.       *)
LEMMA InvStep ==
  ASSUME Inv, [Next]_vars
  PROVE  Inv'
<1>1. ASSUME NEW c \in Calls, Step(c) PROVE Inv'
  <2>1. TypeOK'
    BY <1>1, TypeStep DEF Inv
  <2>2. ASSUME NEW d \in Calls PROVE CallInv(d)'
    <3>1. CASE d = c
      BY <1>1, <3>1, OwnKeeps DEF Inv
    <3>2. CASE d # c
      BY <1>1, <3>2, OthersKeep, UntouchedKeepsInv DEF Inv
    <3> QED
      BY <3>1, <3>2
  <2> QED
    BY <2>1, <2>2 DEF Inv
<1>2. ASSUME TypeOK', UNCHANGED <<pc, local, store>> PROVE Inv'
  <2>1. ASSUME NEW d \in Calls PROVE CallInv(d)'
    <3>1. Untouched(d)
      BY <1>2 DEF Untouched, local, store
    <3> QED
      BY <3>1, UntouchedKeepsInv DEF Inv
  <2> QED
    BY <1>2, <2>1 DEF Inv
<1>3. CASE Outside
  BY <1>2, <1>3, OutsideKeeps DEF Inv
<1>4. CASE UNCHANGED vars
  <2>1. TypeOK' /\ UNCHANGED <<pc, local, store>>
    BY <1>4 DEF Inv, TypeOK, RequestsTypeOK, StoreTypeOK, RouterTypeOK,
               vars, router, service, local, store
  <2> QED
    BY <1>2, <2>1
<1> QED
  BY <1>1, <1>3, <1>4, StepOrOutside

(* Initially no request has come in: each call's part holds of nothing.     *)
LEMMA InitInv == Init => Inv
<1> SUFFICES ASSUME Init PROVE Inv
  OBVIOUS
<1>1. RouterTypeOK
  <2>1. rules \in Seq(ExtraRules \cup {DefaultRules[i] : i \in DOMAIN DefaultRules})
    BY DefaultsAreRules DEF Init, RouterInit
  <2> QED
    BY <2>1 DEF Init, RouterInit, RouterTypeOK
<1>2. TypeOK
  <2>1. RequestsTypeOK
    BY DEF Init, RequestsTypeOK, Stages, Outcomes
  <2>2. StoreTypeOK
    BY DEF Init, StoreTypeOK
  <2> QED
    BY <1>1, <2>1, <2>2 DEF Init, TypeOK
<1>3. ASSUME NEW c \in Calls PROVE CallInv(c)
  BY DEF Init, CallInv, SentByStage, OutcomeByStage, RowByStage, AnswerByStage,
         Early, PastRow, PastEvent
<1> QED
  BY <1>2, <1>3 DEF Inv

(* The types, and stage by stage who has a request and what is recorded.    *)
THEOREM GatewayInvariance == Spec => []Inv
<1> QED
  BY InitInv, InvStep, PTL DEF Spec

(* For any number of requests: no row says what did not happen.             *)
THEOREM RowsAreTrue == Spec => []RowsTellTheTruth
<1>1. Inv => RowsTellTheTruth
  <2> SUFFICES ASSUME Inv, NEW c \in Calls
               PROVE  /\ Len(rows[c]) <= 1
                      /\ rows[c] # <<>> =>
                           /\ rows[c][1].status = "blocked" => sent[c] = Nobody
                           /\ rows[c][1].status = "success" =>
                                sent[c] = rows[c][1].provider /\ sent[c] # Nobody
                           /\ answer[c] \in {NoAnswer, ReplyCode(rows[c][1].status, rows[c][1].code)}
    BY DEF RowsTellTheTruth
  <2>1. CallInv(c)
    BY DEF Inv
  <2>2. CASE rows[c] = <<>>
    BY <2>2
  <2>3. CASE rows[c] # <<>>
    <3>1. rows[c] = <<Row(c)>> /\ PastRow(c)
      BY <2>1, <2>3 DEF CallInv, RowByStage
    <3>2. Len(rows[c]) = 1 /\ rows[c][1] = Row(c)
      BY <3>1
    <3>3. rows[c][1].status = outcome[c]
      BY <3>2 DEF Row
    <3>4. outcome[c] = "success" => rows[c][1].provider = provider[c]
      BY <3>2 DEF Row
    <3>5. answer[c] \in {NoAnswer, ReplyCode(outcome[c], rows[c][1].code)}
      <4>1. answer[c] \in {NoAnswer, ReplyCode(outcome[c], code[c])}
        BY <2>1, <3>1 DEF CallInv, AnswerByStage, PastRow
      <4>2. ReplyCode(outcome[c], rows[c][1].code) = ReplyCode(outcome[c], code[c])
        BY <2>1, <3>1, <3>2 DEF ReplyCode, Row, CallInv, OutcomeByStage, PastRow, Inv,
           TypeOK, RequestsTypeOK, Outcomes
      <4> QED
        BY <4>1, <4>2
    <3> QED
      BY <2>1, <3>2, <3>3, <3>4, <3>5 DEF CallInv, SentByStage
  <2> QED
    BY <2>2, <2>3
<1> QED
  BY <1>1, GatewayInvariance, PTL

(* No reply overtakes its row or its event.                                 *)
THEOREM RowsComeFirst == Spec => []RowBeforeReply
<1>1. Inv => RowBeforeReply
  <2> SUFFICES ASSUME Inv PROVE RowBeforeReply
    OBVIOUS
  <2>1. ASSUME NEW c \in Calls, answer[c] # NoAnswer, outcome[c] # "none"
        PROVE  /\ c \in lostRows \/ rows[c] # <<>>
               /\ LogsEvent(c) => c \in lostEvents \/ events[c] # <<>>
               /\ events[c] # <<>> => LogsEvent(c)
    <3>1. CallInv(c)
      BY DEF Inv
    <3>2. pc[c] = "done"
      BY <2>1, <3>1 DEF CallInv, AnswerByStage
    <3> QED
      BY <2>1, <3>1, <3>2 DEF CallInv, RowByStage, PastRow, PastEvent
  <2>2. ASSUME NEW c \in Calls, answer[c] # NoAnswer, outcome[c] = "none"
        PROVE  answer[c] = (IF sent[c] = Nobody THEN 400 ELSE 500)
    BY <2>2 DEF Inv, CallInv, AnswerByStage
  <2> QED
    BY <2>1, <2>2 DEF RowBeforeReply
<1> QED
  BY <1>1, GatewayInvariance, PTL

(* A ++ that is over adds its request to those counted; no other step       *)
(* changes who is counted.                                                  *)
LEMMA CountedGrows ==
  ASSUME Inv, NEW c \in Calls, Step(c), NEW k \in Counters
  PROVE  IF WriteCounter(c) /\ pc[c] = k
           THEN Counted(k)' = Counted(k) \cup {c} /\ c \notin Counted(k)
           ELSE Counted(k)' = Counted(k)
<1>1. ASSUME NEW d \in Calls, d # c PROVE (d \in Counted(k))' <=> d \in Counted(k)
  <2>1. Untouched(d)
    BY <1>1, OthersKeep DEF Inv
  <2> QED
    BY <2>1 DEF Untouched, Counted, HasDetails
<1> DEFINE In == c \in Counted(k)
<1>2. CallInv(c) /\ CallInv(c)' /\ c \in DOMAIN pc /\ c \in DOMAIN outcome /\ c \in DOMAIN body
  BY OwnKeeps DEF Inv, TypeOK, RequestsTypeOK
<1> USE DEF Counted, Counters, HasDetails, Goto, Ending, Answering, local, OutcomeByStage,
            CallInv, Early
<1>3. CASE WriteCounter(c) /\ pc[c] = k
  <2>1. ~In /\ In'
    BY <1>2, <1>3 DEF WriteCounter, AfterCount
  <2> QED
    BY <1>1, <1>3, <2>1
<1>4. ASSUME ~(WriteCounter(c) /\ pc[c] = k), In' <=> In
      PROVE  Counted(k)' = Counted(k)
  BY <1>1, <1>4
<1>5. CASE WriteCounter(c) /\ pc[c] # k
  <2>1. In' <=> In
    BY <1>2, <1>5 DEF WriteCounter, AfterCount
  <2> QED
    BY <1>4, <1>5, <2>1
<1>6. CASE Receive(c)
  <2>1. (In' <=> In) /\ ~(WriteCounter(c) /\ pc[c] = k)
    BY <1>2, <1>6 DEF Receive, WriteCounter
  <2> QED
    BY <1>4, <2>1
<1>7. CASE Route(c)
  <2>1. (In' <=> In) /\ ~(WriteCounter(c) /\ pc[c] = k)
    BY <1>2, <1>7 DEF Route, WriteCounter
  <2> QED
    BY <1>4, <2>1
<1>8. CASE RouteFails(c)
  <2>1. (In' <=> In) /\ ~(WriteCounter(c) /\ pc[c] = k)
    BY <1>2, <1>8 DEF RouteFails, WriteCounter
  <2> QED
    BY <1>4, <2>1
<1>9. CASE Process(c)
  <2>1. (In' <=> In) /\ ~(WriteCounter(c) /\ pc[c] = k)
    BY <1>2, <1>9 DEF Process, WriteCounter
  <2> QED
    BY <1>4, <2>1
<1>10. CASE ShouldBlock(c)
  <2>1. (In' <=> In) /\ ~(WriteCounter(c) /\ pc[c] = k)
    BY <1>2, <1>10 DEF ShouldBlock, WriteCounter
  <2> QED
    BY <1>4, <2>1
<1>11. CASE ShouldNotBlock(c)
  <2>1. (In' <=> In) /\ ~(WriteCounter(c) /\ pc[c] = k)
    BY <1>2, <1>11 DEF ShouldNotBlock, WriteCounter
  <2> QED
    BY <1>4, <2>1
<1>12. CASE Forward(c)
  <2>1. (In' <=> In) /\ ~(WriteCounter(c) /\ pc[c] = k)
    BY <1>2, <1>12 DEF Forward, WriteCounter
  <2> QED
    BY <1>4, <2>1
<1>13. CASE UpstreamFail(c)
  <2>1. (In' <=> In) /\ ~(WriteCounter(c) /\ pc[c] = k)
    BY <1>2, <1>13 DEF UpstreamFail, WriteCounter
  <2> QED
    BY <1>4, <2>1
<1>14. CASE ReadFail(c)
  <2>1. (In' <=> In) /\ ~(WriteCounter(c) /\ pc[c] = k)
    BY <1>2, <1>14 DEF ReadFail, WriteCounter
  <2> QED
    BY <1>4, <2>1
<1>15. CASE UpstreamReply(c)
  <2>1. (In' <=> In) /\ ~(WriteCounter(c) /\ pc[c] = k)
    BY <1>2, <1>15 DEF UpstreamReply, WriteCounter
  <2> QED
    BY <1>4, <2>1
<1>16. CASE ReadCounter(c)
  <2>1. (In' <=> In) /\ ~(WriteCounter(c) /\ pc[c] = k)
    BY <1>2, <1>16 DEF ReadCounter, WriteCounter
  <2> QED
    BY <1>4, <2>1
<1>17. CASE LogTransaction(c)
  <2>1. (In' <=> In) /\ ~(WriteCounter(c) /\ pc[c] = k)
    BY <1>2, <1>17 DEF LogTransaction, WriteCounter
  <2> QED
    BY <1>4, <2>1
<1>18. CASE LogEvent(c)
  <2>1. (In' <=> In) /\ ~(WriteCounter(c) /\ pc[c] = k)
    BY <1>2, <1>18 DEF LogEvent, WriteCounter
  <2> QED
    BY <1>4, <2>1
<1>19. CASE Reply(c)
  <2>1. (In' <=> In) /\ ~(WriteCounter(c) /\ pc[c] = k)
    BY <1>2, <1>19 DEF Reply, WriteCounter
  <2> QED
    BY <1>4, <2>1
<1> QED
  BY <1>3, <1>5, <1>6, <1>7, <1>8, <1>9, <1>10, <1>11,
     <1>12, <1>13, <1>14, <1>15, <1>16, <1>17, <1>18, <1>19, Zenon DEF Step, Handle

(* Both sides of the bound move together.                                   *)
LEMMA CounterStep ==
  ASSUME CounterInv, Inv', NEW c \in Calls, Step(c)
  PROVE  (LoadsLag /\ CountersKeepTheirBounds)'
<1>1. ASSUME NEW k \in Counters
      PROVE  /\ IsFiniteSet(Counted(k)) /\ Cardinality(Counted(k)) \in Nat
             /\ IsFiniteSet(Counted(k)') /\ Cardinality(Counted(k)') \in Nat
             /\ Cardinality(Counted(k)) <= Cardinality(Counted(k)')
  <2>1. Counted(k) \subseteq Calls /\ Counted(k)' \subseteq Calls
    BY DEF Counted
  <2>2. IsFiniteSet(Counted(k)) /\ IsFiniteSet(Counted(k)')
    BY <2>1, CallsAssumption, FS_Subset
  <2>3. Counted(k) \subseteq Counted(k)'
    BY CountedGrows DEF CounterInv
  <2> QED
    BY <2>2, <2>3, FS_CardinalityType, FS_Subset
<1>2. CASE WriteCounter(c)
  <2>1. PICK k \in Counters : pc[c] = k /\ load[c] <= Cardinality(Counted(k))
    BY <1>2 DEF WriteCounter, CounterInv, LoadsLag
  <2>2. load[c] \in Nat
    BY <1>2 DEF WriteCounter, CounterInv, Inv, TypeOK, RequestsTypeOK
  <2>3. Counted(k)' = Counted(k) \cup {c} /\ c \notin Counted(k)
    BY <1>2, <2>1, CountedGrows DEF CounterInv
  <2>4. Cardinality(Counted(k)') = Cardinality(Counted(k)) + 1
    BY <1>1, <2>3, FS_AddElement
  <2>5. counter' = [counter EXCEPT ![k] = load[c] + 1] /\ load' = [load EXCEPT ![c] = Unread]
    BY <1>2, <2>1 DEF WriteCounter
  <2>6. counter'[k] = load[c] + 1
    BY <2>5 DEF CounterInv, Inv, TypeOK, RequestsTypeOK
  <2>7. ASSUME NEW j \in Counters
        PROVE  /\ counter'[j] <= Cardinality(Counted(j)')
               /\ Counted(j)' # {} => counter'[j] >= 1
    <3>1. CASE j = k
      <4>1. counter'[k] <= Cardinality(Counted(k)') /\ counter'[k] >= 1
        BY <1>1, <2>1, <2>2, <2>4, <2>6
      <4> QED
        BY <3>1, <4>1
    <3>2. CASE j # k
      <4>1. counter'[j] = counter[j]
        BY <2>5, <3>2 DEF CounterInv, Inv, TypeOK, RequestsTypeOK
      <4>2. Counted(j)' = Counted(j)
        BY <2>1, <3>2, CountedGrows DEF CounterInv
      <4> QED
        BY <4>1, <4>2 DEF CounterInv, CountersKeepTheirBounds
    <3> QED
      BY <3>1, <3>2
  <2>8. ASSUME NEW d \in Calls, load'[d] # Unread
        PROVE  \E j \in Counters : pc'[d] = j /\ load'[d] <= Cardinality(Counted(j)')
    <3>1. d # c
      BY <2>5, <2>8 DEF CounterInv, Inv, TypeOK, RequestsTypeOK
    <3>2. load'[d] = load[d] /\ pc'[d] = pc[d]
      BY <3>1, OthersKeep DEF CounterInv, Inv, Untouched
    <3>3. PICK j \in Counters : pc[d] = j /\ load[d] <= Cardinality(Counted(j))
      BY <2>8, <3>2 DEF CounterInv, LoadsLag
    <3>4. load[d] \in Nat
      BY <2>8, <3>2 DEF CounterInv, Inv, TypeOK, RequestsTypeOK
    <3> QED
      BY <1>1, <3>2, <3>3, <3>4
  <2>9. CountersKeepTheirBounds'
    BY <2>7 DEF CountersKeepTheirBounds
  <2>10. LoadsLag'
    BY <2>8 DEF LoadsLag
  <2> QED
    BY <2>9, <2>10
<1>3. CASE ~WriteCounter(c)
  <2>1. \A k \in Counters : Counted(k)' = Counted(k)
    BY <1>3, CountedGrows DEF CounterInv
  <2>2. counter' = counter
    BY <1>3, Zenon DEF Step, Handle, Receive, Route, RouteFails, Process, ShouldBlock,
       ShouldNotBlock, Forward, UpstreamFail, ReadFail, UpstreamReply, ReadCounter,
       LogTransaction, LogEvent, Reply
  <2>3. ASSUME NEW d \in Calls, load'[d] # Unread
        PROVE  \E k \in Counters : pc'[d] = k /\ load'[d] <= Cardinality(Counted(k)')
    <3>1. CASE d # c
      <4>1. load'[d] = load[d] /\ pc'[d] = pc[d]
        BY <3>1, OthersKeep DEF CounterInv, Inv, Untouched
      <4>2. PICK k \in Counters : pc[d] = k /\ load[d] <= Cardinality(Counted(k))
        BY <2>3, <4>1 DEF CounterInv, LoadsLag
      <4> QED
        BY <2>1, <4>1, <4>2
    <3>2. CASE d = c
      <4>1. CASE ReadCounter(c)
        <5>1. pc'[c] = pc[c] /\ pc[c] \in Counters /\ load'[c] = counter[pc[c]]
          BY <4>1 DEF ReadCounter, CounterInv, Inv, TypeOK, RequestsTypeOK
        <5>2. PICK k \in Counters : pc[c] = k
          BY <5>1
        <5>3. counter[k] <= Cardinality(Counted(k)')
          BY <2>1 DEF CounterInv, CountersKeepTheirBounds
        <5> QED
          BY <3>2, <5>1, <5>2, <5>3
      <4>2. CASE ~ReadCounter(c)
        <5>1. load' = load
          BY <1>3, <4>2, Zenon DEF Step, Handle, Receive, Route, RouteFails, Process,
             ShouldBlock, ShouldNotBlock, Forward, UpstreamFail, ReadFail, UpstreamReply,
             LogTransaction, LogEvent, Reply, local
        <5>2. pc[c] \in Counters
          BY <2>3, <3>2, <5>1 DEF CounterInv, LoadsLag
        <5>3. FALSE
          BY <1>3, <4>2, <5>2 DEF Step, Handle, Receive, Route, RouteFails, Process,
             ShouldBlock, ShouldNotBlock, Forward, UpstreamFail, ReadFail, UpstreamReply,
             LogTransaction, LogEvent, Reply, Goto, Counters
        <5> QED
          BY <5>3
      <4> QED
        BY <4>1, <4>2
    <3> QED
      BY <3>1, <3>2
  <2>4. CountersKeepTheirBounds'
    BY <2>1, <2>2 DEF CounterInv, CountersKeepTheirBounds
  <2>5. LoadsLag'
    BY <2>3 DEF LoadsLag
  <2> QED
    BY <2>4, <2>5
<1> QED
  BY <1>2, <1>3

(* However many requests race for them, and however many increments are     *)
(* lost, the counters keep their bounds.                                    *)
THEOREM CountersBounded == Spec => []CountersKeepTheirBounds
<1>1. Init => CounterInv
  <2> SUFFICES ASSUME Init PROVE CounterInv
    OBVIOUS
  <2>1. \A k \in Counters : Counted(k) = {}
    BY DEF Init, Counted, Counters
  <2> QED
    <3>1. LoadsLag
      BY DEF Init, LoadsLag
    <3>2. CountersKeepTheirBounds
      <4>1. ASSUME NEW k \in Counters
            PROVE  counter[k] = 0 /\ Cardinality(Counted(k)) = 0
        BY <2>1, FS_EmptySet DEF Init
      <4> QED
        BY <2>1, <4>1 DEF CountersKeepTheirBounds
    <3> QED
      BY <3>1, <3>2, InitInv DEF CounterInv
<1>2. CounterInv /\ [Next]_vars => CounterInv'
  <2> SUFFICES ASSUME CounterInv, [Next]_vars PROVE CounterInv'
    OBVIOUS
  <2>1. Inv'
    BY InvStep DEF CounterInv
  <2>2. ASSUME NEW c \in Calls, Step(c) PROVE CounterInv'
    BY <2>1, <2>2, CounterStep DEF CounterInv
  <2>3. ASSUME UNCHANGED <<pc, local, store, counter>> PROVE CounterInv'
    <3>1. \A k \in Counters : Counted(k)' = Counted(k)
      BY <2>3 DEF Counted, HasDetails, local
    <3>2. CountersKeepTheirBounds'
      BY <2>3, <3>1 DEF CounterInv, CountersKeepTheirBounds
    <3>3. LoadsLag'
      BY <2>3, <3>1 DEF CounterInv, LoadsLag, local
    <3> QED
      BY <2>1, <3>2, <3>3 DEF CounterInv
  <2>4. CASE Outside
    BY <2>3, <2>4, OutsideKeeps DEF CounterInv, Inv
  <2>5. CASE UNCHANGED vars
    BY <2>3, <2>5 DEF vars
  <2> QED
    BY <2>2, <2>4, <2>5, StepOrOutside
<1>3. CounterInv => CountersKeepTheirBounds
  BY DEF CounterInv
<1> QED
  BY <1>1, <1>2, <1>3, PTL DEF Spec
===============================================================================
