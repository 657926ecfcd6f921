--------------------------- MODULE AnonymizerProofs ---------------------------
(***************************************************************************)
(* What the redaction engine guarantees for any number of requests, words, *)
(* patterns, tokens and replies.                                           *)
(***************************************************************************)
EXTENDS Anonymizer, FiniteSetTheorems, TLAPS

-------------------------------------------------------------------------------
(* Facts about texts.                                                       *)

(* Cutting a match out of a unit and putting a token in its place yield     *)
(* units (engine.go 161, 177).                                              *)
LEMMA UnitTypes ==
  ASSUME NEW u \in Units, NEW k, NEW t \in Tokens
  PROVE  Original(k, u) \in Units /\ Redact(k, u, t) \in Units
BY DEF Original, Redact, Units

(* A text with one unit replaced is a text.                                 *)
LEMMA ReplaceUnitType ==
  ASSUME NEW x \in Texts, NEW i \in DOMAIN x, NEW u \in Units
  PROVE  [x EXCEPT ![i] = u] \in Texts /\ Len([x EXCEPT ![i] = u]) = Len(x)
BY DEF Texts

(* Restoring a token everywhere in a text yields a text (engine.go 244).    *)
LEMMA ReplaceAllType ==
  ASSUME NEW x \in Texts, NEW t, NEW o \in Units
  PROVE  ReplaceAll(x, t, o) \in Texts
<1>1. x \in Seq(Units) /\ DOMAIN x = 1..Len(x) /\ Len(x) \in Nat
  BY DEF Texts
<1>2. ASSUME NEW u \in Units PROVE RestoreUnit(u, t, o) \in Units
  <2>1. /\ u.pw \in BOOLEAN /\ o.pw \in BOOLEAN
        /\ o.core \in Words \cup Tokens
    BY DEF Units
  <2>2. (u.pw \/ o.pw) \in BOOLEAN
    BY <2>1
  <2>3. [pw |-> u.pw \/ o.pw, core |-> o.core] \in Units
    BY <2>1, <2>2 DEF Units
  <2>4. QED
    BY <2>3 DEF RestoreUnit
<1>3. QED
  BY <1>1, <1>2 DEF ReplaceAll, Texts

(* A character offset is a natural number.                                  *)
LEMMA CharOffsetType ==
  ASSUME NEW x, NEW i \in Nat
  PROVE  CharOffset(x, i) \in Nat
<1>1. IsFiniteSet(1..i)
  BY FS_Interval
<1>2. IsFiniteSet({j \in 1..i : x[j].core \notin Continuation})
  BY <1>1, FS_Subset
<1>3. QED
  BY <1>2, FS_CardinalityType DEF CharOffset

-------------------------------------------------------------------------------
(* Types.                                                                   *)

(* One iteration of either redaction loop keeps the types (engine.go 154-178).*)
LEMMA ReplaceMatchType ==
  ASSUME TypeOK, NEW r \in Requests, NEW i \in DOMAIN text[r],
         NEW k \in Patterns \cup MLKinds, ReplaceMatch(r, i, k)
  PROVE  /\ tokenMap' \in [Tokens -> Units \cup {Absent}]
         /\ text' \in [Requests -> Texts]
         /\ details' \in [Requests -> Seq(Details)]
<1>1. PICK t \in GenerateToken(k) :
        /\ tokenMap' = [tokenMap EXCEPT ![t] = Original(k, text[r][i])]
        /\ text' = [text EXCEPT ![r][i] = Redact(k, text[r][i], t)]
        /\ details' = [details EXCEPT ![r] =
             Append(@, [kind |-> k, original |-> Original(k, text[r][i]), token |-> t])]
  BY DEF ReplaceMatch
<1>2. t \in Tokens
  BY DEF GenerateToken
<1>3. text[r] \in Texts /\ text[r][i] \in Units
  BY DEF TypeOK, Texts
<1>4. Original(k, text[r][i]) \in Units /\ Redact(k, text[r][i], t) \in Units
  BY <1>2, <1>3, UnitTypes
<1>5. [kind |-> k, original |-> Original(k, text[r][i]), token |-> t] \in Details
  BY <1>2, <1>4 DEF Details
<1>6. tokenMap' \in [Tokens -> Units \cup {Absent}]
  BY <1>1, <1>2, <1>4 DEF TypeOK
<1>7. text' \in [Requests -> Texts]
  <2>1. text' = [text EXCEPT ![r] = [text[r] EXCEPT ![i] = Redact(k, text[r][i], t)]]
    BY <1>1 DEF TypeOK
  <2>2. QED
    BY <2>1, <1>3, <1>4, ReplaceUnitType DEF TypeOK
<1>8. details' \in [Requests -> Seq(Details)]
  BY <1>1, <1>5 DEF TypeOK
<1>9. QED
  BY <1>6, <1>7, <1>8

(* Every step of the engine or of a request keeps the types (engine.go 123-265).*)
LEMMA TypeStep == TypeOK /\ [Next]_vars => TypeOK'
<1> SUFFICES ASSUME TypeOK, [Next]_vars PROVE TypeOK'
  OBVIOUS
<1> USE DEF TypeOK, Goto, engine, scan, reply, Stages
<1>1. ASSUME NEW r \in Requests, Submit(r) PROVE TypeOK'
  BY <1>1, BodiesAssumption DEF Submit
<1>2. ASSUME NEW r \in Requests, LockForProcess(r) PROVE TypeOK'
  BY <1>2 DEF LockForProcess
<1>3. ASSUME NEW r \in Requests, MLAnnotate(r) PROVE TypeOK'
  <2>1. PICK F \in SUBSET {i \in DOMAIN text[r] : text[r][i].core \in Names} :
          /\ spans'   = [spans EXCEPT ![r] = {CharOffset(text[r], i) : i \in F}]
          /\ flagged' = [flagged EXCEPT ![r] = F]
    BY <1>3 DEF MLAnnotate
  <2>2. F \subseteq Nat
    <3>1. text[r] \in Seq(Units)
      BY DEF Texts
    <3>2. DOMAIN text[r] \subseteq Nat
      BY <3>1
    <3>3. QED
      BY <3>2
  <2>3. {CharOffset(text[r], i) : i \in F} \subseteq Nat
    BY <2>2, CharOffsetType
  <2>4. QED
    BY <1>3, <2>1, <2>2, <2>3 DEF MLAnnotate
<1>4. ASSUME NEW r \in Requests, MLFail(r) PROVE TypeOK'
  BY <1>4 DEF MLFail
<1>5. ASSUME NEW r \in Requests, RedactSpan(r) PROVE TypeOK'
  <2>1. PICK i \in ValidSpans(r), k \in MLKinds :
          /\ spans' = [spans EXCEPT ![r] = @ \ {i}]
          /\ ReplaceMatch(r, i, k)
    BY <1>5 DEF RedactSpan
  <2>2. i \in DOMAIN text[r]
    BY DEF ValidSpans
  <2>3. /\ tokenMap' \in [Tokens -> Units \cup {Absent}]
        /\ text' \in [Requests -> Texts]
        /\ details' \in [Requests -> Seq(Details)]
    BY <2>1, <2>2, ReplaceMatchType
  <2>4. QED
    BY <1>5, <2>1, <2>3 DEF RedactSpan
<1>6. ASSUME NEW r \in Requests, SpansDone(r) PROVE TypeOK'
  BY <1>6 DEF SpansDone
<1>7. ASSUME NEW r \in Requests, NextPattern(r) PROVE TypeOK'
  BY <1>7 DEF NextPattern
<1>8. ASSUME NEW r \in Requests, RedactMatch(r) PROVE TypeOK'
  <2>1. PICK i \in Matches(cur[r], text[r]) : ReplaceMatch(r, i, cur[r])
    BY <1>8 DEF RedactMatch
  <2>2. i \in DOMAIN text[r] /\ Detects(cur[r], text[r][i])
    BY DEF Matches
  <2>3. cur[r] \in Patterns
    BY <2>2, NoOneAssumption, KindsAssumption DEF Detects
  <2>4. /\ tokenMap' \in [Tokens -> Units \cup {Absent}]
        /\ text' \in [Requests -> Texts]
        /\ details' \in [Requests -> Seq(Details)]
    BY <2>1, <2>2, <2>3, ReplaceMatchType
  <2>5. QED
    BY <1>8, <2>4 DEF RedactMatch
<1>9. ASSUME NEW r \in Requests, ProcessReturn(r) PROVE TypeOK'
  BY <1>9 DEF ProcessReturn
<1>10. ASSUME NEW r \in Requests, Block(r) \/ Pass(r) PROVE TypeOK'
  BY <1>10 DEF Block, Pass
<1>11. ASSUME NEW r \in Requests, Forward(r) PROVE TypeOK'
  BY <1>11 DEF Forward
<1>12. ASSUME NEW r \in Requests, UpstreamReply(r) PROVE TypeOK'
  <2>0. PICK n \in 0..MaxReply : \E t \in [1..n -> ReplyUnits(r)] :
          received' = [received EXCEPT ![r] = t]
    BY <1>12 DEF UpstreamReply
  <2>1. PICK t \in [1..n -> ReplyUnits(r)] : received' = [received EXCEPT ![r] = t]
    BY <2>0
  <2>2. ReplyUnits(r) \subseteq Units
    <3>1. \A i \in DOMAIN sent[r] : sent[r][i] \in Units
      BY DEF Texts
    <3>2. \A x \in Tokens : [pw |-> FALSE, core |-> x] \in Units
      BY DEF Units
    <3>3. QED
      BY <3>1, <3>2 DEF ReplyUnits, TokensOf
  <2>3. t \in Texts
    BY <2>1, <2>2, BoundsAssumption DEF Texts
  <2>4. QED
    BY <1>12, <2>1, <2>3 DEF UpstreamReply
<1>13. ASSUME NEW r \in Requests, UpstreamFail(r) PROVE TypeOK'
  BY <1>13 DEF UpstreamFail
<1>14. ASSUME NEW r \in Requests, RLockForRestore(r) PROVE TypeOK'
  BY <1>14 DEF RLockForRestore
<1>15. ASSUME NEW r \in Requests, RestoreNext(r) PROVE TypeOK'
  <2> DEFINE t == details[r][next[r]].token
  <2>1. t \in Tokens
    <3>1. details[r] \in Seq(Details) /\ next[r] \in DOMAIN details[r]
      BY <1>15 DEF RestoreNext
    <3>2. details[r][next[r]] \in Details
      BY <3>1
    <3>3. QED
      BY <3>2 DEF Details
  <2>2. CASE tokenMap[t] = Absent
    BY <1>15, <2>2 DEF RestoreNext
  <2>3. CASE tokenMap[t] # Absent
    <3>1. ReplaceAll(answer[r], t, tokenMap[t]) \in Texts
      BY <2>1, <2>3, ReplaceAllType
    <3>2. answer' = [answer EXCEPT ![r] = ReplaceAll(answer[r], t, tokenMap[t])]
      BY <1>15, <2>3 DEF RestoreNext
    <3>3. QED
      BY <1>15, <3>1, <3>2 DEF RestoreNext
  <2>4. QED
    BY <2>2, <2>3
<1>16. ASSUME NEW r \in Requests, RestoreReturn(r) PROVE TypeOK'
  BY <1>16 DEF RestoreReturn
<1>17. CASE SetStrictMode
  BY <1>17, BoundsAssumption DEF SetStrictMode
<1>18. CASE EnableML
  BY <1>18, BoundsAssumption DEF EnableML
<1>19. CASE UNCHANGED vars
  BY <1>19 DEF vars
<1>20. QED
  BY <1>1, <1>2, <1>3, <1>4, <1>5, <1>6, <1>7, <1>8, <1>9, <1>10, <1>11,
     <1>12, <1>13, <1>14, <1>15, <1>16, <1>17, <1>18, <1>19
     DEF Next, Process, Exchange, DeAnonymize

(* The engine Initialize builds is well typed (engine.go 57-76).            *)
LEMMA InitType == Init => TypeOK
<1>1. <<>> \in Texts /\ <<>> \in Seq(Details) /\ "idle" \in Stages
  BY DEF Texts, Stages
<1>2. 0 \in 0..MaxToggles /\ MLConfigured \in BOOLEAN
  BY BoundsAssumption
<1> SUFFICES ASSUME Init PROVE TypeOK
  OBVIOUS
<1>3. /\ tokenMap \in [Tokens -> Units \cup {Absent}]
      /\ strictMode \in BOOLEAN /\ useML \in BOOLEAN
      /\ writer \in Requests \cup {NoOne} /\ readers \subseteq Requests
      /\ toggles \in 0..MaxToggles
  BY <1>2 DEF Init
<1>4. /\ pc \in [Requests -> Stages]
      /\ body \in [Requests -> Texts] /\ text \in [Requests -> Texts]
      /\ sent \in [Requests -> Texts] /\ received \in [Requests -> Texts]
      /\ answer \in [Requests -> Texts]
  BY <1>1 DEF Init
<1>5. /\ spans \in [Requests -> SUBSET Nat]
      /\ flagged \in [Requests -> SUBSET Nat]
      /\ todo \in [Requests -> SUBSET Patterns]
      /\ cur \in [Requests -> Patterns \cup {NoOne}]
      /\ details \in [Requests -> Seq(Details)]
      /\ next \in [Requests -> Nat \ {0}]
  BY <1>1 DEF Init
<1>6. QED
  BY <1>3, <1>4, <1>5 DEF TypeOK

(* Every variable of the engine keeps its type.                             *)
THEOREM TypeCorrect == Spec => []TypeOK
BY InitType, TypeStep, PTL DEF Spec

-------------------------------------------------------------------------------
(* Words of texts.                                                          *)

(* An empty text has no words.                                              *)
LEMMA WordsOfEmpty == WordsOf(<<>>) = {}
BY DEF WordsOf

(* Restoring a token adds no word but its original's.                       *)
LEMMA ReplaceAllWords ==
  ASSUME NEW x \in Texts, NEW t, NEW o \in Units
  PROVE  WordsOf(ReplaceAll(x, t, o)) \subseteq WordsOf(x) \cup ({o.core} \cap Words)
<1>1. \A i \in DOMAIN x : RestoreUnit(x[i], t, o).core \in {x[i].core, o.core}
  BY DEF RestoreUnit
<1>2. DOMAIN ReplaceAll(x, t, o) = DOMAIN x
  BY DEF ReplaceAll
<1>3. \A i \in DOMAIN x : ReplaceAll(x, t, o)[i] = RestoreUnit(x[i], t, o)
  BY DEF ReplaceAll
<1>4. QED
  BY <1>1, <1>2, <1>3 DEF WordsOf

(* One replacement in the text of r: where a word is left nothing changed,  *)
(* the detail's original was in the text, and the map has it under its      *)
(* token, whatever it had there before.                                     *)
LEMMA ReplaceMatchEffect ==
  ASSUME TypeOK, NEW r \in Requests, NEW i \in DOMAIN text[r],
         NEW k \in Patterns \cup MLKinds, ReplaceMatch(r, i, k)
  PROVE  /\ \A q \in Requests \ {r} : text'[q] = text[q] /\ details'[q] = details[q]
         /\ text[r] # <<>> /\ text'[r] # <<>>
         /\ DOMAIN text'[r] = DOMAIN text[r]
         /\ WordsOf(text'[r]) \subseteq WordsOf(text[r])
         /\ \A j \in DOMAIN text[r] :
              text'[r][j].core \in Words => text'[r][j] = text[r][j]
         /\ Len(details'[r]) = Len(details[r]) + 1
         /\ \A j \in DOMAIN details[r] : details'[r][j] = details[r][j]
         /\ LET d == details'[r][Len(details[r]) + 1] IN
              /\ d.original.core = text[r][i].core
              /\ \A t \in Tokens \ {d.token} : tokenMap'[t] = tokenMap[t]
              /\ d.token \in Tokens
              /\ tokenMap'[d.token] = d.original
<1> DEFINE u == text[r][i]
           o == Original(k, u)
<1>1. PICK t \in GenerateToken(k) :
        /\ tokenMap' = [tokenMap EXCEPT ![t] = o]
        /\ text' = [text EXCEPT ![r][i] = Redact(k, u, t)]
        /\ details' = [details EXCEPT ![r] =
             Append(@, [kind |-> k, original |-> o, token |-> t])]
  BY DEF ReplaceMatch
<1>2. t \in Tokens
  BY DEF GenerateToken
<1>3. text[r] \in Seq(Units) /\ u \in Units /\ details[r] \in Seq(Details)
  BY DEF TypeOK, Texts
<1>4. /\ \A q \in Requests \ {r} : text'[q] = text[q] /\ details'[q] = details[q]
      /\ text'[r] = [text[r] EXCEPT ![i] = Redact(k, u, t)]
      /\ details'[r] = Append(details[r], [kind |-> k, original |-> o, token |-> t])
  BY <1>1 DEF TypeOK
<1>5. /\ DOMAIN text'[r] = DOMAIN text[r]
      /\ \A j \in DOMAIN text[r] \ {i} : text'[r][j] = text[r][j]
      /\ text'[r][i] = Redact(k, u, t)
  BY <1>3, <1>4
<1>6. Redact(k, u, t).core = t /\ t \notin Words
  BY <1>2, DisjointAssumption DEF Redact
<1>7. WordsOf(text'[r]) \subseteq WordsOf(text[r])
  BY <1>5, <1>6 DEF WordsOf
<1>10. \A j \in DOMAIN text[r] :
         text'[r][j].core \in Words => text'[r][j] = text[r][j]
  BY <1>5, <1>6
<1>11. text[r] # <<>> /\ text'[r] # <<>>
  BY <1>3, <1>5
<1>12. /\ Len(details'[r]) = Len(details[r]) + 1
       /\ \A j \in DOMAIN details[r] : details'[r][j] = details[r][j]
       /\ details'[r][Len(details[r]) + 1] = [kind |-> k, original |-> o, token |-> t]
  BY <1>3, <1>4
<1>13. o.core = u.core
  BY <1>3 DEF Original, Units
<1>14. tokenMap'[t] = o /\ \A x \in Tokens \ {t} : tokenMap'[x] = tokenMap[x]
  BY <1>1, <1>2 DEF TypeOK
<1>15. QED
  BY <1>2, <1>4, <1>5, <1>7, <1>10, <1>11, <1>12, <1>13, <1>14

-------------------------------------------------------------------------------
(* The inductive invariant.                                                 *)

(* Only the two redaction loops write the map, the details and the scanned  *)
(* text, and only while the request is inside processContent.               *)
LEMMA RedactSteps ==
  ASSUME TypeOK, NEW r \in Requests, RedactSpan(r) \/ RedactMatch(r)
  PROVE  /\ \E i \in DOMAIN text[r], k \in Patterns \cup MLKinds :
              ReplaceMatch(r, i, k) /\ (RedactMatch(r) => k = cur[r])
         /\ pc[r] \in {"spans", "regex"}
         /\ UNCHANGED <<pc, body, todo, cur, sent, received, answer>>
<1>1. CASE RedactSpan(r)
  BY <1>1 DEF RedactSpan, RedactMatch, ValidSpans, reply
<1>2. CASE RedactMatch(r)
  <2>1. PICK i \in Matches(cur[r], text[r]) : ReplaceMatch(r, i, cur[r])
    BY <1>2 DEF RedactMatch
  <2>2. i \in DOMAIN text[r] /\ Detects(cur[r], text[r][i])
    BY DEF Matches
  <2>3. cur[r] \in Patterns
    BY <2>2, NoOneAssumption, KindsAssumption DEF Detects, TypeOK
  <2>4. QED
    BY <1>2, <2>1, <2>2, <2>3 DEF RedactMatch, reply
<1>3. QED
  BY <1>1, <1>2

(* A recorded detail has a unit as original and a token (engine.go 167-175).*)
LEMMA DetailTypes ==
  ASSUME TypeOK, NEW q \in Requests, NEW j \in DOMAIN details[q]
  PROVE  details[q][j].token \in Tokens /\ details[q][j].original \in Units
<1>1. details[q] \in Seq(Details)
  BY DEF TypeOK
<1>2. details[q][j] \in Details
  BY <1>1
<1>3. QED
  BY <1>2 DEF Details

(* Bodies, texts and what was sent are there exactly from their stage on    *)
(* (proxy.go 71-118).                                                       *)
LEMMA StageStep == TypeOK /\ StageInv /\ [Next]_vars => StageInv'
<1> SUFFICES ASSUME TypeOK, StageInv, [Next]_vars PROVE StageInv'
  OBVIOUS
<1> USE DEF StageInv, TypeOK, Goto, engine, scan, reply, Forwarded
<1>1. ASSUME NEW r \in Requests, Submit(r) PROVE StageInv'
  BY <1>1, BodiesAssumption DEF Submit
<1>2. ASSUME NEW r \in Requests, LockForProcess(r) PROVE StageInv'
  BY <1>2 DEF LockForProcess
<1>3. ASSUME NEW r \in Requests, MLAnnotate(r) \/ MLFail(r) \/ SpansDone(r)
      PROVE  StageInv'
  BY <1>3 DEF MLAnnotate, MLFail, SpansDone
<1>4. ASSUME NEW r \in Requests, RedactSpan(r) \/ RedactMatch(r) PROVE StageInv'
  <2>1. /\ UNCHANGED <<pc, body, sent>>
        /\ \A q \in Requests : text[q] # <<>> => text'[q] # <<>>
    BY <1>4, RedactSteps, ReplaceMatchEffect
  <2>2. QED
    BY <2>1
<1>5. ASSUME NEW r \in Requests, NextPattern(r) \/ ProcessReturn(r)
      PROVE  StageInv'
  BY <1>5 DEF NextPattern, ProcessReturn
<1>6. ASSUME NEW r \in Requests, Exchange(r) PROVE StageInv'
  BY <1>6 DEF Exchange, Block, Pass, Forward, UpstreamReply, UpstreamFail
<1>7. ASSUME NEW r \in Requests, DeAnonymize(r) PROVE StageInv'
  BY <1>7 DEF DeAnonymize, RLockForRestore, RestoreNext, RestoreReturn
<1>8. CASE SetStrictMode \/ EnableML \/ UNCHANGED vars
  BY <1>8 DEF SetStrictMode, EnableML, vars
<1>9. QED
  BY <1>1, <1>2, <1>3, <1>4, <1>5, <1>6, <1>7, <1>8 DEF Next, Process

(* What one replacement adds to the details of r, in terms of its tokens.   *)
LEMMA DetailsGrow ==
  ASSUME TypeOK, NEW r \in Requests, RedactSpan(r) \/ RedactMatch(r)
  PROVE  \E d \in Details :
           /\ tokenMap' = [tokenMap EXCEPT ![d.token] = d.original]
           /\ details' = [details EXCEPT ![r] = Append(details[r], d)]
           /\ \A q \in Requests \ {r} : details'[q] = details[q]
           /\ \A j \in DOMAIN details[r] :
                j \in DOMAIN details'[r] /\ details'[r][j] = details[r][j]
           /\ \A j \in DOMAIN details'[r] :
                j \in DOMAIN details[r] \/ details'[r][j] = d
           /\ \E j \in DOMAIN details'[r] : details'[r][j] = d
<1>1. PICK i \in DOMAIN text[r], k \in Patterns \cup MLKinds :
        ReplaceMatch(r, i, k)
  BY RedactSteps
<1>2. PICK t \in GenerateToken(k) :
        /\ tokenMap' = [tokenMap EXCEPT ![t] = Original(k, text[r][i])]
        /\ details' = [details EXCEPT ![r] =
             Append(@, [kind |-> k, original |-> Original(k, text[r][i]), token |-> t])]
  BY <1>1 DEF ReplaceMatch
<1> DEFINE d == [kind |-> k, original |-> Original(k, text[r][i]), token |-> t]
<1>3. t \in Tokens /\ text[r][i] \in Units
  BY DEF GenerateToken, TypeOK, Texts
<1>4. d \in Details
  BY <1>3, UnitTypes DEF Details
<1>5. details' = [details EXCEPT ![r] = Append(details[r], d)]
  BY <1>2
<1>6. details[r] \in Seq(Details) /\ details'[r] = Append(details[r], d)
  BY <1>5 DEF TypeOK
<1>7. /\ \A j \in DOMAIN details[r] :
           j \in DOMAIN details'[r] /\ details'[r][j] = details[r][j]
      /\ \A j \in DOMAIN details'[r] : j \in DOMAIN details[r] \/ details'[r][j] = d
      /\ \E j \in DOMAIN details'[r] : details'[r][j] = d
  <2> DEFINE n == Len(details[r]) + 1
  <2>1. /\ DOMAIN details[r] = 1..(n-1) /\ DOMAIN details'[r] = 1..n /\ n \in Nat \ {0}
        /\ details'[r][n] = d
        /\ \A j \in 1..(n-1) : details'[r][j] = details[r][j]
    BY <1>4, <1>6
  <2>2. \A j \in 1..n : j \in 1..(n-1) \/ j = n
    BY <2>1
  <2>3. n \in 1..n /\ 1..(n-1) \subseteq 1..n
    BY <2>1
  <2>4. QED
    BY <2>1, <2>2, <2>3
<1>8. \A q \in Requests \ {r} : details'[q] = details[q]
  BY <1>5 DEF TypeOK
<1>9. tokenMap' = [tokenMap EXCEPT ![d.token] = d.original]
  BY <1>2
<1>10. QED
  BY <1>4, <1>5, <1>7, <1>8, <1>9

(* Only the redaction loops touch the map and the details.                  *)
LEMMA MapWriters ==
  ASSUME [Next]_vars, \A r \in Requests : ~(RedactSpan(r) \/ RedactMatch(r))
  PROVE  UNCHANGED <<tokenMap, details>>
BY DEF Next, vars, Process, Exchange, DeAnonymize, engine, scan, reply,
   Submit, LockForProcess, MLAnnotate, MLFail, SpansDone, NextPattern,
   ProcessReturn, Block, Pass, Forward, UpstreamReply, UpstreamFail,
   RLockForRestore, RestoreNext, RestoreReturn, SetStrictMode, EnableML

(* An entry is overwritten only by another detail with its token (engine.go *)
(* 163, 212).                                                               *)
LEMMA MapStep == TypeOK /\ MapInv /\ [Next]_vars => MapInv'
<1> SUFFICES ASSUME TypeOK, MapInv, [Next]_vars PROVE MapInv'
  OBVIOUS
<1>1. CASE UNCHANGED <<tokenMap, details>>
  BY <1>1 DEF MapInv, OwnTokens
<1>2. ASSUME NEW r \in Requests, RedactSpan(r) \/ RedactMatch(r)
      PROVE  MapInv'
  <2>1. PICK d \in Details :
          /\ tokenMap' = [tokenMap EXCEPT ![d.token] = d.original]
          /\ \A q \in Requests \ {r} : details'[q] = details[q]
          /\ \A j \in DOMAIN details[r] :
               j \in DOMAIN details'[r] /\ details'[r][j] = details[r][j]
          /\ \A j \in DOMAIN details'[r] :
               j \in DOMAIN details[r] \/ details'[r][j] = d
          /\ \E j \in DOMAIN details'[r] : details'[r][j] = d
    BY <1>2, DetailsGrow
  <2>2. d.token \in Tokens /\ d.original \in Units
    BY DEF Details
  <2>3. /\ tokenMap'[d.token] = d.original /\ d.original # Absent
        /\ \A t \in Tokens \ {d.token} : tokenMap'[t] = tokenMap[t]
    BY <2>1, <2>2, AbsentAssumption DEF TypeOK
  <2>4. ASSUME NEW t \in Tokens, tokenMap'[t] = Absent, NEW q \in Requests,
               NEW j \in DOMAIN details'[q], details'[q][j].token = t
        PROVE  FALSE
    <3>1. t # d.token /\ tokenMap[t] = Absent
      BY <2>3, <2>4
    <3>2. j \in DOMAIN details[q] /\ details[q][j].token = t
      BY <2>1, <2>4, <3>1
    <3>3. QED
      BY <3>1, <3>2 DEF MapInv, OwnTokens
  <2>5. ASSUME NEW t \in Tokens, tokenMap'[t] # Absent
        PROVE  \E q \in Requests : \E j \in DOMAIN details'[q] :
                 details'[q][j].token = t /\ details'[q][j].original = tokenMap'[t]
    <3>1. CASE t = d.token
      BY <2>1, <2>3, <3>1
    <3>2. CASE t # d.token
      <4>1. tokenMap'[t] = tokenMap[t]
        BY <2>3, <3>2
      <4>q. PICK q \in Requests : \E j \in DOMAIN details[q] :
              details[q][j].token = t /\ details[q][j].original = tokenMap[t]
        BY <2>5, <4>1 DEF MapInv
      <4>2. PICK j \in DOMAIN details[q] :
              details[q][j].token = t /\ details[q][j].original = tokenMap[t]
        BY <4>q
      <4>3. j \in DOMAIN details'[q] /\ details'[q][j] = details[q][j]
        BY <2>1
      <4>4. QED
        BY <4>1, <4>2, <4>3
    <3>3. QED
      BY <3>1, <3>2
  <2>6. QED
    BY <2>4, <2>5 DEF MapInv, OwnTokens
<1>3. QED
  BY <1>1, <1>2, MapWriters

(* The details of a request only get more, and so do its tokens and those   *)
(* it shares.                                                               *)
LEMMA SharersStay ==
  ASSUME TypeOK, [Next]_vars, NEW r \in Requests
  PROVE  Sharers(r) \subseteq Sharers(r)'
<1>1. \A q \in Requests : OwnTokens(q) \subseteq OwnTokens(q)'
  <2>1. CASE UNCHANGED details
    BY <2>1 DEF OwnTokens
  <2>2. ASSUME NEW q \in Requests, RedactSpan(q) \/ RedactMatch(q)
        PROVE  \A x \in Requests : OwnTokens(x) \subseteq OwnTokens(x)'
    <3>1. /\ \A x \in Requests \ {q} : details'[x] = details[x]
          /\ \A j \in DOMAIN details[q] :
               j \in DOMAIN details'[q] /\ details'[q][j] = details[q][j]
      BY <2>2, DetailsGrow
    <3>2. QED
      BY <3>1 DEF OwnTokens
  <2>3. QED
    BY <2>1, <2>2, MapWriters
<1>2. QED
  BY <1>1 DEF Sharers

(* What the map has under a token of r is made of words of a sharer of r.   *)
LEMMA EntryWords ==
  ASSUME TypeOK, MapInv, WordInv, NEW r \in Requests, NEW j \in DOMAIN details[r],
         tokenMap[details[r][j].token] # Absent
  PROVE  {tokenMap[details[r][j].token].core} \cap Words
           \subseteq SharedWords(r)
<1> DEFINE t == details[r][j].token
<1>1. t \in Tokens
  BY DetailTypes
<1>q. PICK q \in Requests : \E i \in DOMAIN details[q] :
        details[q][i].token = t /\ details[q][i].original = tokenMap[t]
  BY <1>1 DEF MapInv
<1>2. PICK i \in DOMAIN details[q] :
        details[q][i].token = t /\ details[q][i].original = tokenMap[t]
  BY <1>q
<1>3. q \in Sharers(r)
  BY <1>2 DEF Sharers, OwnTokens
<1>4. {tokenMap[t].core} \cap Words \subseteq WordsOf(body[q])
  BY <1>2 DEF WordInv
<1>5. QED
  BY <1>3, <1>4 DEF SharedWords

(* So the words that may come back to r only get more, where no body is     *)
(* taken away.                                                              *)
LEMMA SharedWordsStay ==
  ASSUME TypeOK, [Next]_vars, NEW r \in Requests,
         \A q \in Requests : WordsOf(body[q]) \subseteq WordsOf(body'[q])
  PROVE  SharedWords(r) \subseteq SharedWords(r)'
<1>1. Sharers(r) \subseteq Sharers(r)' /\ Sharers(r) \subseteq Requests
  BY SharersStay DEF Sharers
<1>2. SharedWords(r)' = UNION {WordsOf(body'[q]) : q \in Sharers(r)'}
  BY DEF SharedWords, WordsOf
<1>3. QED
  BY <1>1, <1>2 DEF SharedWords

LEMMA SharedWordsSame ==
  ASSUME UNCHANGED <<body, details>>, NEW r \in Requests
  PROVE  SharedWords(r)' = SharedWords(r)
BY DEF SharedWords, Sharers, OwnTokens, WordsOf

(* No step brings a foreign word into what is kept for a request, but for   *)
(* those of a sharer into its answer (engine.go 160-177, 241-246).          *)
LEMMA WordStep ==
  TypeOK /\ WordInv /\ StageInv /\ MapInv /\ [Next]_vars => WordInv'
<1> SUFFICES ASSUME TypeOK, WordInv, StageInv, MapInv, [Next]_vars
             PROVE  WordInv'
  OBVIOUS
<1>1. ASSUME NEW r \in Requests, Submit(r) PROVE WordInv'
  <2>1. body[r] = <<>> /\ \A q \in Requests \ {r} : body'[q] = body[q]
    BY <1>1 DEF Submit, Goto, StageInv, TypeOK
  <2>2. \A q \in Requests : WordsOf(body[q]) \subseteq WordsOf(body'[q])
    BY <2>1, WordsOfEmpty
  <2>3. \A q \in Requests : SharedWords(q) \subseteq SharedWords(q)'
    BY <2>2, SharedWordsStay
  <2>4. QED
    BY <1>1, <2>2, <2>3 DEF Submit, scan, reply, WordInv
<1>2. ASSUME NEW r \in Requests, LockForProcess(r) PROVE WordInv'
  BY <1>2, SharedWordsSame DEF LockForProcess, WordInv, TypeOK, reply
<1>3. ASSUME NEW r \in Requests, RedactSpan(r) \/ RedactMatch(r) PROVE WordInv'
  <2>1. PICK i \in DOMAIN text[r], k \in Patterns \cup MLKinds :
          ReplaceMatch(r, i, k)
    BY <1>3, RedactSteps
  <2> DEFINE n == Len(details[r]) + 1
  <2>2. /\ \A q \in Requests \ {r} : text'[q] = text[q] /\ details'[q] = details[q]
        /\ WordsOf(text'[r]) \subseteq WordsOf(text[r])
        /\ Len(details'[r]) = n
        /\ \A j \in DOMAIN details[r] : details'[r][j] = details[r][j]
        /\ details'[r][n].original.core = text[r][i].core
    BY <2>1, ReplaceMatchEffect
  <2>3. UNCHANGED <<body, sent, received, answer>>
    BY <1>3, RedactSteps
  <2>4. details[r] \in Seq(Details) /\ details'[r] \in Seq(Details)
    BY TypeStep DEF TypeOK
  <2>5. DOMAIN details[r] = 1..(n-1) /\ DOMAIN details'[r] = 1..n /\ n \in Nat \ {0}
    BY <2>2, <2>4
  <2>6. {text[r][i].core} \cap Words \subseteq WordsOf(body[r])
    BY DEF WordInv, WordsOf
  <2>7. \A j \in DOMAIN details'[r] :
          {details'[r][j].original.core} \cap Words \subseteq WordsOf(body[r])
    <3>1. ASSUME NEW j \in DOMAIN details'[r]
          PROVE  {details'[r][j].original.core} \cap Words \subseteq WordsOf(body[r])
      <4>1. CASE j = n
        BY <2>2, <2>6, <4>1
      <4>2. CASE j \in DOMAIN details[r]
        BY <2>2, <4>2 DEF WordInv
      <4>3. QED
        BY <2>5, <4>1, <4>2
    <3>2. QED
      BY <3>1
  <2>8. \A q \in Requests : SharedWords(q) \subseteq SharedWords(q)'
    BY <2>3, SharedWordsStay
  <2>9. QED
    BY <2>2, <2>3, <2>7, <2>8 DEF WordInv
<1>4. ASSUME NEW r \in Requests, Forward(r) PROVE WordInv'
  BY <1>4, SharedWordsSame DEF Forward, WordInv, TypeOK, scan, reply
<1>5. ASSUME NEW r \in Requests, UpstreamReply(r) PROVE WordInv'
  <2>0. PICK n \in 0..MaxReply : \E t \in [1..n -> ReplyUnits(r)] :
          received' = [received EXCEPT ![r] = t]
    BY <1>5 DEF UpstreamReply
  <2>1. PICK t \in [1..n -> ReplyUnits(r)] : received' = [received EXCEPT ![r] = t]
    BY <2>0
  <2>2. \A u \in ReplyUnits(r) : u.core \in WordsOf(sent[r]) \/ u.core \notin Words
    BY DisjointAssumption DEF ReplyUnits, WordsOf, TokensOf
  <2>3. DOMAIN t = 1..n /\ \A i \in DOMAIN t : t[i] \in ReplyUnits(r)
    BY <2>1
  <2>4. WordsOf(t) \subseteq WordsOf(sent[r])
    BY <2>2, <2>3 DEF WordsOf
  <2>5. QED
    BY <1>5, <2>1, <2>4, SharedWordsSame DEF UpstreamReply, WordInv, TypeOK, scan
<1>6. ASSUME NEW r \in Requests, RLockForRestore(r) PROVE WordInv'
  <2>1. /\ UNCHANGED <<body, text, sent, received, details>>
        /\ answer'[r] = received[r] /\ \A q \in Requests \ {r} : answer'[q] = answer[q]
    BY <1>6 DEF RLockForRestore, TypeOK, scan
  <2>2. \A q \in Requests : SharedWords(q)' = SharedWords(q)
    BY <2>1, SharedWordsSame
  <2>3. WordsOf(answer'[r]) \subseteq SharedWords(r)
    <3>1. WordsOf(body[r]) \subseteq SharedWords(r)
      BY DEF SharedWords, Sharers
    <3>2. QED
      BY <2>1, <3>1 DEF WordInv
  <2>4. QED
    BY <2>1, <2>2, <2>3 DEF WordInv
<1>7. ASSUME NEW r \in Requests, RestoreNext(r) PROVE WordInv'
  <2> DEFINE j == next[r]
             t == details[r][j].token
  <2>1. /\ j \in DOMAIN details[r]
        /\ UNCHANGED <<body, text, sent, received, details>>
        /\ \A q \in Requests \ {r} : answer'[q] = answer[q]
    BY <1>7 DEF RestoreNext, TypeOK, scan
  <2>2. \A q \in Requests : SharedWords(q)' = SharedWords(q)
    BY <2>1, SharedWordsSame
  <2>3. WordsOf(answer'[r]) \subseteq SharedWords(r)
    <3>1. CASE tokenMap[t] = Absent
      BY <1>7, <3>1 DEF RestoreNext, WordInv
    <3>2. CASE tokenMap[t] # Absent
      <4>1. answer'[r] = ReplaceAll(answer[r], t, tokenMap[t]) /\ tokenMap[t] \in Units
        BY <1>7, <2>1, <3>2, DetailTypes DEF RestoreNext, TypeOK
      <4>2. WordsOf(answer'[r]) \subseteq
              WordsOf(answer[r]) \cup ({tokenMap[t].core} \cap Words)
        BY <4>1, ReplaceAllWords DEF TypeOK
      <4>3. {tokenMap[t].core} \cap Words \subseteq SharedWords(r)
        BY <2>1, <3>2, EntryWords
      <4>4. QED
        BY <4>2, <4>3 DEF WordInv
    <3>3. QED
      BY <3>1, <3>2
  <2> HIDE DEF j, t
  <2>4. ASSUME NEW q \in Requests PROVE WordsOf(answer'[q]) \subseteq SharedWords(q)'
    <3>1. CASE q = r
      BY <2>2, <2>3, <3>1
    <3>2. CASE q # r
      BY <2>1, <2>2, <3>2 DEF WordInv
    <3>3. QED
      BY <3>1, <3>2
  <2>5. QED
    BY <2>1, <2>4 DEF WordInv
<1>8. CASE UNCHANGED <<body, text, sent, received, answer, details>>
  BY <1>8, SharedWordsSame DEF WordInv
<1>9. QED
  BY <1>1, <1>2, <1>3, <1>4, <1>5, <1>6, <1>7, <1>8 DEF Next, vars, Process, Exchange,
     DeAnonymize, engine, scan, reply, MLAnnotate, MLFail, SpansDone, NextPattern,
     ProcessReturn, Block, Pass, UpstreamFail, RestoreReturn, SetStrictMode, EnableML

(* A pattern that has been applied stays applied (engine.go 150-179).       *)
LEMMA ScanStep == TypeOK /\ ScanInv /\ [Next]_vars => ScanInv'
<1> SUFFICES ASSUME TypeOK, ScanInv, [Next]_vars PROVE ScanInv'
  OBVIOUS
<1>1. ASSUME NEW r \in Requests, Submit(r) PROVE ScanInv'
  BY <1>1 DEF Submit, Goto, scan, ScanInv, TypeOK
<1>2. ASSUME NEW r \in Requests, LockForProcess(r) PROVE ScanInv'
  BY <1>2 DEF LockForProcess, Goto, ScanInv, TypeOK
<1>3. ASSUME NEW r \in Requests, MLAnnotate(r) \/ MLFail(r) \/ SpansDone(r)
      PROVE  ScanInv'
  BY <1>3 DEF MLAnnotate, MLFail, SpansDone, Goto, scan, ScanInv, TypeOK
<1>4. ASSUME NEW r \in Requests, RedactSpan(r) \/ RedactMatch(r) PROVE ScanInv'
  <2>1. PICK i \in DOMAIN text[r], k \in Patterns \cup MLKinds :
          ReplaceMatch(r, i, k)
    BY <1>4, RedactSteps
  <2>2. /\ \A q \in Requests \ {r} : text'[q] = text[q]
        /\ DOMAIN text'[r] = DOMAIN text[r]
        /\ \A j \in DOMAIN text[r] :
             text'[r][j].core \in Words => text'[r][j] = text[r][j]
    BY <2>1, ReplaceMatchEffect
  <2>3. UNCHANGED <<pc, todo, cur, sent>> /\ pc[r] \in {"spans", "regex"}
    BY <1>4, RedactSteps
  <2>4. QED
    BY <2>2, <2>3 DEF ScanInv
<1>5. ASSUME NEW r \in Requests, NextPattern(r) PROVE ScanInv'
  <2>1. PICK k \in todo[r] :
          /\ cur'  = [cur EXCEPT ![r] = k]
          /\ todo' = [todo EXCEPT ![r] = @ \ {k}]
    BY <1>5 DEF NextPattern
  <2>2. \A i \in DOMAIN text[r] : ~Detects(cur[r], text[r][i])
    BY <1>5 DEF NextPattern, Matches
  <2>3. QED
    BY <1>5, <2>1, <2>2 DEF NextPattern, ScanInv, TypeOK
<1>6. ASSUME NEW r \in Requests, ProcessReturn(r) PROVE ScanInv'
  <2>1. \A i \in DOMAIN text[r] : ~Detects(cur[r], text[r][i])
    BY <1>6 DEF ProcessReturn, Matches
  <2>2. Clean(text[r])
    BY <1>6, <2>1 DEF ProcessReturn, Goto, ScanInv, Clean
  <2>3. QED
    BY <1>6, <2>2 DEF ProcessReturn, Goto, ScanInv, TypeOK
<1>7. ASSUME NEW r \in Requests, Exchange(r) PROVE ScanInv'
  BY <1>7 DEF Exchange, Block, Pass, Forward, UpstreamReply, UpstreamFail, Goto, scan,
     ScanInv, TypeOK
<1>8. ASSUME NEW r \in Requests, DeAnonymize(r) PROVE ScanInv'
  BY <1>8 DEF DeAnonymize, RLockForRestore, RestoreNext, RestoreReturn, Goto, scan,
     ScanInv, TypeOK
<1>9. CASE SetStrictMode \/ EnableML \/ UNCHANGED vars
  BY <1>9 DEF SetStrictMode, EnableML, vars, scan, ScanInv
<1>10. QED
  BY <1>1, <1>2, <1>3, <1>4, <1>5, <1>6, <1>7, <1>8, <1>9 DEF Next, Process

(* The invariant holds before the first request.                            *)
LEMMA InitInv == Init => Inv
<1> SUFFICES ASSUME Init PROVE Inv
  OBVIOUS
<1>1. TypeOK
  BY InitType
<1>2. StageInv
  BY DEF Init, StageInv, Forwarded
<1>3. WordInv
  BY WordsOfEmpty DEF Init, WordInv
<1>4. ScanInv
  BY DEF Init, ScanInv, Clean
<1>5. MapInv
  BY DEF Init, MapInv, OwnTokens
<1>6. QED
  BY <1>1, <1>2, <1>3, <1>4, <1>5 DEF Inv

(* Stages, words, scan and map, for any number of requests and tokens,      *)
(* however often a token is drawn again.                                    *)
THEOREM Invariance == Spec => []Inv
<1>1. Inv /\ [Next]_vars => Inv'
  BY TypeStep, StageStep, WordStep, ScanStep, MapStep DEF Inv
<1>2. QED
  BY <1>1, InitInv, PTL DEF Spec

(* A word of another client's request reaches a client only if the two drew *)
(* the same token (engine.go 239-246, 297-304).                             *)
THEOREM WordsStay == Spec => []WordsStayWithTokens
<1>1. Inv => WordsStayWithTokens
  BY DEF Inv, WordInv, WordsStayWithTokens
<1>2. QED
  BY <1>1, Invariance, PTL

-------------------------------------------------------------------------------
(* Refinement of Redaction.                                                 *)

Shown == [r \in Requests |-> IF pc[r] = "done" THEN answer[r] ELSE <<>>]

Drawn == [r \in Requests |-> OwnTokens(r)]

(* The promise reads texts and tokens as the engine does.                   *)
LEMMA SameReading ==
  /\ \A x : (Promise!Clean(x) <=> Clean(x)) /\ Promise!WordsOf(x) = WordsOf(x)
  /\ Promise!Tokens = Tokens
  /\ \A r \in Requests : Promise!Sharers(r) = Sharers(r)
<1>1. \A x : (Promise!Clean(x) <=> Clean(x)) /\ Promise!WordsOf(x) = WordsOf(x)
  BY DEF Promise!Clean, Promise!WordsOf, Promise!Detects, Promise!Password,
     Clean, WordsOf, Detects, Password
<1>2. Promise!Tokens = Tokens
  BY DEF Promise!Tokens, Tokens
<1>3. \A r \in Requests : Promise!Sharers(r) = Sharers(r)
  BY DEF Promise!Sharers, Sharers
<1>4. QED
  BY <1>1, <1>2, <1>3

(* The engine starts where the promise starts.                              *)
LEMMA InitRefines == Init => Promise!Init
<1> SUFFICES ASSUME Init PROVE Promise!Init
  OBVIOUS
<1>1. Shown = [r \in Requests |-> <<>>] /\ Drawn = [r \in Requests |-> {}]
  BY DEF Init, Shown, Drawn, OwnTokens
<1>2. QED
  BY <1>1 DEF Init, Promise!Init, Shown, Drawn

(* A replacement draws a token (engine.go 160-164, 208-212).                *)
LEMMA MatchDraws ==
  ASSUME TypeOK, StageInv, NEW r \in Requests, RedactSpan(r) \/ RedactMatch(r)
  PROVE  Promise!Draw(r)
<1>1. /\ UNCHANGED <<body, sent, pc, answer>>
      /\ body[r] # <<>> /\ sent[r] = <<>>
  BY RedactSteps DEF StageInv, Forwarded
<1>2. PICK d \in Details :
        /\ \A q \in Requests \ {r} : details'[q] = details[q]
        /\ \A j \in DOMAIN details[r] :
             j \in DOMAIN details'[r] /\ details'[r][j] = details[r][j]
        /\ \A j \in DOMAIN details'[r] :
             j \in DOMAIN details[r] \/ details'[r][j] = d
        /\ \E j \in DOMAIN details'[r] : details'[r][j] = d
  BY DetailsGrow
<1>3. d.token \in Tokens
  BY DEF Details
<1>4. OwnTokens(r)' = OwnTokens(r) \cup {d.token}
  <2>1. OwnTokens(r)' = {details'[r][j].token : j \in DOMAIN details'[r]}
    BY DEF OwnTokens
  <2>2. ASSUME NEW x \in OwnTokens(r)' PROVE x \in OwnTokens(r) \cup {d.token}
    <3>1. PICK j \in DOMAIN details'[r] : x = details'[r][j].token
      BY <2>1, <2>2
    <3>2. QED
      BY <1>2, <3>1 DEF OwnTokens
  <2>3. ASSUME NEW x \in OwnTokens(r) \cup {d.token} PROVE x \in OwnTokens(r)'
    BY <1>2, <2>1, <2>3 DEF OwnTokens
  <2>4. QED
    BY <2>2, <2>3
<1>5. \A q \in Requests \ {r} : OwnTokens(q)' = OwnTokens(q)
  BY <1>2 DEF OwnTokens
<1>6. Drawn' = [Drawn EXCEPT ![r] = @ \cup {d.token}]
  BY <1>4, <1>5 DEF Drawn
<1>7. Shown' = Shown
  BY <1>1 DEF Shown
<1>8. QED
  BY <1>1, <1>3, <1>6, <1>7, SameReading DEF Promise!Draw, Shown, Drawn

(* Every step is Submit, Draw, Forward or Deliver of the promise, or none   *)
(* of them (proxy.go 94-136).                                               *)
LEMMA StepRefines == Inv /\ Inv' /\ [Next]_vars => [Promise!Next]_(Promise!vars)
<1> SUFFICES ASSUME Inv, Inv', [Next]_vars PROVE [Promise!Next]_(Promise!vars)
  OBVIOUS
<1> USE DEF Inv, TypeOK
<1>1. ASSUME NEW r \in Requests, Submit(r) PROVE Promise!Submit(r)
  <2>1. body[r] = <<>>
    BY <1>1 DEF Submit, Goto, StageInv
  <2>2. Shown' = Shown /\ Drawn' = Drawn
    BY <1>1 DEF Submit, Goto, Shown, Drawn, OwnTokens, reply, scan
  <2>3. QED
    BY <1>1, <2>1, <2>2 DEF Submit, Promise!Submit, Shown, Drawn
<1>2. ASSUME NEW r \in Requests, Forward(r) PROVE Promise!Forward(r)
  <2>1. /\ body[r] # <<>> /\ sent[r] = <<>>
        /\ sent' = [sent EXCEPT ![r] = text[r]]
        /\ UNCHANGED body
    BY <1>2 DEF Forward, Goto, StageInv, Forwarded
  <2>2. Shown' = Shown /\ Drawn' = Drawn
    BY <1>2 DEF Forward, Goto, Shown, Drawn, OwnTokens, reply, scan
  <2>3. Clean(sent'[r]) /\ WordsOf(sent'[r]) \subseteq WordsOf(body[r])
    BY <2>1 DEF ScanInv, WordInv
  <2>4. sent' = [sent EXCEPT ![r] = sent'[r]]
    BY <2>1
  <2>5. QED
    BY <2>1, <2>2, <2>3, <2>4, SameReading DEF Promise!Forward, Promise!OnlyAt, Shown, Drawn
<1>3. ASSUME NEW r \in Requests, RestoreReturn(r) PROVE Promise!Deliver(r)
  <2>1. /\ sent[r] # <<>>
        /\ pc[r] = "restore" /\ pc' = [pc EXCEPT ![r] = "done"]
        /\ UNCHANGED <<body, sent, answer, details>>
    BY <1>3 DEF RestoreReturn, Goto, StageInv, Forwarded, reply, scan
  <2>2. /\ Shown[r] = <<>> /\ Shown'[r] = answer[r]
        /\ \A q \in Requests \ {r} : Shown'[q] = Shown[q]
    BY <2>1 DEF Shown
  <2>3. Shown' = [Shown EXCEPT ![r] = Shown'[r]]
    BY <2>2 DEF Shown
  <2>4. WordsOf(Shown'[r]) \subseteq UNION {WordsOf(body[q]) : q \in Sharers(r)}
    BY <2>2 DEF WordInv, SharedWords
  <2>5. Drawn' = Drawn
    BY <2>1 DEF Drawn, OwnTokens
  <2>6. Promise!WordsOf(Shown'[r])
          \subseteq UNION {Promise!WordsOf(body[q]) : q \in Promise!Sharers(r)}
    BY <2>4, SameReading
  <2>7. QED
    BY <2>1, <2>2, <2>3, <2>5, <2>6 DEF Promise!Deliver, Promise!OnlyAt, Shown, Drawn
<1>4. CASE UNCHANGED <<body, sent, pc, answer, details>>
  BY <1>4 DEF Promise!vars, OwnTokens
<1>5. ASSUME NEW r \in Requests, UNCHANGED <<body, sent, details>>,
             \/ LockForProcess(r) \/ MLAnnotate(r) \/ MLFail(r) \/ SpansDone(r)
             \/ ProcessReturn(r) \/ Block(r) \/ Pass(r) \/ UpstreamReply(r)
             \/ UpstreamFail(r)
      PROVE  UNCHANGED Promise!vars
  <2>1. /\ pc[r] # "done" /\ UNCHANGED answer
        /\ \E to \in Stages \ {"done"} : pc' = [pc EXCEPT ![r] = to]
    <3>1. CASE LockForProcess(r) \/ MLAnnotate(r) \/ MLFail(r)
      BY <3>1 DEF LockForProcess, MLAnnotate, MLFail, Goto, Stages, reply
    <3>2. CASE SpansDone(r) \/ ProcessReturn(r) \/ Block(r) \/ Pass(r)
      BY <3>2 DEF SpansDone, ProcessReturn, Block, Pass, Goto, Stages, reply
    <3>3. CASE UpstreamReply(r) \/ UpstreamFail(r)
      BY <3>3 DEF UpstreamReply, UpstreamFail, Goto, Stages, reply
    <3>4. QED
      BY <1>5, <3>1, <3>2, <3>3
  <2>2. \A q \in Requests : pc[q] # "done" <=> pc'[q] # "done"
    BY <2>1
  <2>3. Shown' = Shown
    BY <2>1, <2>2 DEF Shown
  <2>4. QED
    BY <1>5, <2>3 DEF Promise!vars, Shown, OwnTokens
<1>6. ASSUME NEW r \in Requests, RLockForRestore(r) \/ RestoreNext(r)
      PROVE  UNCHANGED Promise!vars
  <2>1. /\ pc[r] # "done" /\ pc'[r] # "done" /\ UNCHANGED <<body, sent, details>>
        /\ \A q \in Requests \ {r} : pc'[q] = pc[q] /\ answer'[q] = answer[q]
    <3>1. CASE RLockForRestore(r)
      BY <3>1 DEF RLockForRestore, Goto, scan
    <3>2. CASE RestoreNext(r)
      BY <3>2 DEF RestoreNext, scan
    <3>3. QED
      BY <1>6, <3>1, <3>2
  <2>2. Shown' = Shown
    BY <2>1 DEF Shown
  <2>3. QED
    BY <2>1, <2>2 DEF Promise!vars, Shown, OwnTokens
<1>7. ASSUME NEW r \in Requests, RedactSpan(r) \/ RedactMatch(r)
      PROVE  Promise!Draw(r)
  <2>1. TypeOK /\ StageInv
    OBVIOUS
  <2>2. QED
    BY <1>7, <2>1, MatchDraws
<1>8. ASSUME NEW r \in Requests, Process(r) PROVE [Promise!Next]_(Promise!vars)
  <2>1. CASE RedactSpan(r) \/ RedactMatch(r)
    BY <2>1, <1>7 DEF Promise!Next
  <2>2. CASE NextPattern(r)
    BY <2>2, <1>4 DEF NextPattern, reply
  <2>3. CASE \/ LockForProcess(r) \/ MLAnnotate(r) \/ MLFail(r)
             \/ SpansDone(r) \/ ProcessReturn(r)
    <3>1. UNCHANGED <<body, sent, details>>
      BY <2>3 DEF LockForProcess, MLAnnotate, MLFail, SpansDone, ProcessReturn, scan
    <3>2. QED
      BY <2>3, <3>1, <1>5
  <2>4. QED
    BY <1>8, <2>1, <2>2, <2>3 DEF Process
<1>9. ASSUME NEW r \in Requests, Exchange(r) \/ DeAnonymize(r)
      PROVE  [Promise!Next]_(Promise!vars)
  <2>1. CASE Forward(r)
    BY <2>1, <1>2 DEF Promise!Next
  <2>2. CASE RestoreReturn(r)
    BY <2>2, <1>3 DEF Promise!Next
  <2>3. CASE Block(r) \/ Pass(r) \/ UpstreamReply(r) \/ UpstreamFail(r)
    <3>1. UNCHANGED <<body, sent, details>>
      BY <2>3 DEF Block, Pass, UpstreamReply, UpstreamFail, scan
    <3>2. QED
      BY <2>3, <3>1, <1>5
  <2>4. CASE RLockForRestore(r) \/ RestoreNext(r)
    BY <2>4, <1>6
  <2>5. QED
    BY <1>9, <2>1, <2>2, <2>3, <2>4 DEF Exchange, DeAnonymize
<1>10. CASE SetStrictMode \/ EnableML \/ UNCHANGED vars
  BY <1>10, <1>4 DEF SetStrictMode, EnableML, vars, reply, scan
<1>11. CASE \E r \in Requests : Submit(r)
  BY <1>11, <1>1 DEF Promise!Next
<1>12. QED
  BY <1>8, <1>9, <1>10, <1>11 DEF Next

(* The engine with its lock, its map and its loops implements the promise   *)
(* that a body leaves clean and comes back in words of the client's own or  *)
(* of one that drew the same token.                                         *)
THEOREM EngineImplementsRedaction == Spec => RefinesRedaction
<1>1. QED
  BY Invariance, InitRefines, StepRefines, PTL DEF Spec, RefinesRedaction, Promise!Spec

-------------------------------------------------------------------------------
(* What a request's text, details and answer have to do with its body.      *)

(* No client writes something that looks like a token.                      *)
PlainBodies == \A b \in Bodies : \A i \in DOMAIN b : b[i].core \in Words

(* Every character of a body is one byte: the ML server's offsets, counted  *)
(* in characters, are the byte offsets processMLEntities takes them for.    *)
OneByteBodies == \A b \in Bodies : \A i \in DOMAIN b : b[i].core \notin Continuation

(* Before processContent has taken the lock.                                *)
Waiting == {"idle", "want"}

(* What is derived from a body keeps its length, and the provider is sent   *)
(* the text as scanned.                                                     *)
CopyInv ==
  \A r \in Requests :
    /\ body[r] \in Bodies \cup {<<>>}
    /\ pc[r] \notin Waiting => DOMAIN text[r] = DOMAIN body[r]
    /\ pc[r] = "ml" => text[r] = body[r]
    /\ pc[r] \in Forwarded => sent[r] = text[r]
    /\ pc[r] \notin {"restore", "done"} => next[r] = 1
    /\ pc[r] = "done" => next[r] \notin DOMAIN details[r]

(* What is put back replaces units in place, and never a token of another   *)
(* request.                                                                 *)
KeepInv ==
  \A r \in Requests : pc[r] \in {"restore", "done"} =>
    /\ DOMAIN answer[r] = DOMAIN received[r]
    /\ \A i \in DOMAIN received[r] :
         received[r][i].core \in Tokens \ OwnTokens(r) => answer[r][i] = received[r][i]

(* Of the places the ML server reported, those that still show a word are   *)
(* those whose span has not been applied yet; no other span is pending.     *)
FlaggedInv ==
  \A r \in Requests :
    /\ pc[r] \in Waiting \cup {"ml"} => flagged[r] = {}
    /\ pc[r] = "spans" => spans[r] \subseteq flagged[r]
    /\ \A i \in flagged[r] \cap DOMAIN text[r] :
         text[r][i].core \in Words => pc[r] = "spans" /\ i \in spans[r]

(* A value strict mode would block for is still in its place, or a detail   *)
(* of a blocked kind says where it went.                                    *)
BlockInv ==
  \A r \in Requests : pc[r] \notin Waiting =>
    \A i \in DOMAIN body[r] :
      SensitiveAt(r, i) /\ ~Detects(Password, body[r][i]) =>
        \/ text[r][i] = body[r][i]
        \/ \E j \in DOMAIN details[r] : details[r][j].kind \in CardOrSSN

(* Unit u is unit b, or restoring one of the details of r from the n-th on  *)
(* makes it b.                                                              *)
LeadsBack(r, u, b, n) ==
  \/ u = b
  \/ \E j \in DOMAIN details[r] :
       /\ j >= n /\ u.core = details[r][j].token
       /\ RestoreUnit(u, details[r][j].token, details[r][j].original) = b

(* While no match has swallowed a token and none was drawn twice, each      *)
(* place leads back to the body: in the scanned text by any detail, in the  *)
(* answer to an echo by a detail not restored yet.                          *)
BackInv ==
  \A r \in Requests : ~Nested(r) /\ ~Redrawn(r) =>
    /\ pc[r] \notin Waiting =>
         \A i \in DOMAIN body[r] : LeadsBack(r, text[r][i], body[r][i], 1)
    /\ pc[r] \in {"restore", "done"} /\ received[r] = sent[r] =>
         /\ DOMAIN answer[r] = DOMAIN body[r]
         /\ \A i \in DOMAIN body[r] : LeadsBack(r, answer[r][i], body[r][i], next[r])

(* Place i of r's text has given way to token t of kind k.                  *)
Redacted(r, i, k, t) ==
  /\ text' = [text EXCEPT ![r] = [text[r] EXCEPT ![i] = Redact(k, text[r][i], t)]]
  /\ details' = [details EXCEPT ![r] =
       Append(details[r],
              [kind |-> k, original |-> Original(k, text[r][i]), token |-> t])]

(* Why place i was replaced: an ML span, or a match of the pattern k.       *)
Because(r, i, k) ==
  \/ /\ pc[r] = "spans" /\ k \in MLKinds
     /\ i \in spans[r] /\ spans' = [spans EXCEPT ![r] = spans[r] \ {i}]
  \/ pc[r] = "regex" /\ Detects(k, text[r][i]) /\ spans' = spans

(* What one iteration of a redaction loop does, in full (engine.go 154-178, *)
(* 201-224).                                                                *)
LEMMA OneRedaction ==
  ASSUME TypeOK, NEW r \in Requests, RedactSpan(r) \/ RedactMatch(r)
  PROVE  /\ \E i \in DOMAIN text[r], k \in Patterns \cup MLKinds, t \in Tokens :
              Redacted(r, i, k, t) /\ Because(r, i, k)
         /\ UNCHANGED <<pc, body, flagged, sent, received, answer, next>>
<1>1. ASSUME NEW i \in DOMAIN text[r], NEW k \in Patterns \cup MLKinds,
             ReplaceMatch(r, i, k)
      PROVE  \E t \in Tokens : Redacted(r, i, k, t)
  <2>1. PICK t \in GenerateToken(k) :
          /\ text' = [text EXCEPT ![r][i] = Redact(k, text[r][i], t)]
          /\ details' = [details EXCEPT ![r] =
               Append(@, [kind |-> k, original |-> Original(k, text[r][i]), token |-> t])]
    BY <1>1 DEF ReplaceMatch
  <2>2. t \in Tokens
    BY DEF GenerateToken
  <2>3. text' = [text EXCEPT ![r] = [text[r] EXCEPT ![i] = Redact(k, text[r][i], t)]]
    BY <2>1 DEF TypeOK
  <2>4. Redacted(r, i, k, t)
    BY <2>1, <2>2, <2>3 DEF TypeOK, Redacted
  <2>5. QED
    BY <2>2, <2>4
<1>2. CASE RedactSpan(r)
  <2>1. PICK i \in ValidSpans(r), k \in MLKinds :
          /\ spans' = [spans EXCEPT ![r] = @ \ {i}]
          /\ ReplaceMatch(r, i, k)
    BY <1>2 DEF RedactSpan
  <2>2. i \in DOMAIN text[r] /\ i \in spans[r]
    BY DEF ValidSpans
  <2>3. /\ pc[r] = "spans"
        /\ UNCHANGED <<pc, body, flagged, sent, received, answer, next>>
    BY <1>2 DEF RedactSpan, reply
  <2>4. Because(r, i, k)
    BY <2>1, <2>2, <2>3 DEF TypeOK, Because
  <2>5. \E t \in Tokens : Redacted(r, i, k, t)
    BY <1>1, <2>1, <2>2
  <2>6. QED
    BY <2>2, <2>3, <2>4, <2>5
<1>3. CASE RedactMatch(r)
  <2>1. PICK i \in Matches(cur[r], text[r]) : ReplaceMatch(r, i, cur[r])
    BY <1>3 DEF RedactMatch
  <2>2. i \in DOMAIN text[r] /\ Detects(cur[r], text[r][i])
    BY DEF Matches
  <2>3. cur[r] \in Patterns
    BY <2>2, NoOneAssumption, KindsAssumption DEF Detects, TypeOK
  <2>4. /\ pc[r] = "regex" /\ spans' = spans
        /\ UNCHANGED <<pc, body, flagged, sent, received, answer, next>>
    BY <1>3 DEF RedactMatch, reply
  <2>5. Because(r, i, cur[r])
    BY <2>2, <2>4 DEF Because
  <2>6. \E t \in Tokens : Redacted(r, i, cur[r], t)
    BY <1>1, <2>1, <2>2, <2>3
  <2>7. QED
    BY <2>2, <2>3, <2>4, <2>5, <2>6
<1>4. QED
  BY <1>2, <1>3

(* What the other steps leave alone, as far as bodies, texts and details    *)
(* are concerned (engine.go 123-147, proxy.go 94-139).                      *)
LEMMA OtherSteps ==
  ASSUME TypeOK, [Next]_vars,
         \A r \in Requests : ~(RedactSpan(r) \/ RedactMatch(r))
  PROVE  details' = details
<1>1. QED
  BY DEF Next, vars, Process, Exchange, DeAnonymize, engine, scan, reply,
     Submit, LockForProcess, MLAnnotate, MLFail, SpansDone, NextPattern,
     ProcessReturn, Block, Pass, Forward, UpstreamReply, UpstreamFail,
     RLockForRestore, RestoreNext, RestoreReturn, SetStrictMode, EnableML

(* Lengths, what is sent and where the restoring starts (engine.go 238-249).*)
LEMMA CopyStep == TypeOK /\ CopyInv /\ [Next]_vars => CopyInv'
<1> SUFFICES ASSUME TypeOK, CopyInv, [Next]_vars PROVE CopyInv'
  OBVIOUS
<1> USE DEF CopyInv, TypeOK, Goto, engine, scan, reply, Forwarded, Waiting
<1>1. ASSUME NEW r \in Requests, Submit(r) PROVE CopyInv'
  BY <1>1 DEF Submit
<1>2. ASSUME NEW r \in Requests, LockForProcess(r) PROVE CopyInv'
  BY <1>2 DEF LockForProcess
<1>3. ASSUME NEW r \in Requests, MLAnnotate(r) \/ MLFail(r) \/ SpansDone(r)
      PROVE  CopyInv'
  BY <1>3 DEF MLAnnotate, MLFail, SpansDone
<1>4. ASSUME NEW r \in Requests, RedactSpan(r) \/ RedactMatch(r) PROVE CopyInv'
  <2>1. PICK i \in DOMAIN text[r], k \in Patterns \cup MLKinds, t \in Tokens :
          Redacted(r, i, k, t) /\ Because(r, i, k)
    BY <1>4, OneRedaction
  <2>2. UNCHANGED <<pc, body, sent, next>> /\ pc[r] \in {"spans", "regex"}
    BY <1>4, <2>1, OneRedaction DEF Because
  <2>3. /\ \A q \in Requests \ {r} : text'[q] = text[q] /\ details'[q] = details[q]
        /\ DOMAIN text'[r] = DOMAIN text[r]
    BY <2>1 DEF Redacted
  <2>4. QED
    BY <2>2, <2>3
<1>5. ASSUME NEW r \in Requests, NextPattern(r) \/ ProcessReturn(r)
      PROVE  CopyInv'
  BY <1>5 DEF NextPattern, ProcessReturn
<1>6. ASSUME NEW r \in Requests, Exchange(r) PROVE CopyInv'
  <2>1. CASE Block(r) \/ Pass(r) \/ UpstreamReply(r) \/ UpstreamFail(r)
    BY <2>1 DEF Block, Pass, UpstreamReply, UpstreamFail
  <2>2. CASE Forward(r)
    BY <2>2 DEF Forward
  <2>3. QED
    BY <1>6, <2>1, <2>2 DEF Exchange
<1>7. ASSUME NEW r \in Requests, DeAnonymize(r) PROVE CopyInv'
  BY <1>7 DEF DeAnonymize, RLockForRestore, RestoreNext, RestoreReturn
<1>8. CASE SetStrictMode \/ EnableML \/ UNCHANGED vars
  BY <1>8 DEF SetStrictMode, EnableML, vars
<1>9. QED
  BY <1>1, <1>2, <1>3, <1>4, <1>5, <1>6, <1>7, <1>8 DEF Next, Process

(* Restoring own tokens leaves the others alone (engine.go 241-246).        *)
LEMMA KeepStep == TypeOK /\ KeepInv /\ [Next]_vars => KeepInv'
<1> SUFFICES ASSUME TypeOK, KeepInv, [Next]_vars PROVE KeepInv'
  OBVIOUS
<1>1. ASSUME NEW r \in Requests, RLockForRestore(r) PROVE KeepInv'
  BY <1>1 DEF RLockForRestore, Goto, KeepInv, OwnTokens, TypeOK, scan
<1>2. ASSUME NEW r \in Requests, RestoreNext(r) PROVE KeepInv'
  <2> DEFINE t == details[r][next[r]].token
  <2>1. pc[r] = "restore" /\ t \in OwnTokens(r)
    BY <1>2 DEF RestoreNext, OwnTokens
  <2>2. UNCHANGED <<pc, received, details>>
    BY <1>2 DEF RestoreNext, scan
  <2>3. \A q \in Requests \ {r} : answer'[q] = answer[q]
    BY <1>2 DEF RestoreNext, TypeOK
  <2>4. /\ DOMAIN answer'[r] = DOMAIN answer[r]
        /\ \A i \in DOMAIN answer[r] :
             answer[r][i].core # t => answer'[r][i] = answer[r][i]
    <3>1. CASE tokenMap[t] = Absent
      BY <1>2, <3>1 DEF RestoreNext
    <3>2. CASE tokenMap[t] # Absent
      <4>1. answer'[r] = ReplaceAll(answer[r], t, tokenMap[t])
        BY <1>2, <3>2 DEF RestoreNext, TypeOK
      <4>2. QED
        BY <4>1 DEF ReplaceAll, RestoreUnit
    <3>3. QED
      BY <3>1, <3>2
  <2>5. QED
    BY <2>1, <2>2, <2>3, <2>4 DEF KeepInv, OwnTokens
<1>3. ASSUME NEW r \in Requests, RestoreReturn(r) PROVE KeepInv'
  BY <1>3 DEF RestoreReturn, Goto, KeepInv, OwnTokens, TypeOK, scan, reply
<1>4. ASSUME NEW r \in Requests, RedactSpan(r) \/ RedactMatch(r) PROVE KeepInv'
  <2>1. /\ UNCHANGED <<pc, received, answer>> /\ pc[r] \in {"spans", "regex"}
        /\ \A q \in Requests \ {r} : details'[q] = details[q]
    BY <1>4, RedactSteps, ReplaceMatchEffect
  <2>2. QED
    BY <2>1 DEF KeepInv, OwnTokens
<1>5. ASSUME NEW r \in Requests,
             \/ Submit(r) \/ LockForProcess(r) \/ MLAnnotate(r) \/ MLFail(r)
             \/ SpansDone(r) \/ ProcessReturn(r) \/ Exchange(r)
      PROVE  KeepInv'
  <2>1. /\ pc'[r] \notin {"restore", "done"} /\ UNCHANGED <<answer, details>>
        /\ \A q \in Requests \ {r} : pc'[q] = pc[q] /\ received'[q] = received[q]
    <3>1. CASE Submit(r) \/ LockForProcess(r) \/ MLAnnotate(r) \/ MLFail(r)
      BY <3>1 DEF Submit, LockForProcess, MLAnnotate, MLFail, Goto, TypeOK, scan, reply
    <3>2. CASE SpansDone(r) \/ ProcessReturn(r)
      BY <3>2 DEF SpansDone, ProcessReturn, Goto, TypeOK, scan, reply
    <3>3. CASE Exchange(r)
      BY <3>3 DEF Exchange, Block, Pass, Forward, UpstreamReply, UpstreamFail, Goto,
         TypeOK, scan, reply
    <3>4. QED
      BY <1>5, <3>1, <3>2, <3>3
  <2>2. QED
    BY <2>1 DEF KeepInv, OwnTokens
<1>6. CASE UNCHANGED <<pc, received, answer, details>>
  BY <1>6 DEF KeepInv, OwnTokens
<1>7. QED
  BY <1>1, <1>2, <1>3, <1>4, <1>5, <1>6 DEF Next, vars, Process, DeAnonymize,
     engine, scan, reply, NextPattern, SetStrictMode, EnableML

(* In a text of one-byte characters an offset in characters is the offset   *)
(* in bytes (engine.go 201-205).                                            *)
LEMMA OffsetsAgree ==
  ASSUME NEW x \in Texts, NEW i \in DOMAIN x,
         \A j \in DOMAIN x : x[j].core \notin Continuation
  PROVE  CharOffset(x, i) = i
<1>1. x \in Seq(Units) /\ DOMAIN x = 1..Len(x) /\ Len(x) \in Nat /\ i \in Nat /\ i >= 1
  BY DEF Texts
<1>2. 1..i \subseteq DOMAIN x
  BY <1>1
<1>3. {j \in 1..i : x[j].core \notin Continuation} = 1..i
  BY <1>2
<1>4. Cardinality(1..i) = i
  BY <1>1, FS_Interval
<1>5. QED
  BY <1>3, <1>4 DEF CharOffset

(* Every span of the ML server is applied where the name is, or is still to *)
(* be applied there (engine.go 184-224).                                    *)
LEMMA FlaggedStep ==
  ASSUME OneByteBodies
  PROVE  TypeOK /\ CopyInv /\ FlaggedInv /\ [Next]_vars => FlaggedInv'
<1> SUFFICES ASSUME TypeOK, CopyInv, FlaggedInv, [Next]_vars PROVE FlaggedInv'
  OBVIOUS
<1>1. ASSUME NEW r \in Requests, Submit(r) \/ LockForProcess(r) PROVE FlaggedInv'
  BY <1>1 DEF Submit, LockForProcess, Goto, FlaggedInv, TypeOK, scan, Waiting
<1>2. ASSUME NEW r \in Requests, MLAnnotate(r) PROVE FlaggedInv'
  <2>1. PICK F \in SUBSET {i \in DOMAIN text[r] : text[r][i].core \in Names} :
          /\ spans'   = [spans EXCEPT ![r] = {CharOffset(text[r], i) : i \in F}]
          /\ flagged' = [flagged EXCEPT ![r] = F]
    BY <1>2 DEF MLAnnotate
  <2>2. pc[r] = "ml" /\ text[r] = body[r] /\ text[r] \in Texts
    BY <1>2 DEF MLAnnotate, Goto, CopyInv, TypeOK
  <2>3. \A j \in DOMAIN text[r] : text[r][j].core \notin Continuation
    BY <2>2 DEF CopyInv, OneByteBodies
  <2>4. \A i \in F : CharOffset(text[r], i) = i
    BY <2>2, <2>3, OffsetsAgree
  <2>5. {CharOffset(text[r], i) : i \in F} = F
    BY <2>4
  <2>6. spans'[r] = F /\ flagged'[r] = F /\ pc'[r] = "spans" /\ text' = text
    BY <1>2, <2>1, <2>5 DEF MLAnnotate, Goto, TypeOK
  <2>7. \A q \in Requests \ {r} :
          spans'[q] = spans[q] /\ flagged'[q] = flagged[q] /\ pc'[q] = pc[q]
    BY <1>2, <2>1 DEF MLAnnotate, Goto, TypeOK
  <2>8. QED
    BY <2>6, <2>7 DEF FlaggedInv, Waiting
<1>3. ASSUME NEW r \in Requests, MLFail(r) PROVE FlaggedInv'
  BY <1>3 DEF MLFail, Goto, FlaggedInv, TypeOK, scan, Waiting
<1>4. ASSUME NEW r \in Requests, SpansDone(r) PROVE FlaggedInv'
  <2>1. spans[r] \cap DOMAIN text[r] = {}
    BY <1>4 DEF SpansDone, ValidSpans
  <2>2. /\ pc[r] = "spans" /\ pc' = [pc EXCEPT ![r] = "regex"]
        /\ UNCHANGED <<spans, flagged, text>>
    BY <1>4 DEF SpansDone, Goto, scan
  <2>3. QED
    BY <2>1, <2>2 DEF FlaggedInv, TypeOK, Waiting
<1>5. ASSUME NEW r \in Requests, RedactSpan(r) \/ RedactMatch(r) PROVE FlaggedInv'
  <2>1. PICK i \in DOMAIN text[r], k \in Patterns \cup MLKinds, t \in Tokens :
          Redacted(r, i, k, t) /\ Because(r, i, k)
    BY <1>5, OneRedaction
  <2>2. UNCHANGED <<pc, flagged>> /\ pc[r] \in {"spans", "regex"}
    BY <1>5, <2>1, OneRedaction DEF Because
  <2>3. /\ \A q \in Requests \ {r} : text'[q] = text[q] /\ spans'[q] = spans[q]
        /\ DOMAIN text'[r] = DOMAIN text[r]
        /\ \A j \in DOMAIN text[r] \ {i} : text'[r][j] = text[r][j]
        /\ text'[r][i].core = t
        /\ spans'[r] \subseteq spans[r] /\ spans[r] \ {i} \subseteq spans'[r]
    BY <2>1 DEF Redacted, Because, Redact, TypeOK
  <2>4. t \notin Words
    BY DisjointAssumption
  <2>5. QED
    BY <2>2, <2>3, <2>4 DEF FlaggedInv, Waiting
<1>6. ASSUME NEW r \in Requests, ProcessReturn(r) \/ Exchange(r) \/ DeAnonymize(r)
      PROVE  FlaggedInv'
  <2>1. /\ UNCHANGED <<spans, flagged, text>>
        /\ pc[r] \notin Waiting \cup {"ml", "spans"}
        /\ pc'[r] \notin Waiting \cup {"ml", "spans"}
        /\ \A q \in Requests \ {r} : pc'[q] = pc[q]
    <3>1. CASE ProcessReturn(r)
      BY <3>1 DEF ProcessReturn, Goto, TypeOK, Waiting
    <3>2. CASE Exchange(r)
      BY <3>2 DEF Exchange, Block, Pass, Forward, UpstreamReply, UpstreamFail, Goto,
         TypeOK, scan, Waiting
    <3>3. CASE DeAnonymize(r)
      BY <3>3 DEF DeAnonymize, RLockForRestore, RestoreNext, RestoreReturn, Goto,
         TypeOK, scan, Waiting
    <3>4. QED
      BY <1>6, <3>1, <3>2, <3>3
  <2>2. QED
    BY <2>1 DEF FlaggedInv
<1>7. CASE UNCHANGED <<pc, spans, flagged, text>>
  BY <1>7 DEF FlaggedInv
<1>8. QED
  BY <1>1, <1>2, <1>3, <1>4, <1>5, <1>6, <1>7 DEF Next, vars, Process,
     scan, NextPattern, SetStrictMode, EnableML

(* A value strict mode would block for leaves its place only with a detail  *)
(* of a blocking kind (engine.go 154-178, 252-265).                         *)
LEMMA BlockStep ==
  TypeOK /\ CopyInv /\ FlaggedInv /\ BlockInv /\ [Next]_vars => BlockInv'
<1> SUFFICES ASSUME TypeOK, CopyInv, FlaggedInv, BlockInv, [Next]_vars
             PROVE  BlockInv'
  OBVIOUS
<1>1. ASSUME NEW r \in Requests, Submit(r) \/ LockForProcess(r) PROVE BlockInv'
  <2>1. CASE Submit(r)
    <3>1. /\ pc'[r] \in Waiting /\ UNCHANGED <<text, flagged, details>>
          /\ \A q \in Requests \ {r} : pc'[q] = pc[q] /\ body'[q] = body[q]
      BY <2>1 DEF Submit, Goto, TypeOK, scan, Waiting
    <3>2. QED
      BY <3>1 DEF BlockInv, SensitiveAt
  <2>2. CASE LockForProcess(r)
    <3>1. /\ text'[r] = body[r] /\ UNCHANGED <<body, flagged, details>>
          /\ \A q \in Requests \ {r} : pc'[q] = pc[q] /\ text'[q] = text[q]
      BY <2>2 DEF LockForProcess, Goto, TypeOK
    <3>2. QED
      BY <3>1 DEF BlockInv, SensitiveAt
  <2>3. QED
    BY <1>1, <2>1, <2>2
<1>2. ASSUME NEW r \in Requests, MLAnnotate(r) PROVE BlockInv'
  <2>1. text[r] = body[r] /\ UNCHANGED <<text, body, details>>
    BY <1>2 DEF MLAnnotate, Goto, CopyInv
  <2>2. \A q \in Requests \ {r} : pc'[q] = pc[q] /\ flagged'[q] = flagged[q]
    BY <1>2 DEF MLAnnotate, Goto, TypeOK
  <2>3. QED
    BY <2>1, <2>2 DEF BlockInv, SensitiveAt
<1>3. ASSUME NEW r \in Requests, RedactSpan(r) \/ RedactMatch(r) PROVE BlockInv'
  <2>1. PICK i \in DOMAIN text[r], k \in Patterns \cup MLKinds, t \in Tokens :
          Redacted(r, i, k, t) /\ Because(r, i, k)
    BY <1>3, OneRedaction
  <2> DEFINE n == Len(details[r]) + 1
  <2>2. UNCHANGED <<pc, body, flagged>> /\ pc[r] \in {"spans", "regex"}
    BY <1>3, <2>1, OneRedaction DEF Because
  <2>3. /\ \A q \in Requests \ {r} : text'[q] = text[q] /\ details'[q] = details[q]
        /\ \A j \in DOMAIN text[r] \ {i} : text'[r][j] = text[r][j]
    BY <2>1 DEF Redacted, TypeOK
  <2>4. /\ \A j \in DOMAIN details[r] :
             j \in DOMAIN details'[r] /\ details'[r][j] = details[r][j]
        /\ n \in DOMAIN details'[r] /\ details'[r][n].kind = k
    BY <2>1 DEF Redacted, TypeOK
  <2>5. ASSUME SensitiveAt(r, i), ~Detects(Password, body[r][i]), text[r][i] = body[r][i]
        PROVE  k \in CardOrSSN
    <3>1. i \notin flagged[r] /\ body[r][i].core \in Words
          /\ KindsOf[body[r][i].core] \subseteq CardOrSSN
      BY <2>5 DEF SensitiveAt
    <3>2. ~(pc[r] = "spans" /\ i \in spans[r])
      BY <3>1 DEF FlaggedInv
    <3>3. Detects(k, text[r][i])
      BY <2>1, <3>2 DEF Because
    <3>4. k \in KindsOf[body[r][i].core]
      BY <2>5, <3>3 DEF Detects
    <3>5. QED
      BY <3>1, <3>4
  <2>6. ASSUME NEW j \in DOMAIN body[r], SensitiveAt(r, j), ~Detects(Password, body[r][j])
        PROVE  \/ text'[r][j] = body[r][j]
               \/ \E m \in DOMAIN details'[r] : details'[r][m].kind \in CardOrSSN
    <3>1. j \in DOMAIN text[r]
      BY <2>2 DEF CopyInv, Waiting
    <3>2. CASE \E m \in DOMAIN details[r] : details[r][m].kind \in CardOrSSN
      BY <2>4, <3>2
    <3>3. CASE text[r][j] = body[r][j] /\ j # i
      BY <2>3, <3>1, <3>3
    <3>4. CASE text[r][j] = body[r][j] /\ j = i
      BY <2>4, <2>5, <2>6, <3>4
    <3>5. QED
      BY <2>2, <2>6, <3>2, <3>3, <3>4 DEF BlockInv, Waiting
  <2>7. QED
    BY <2>2, <2>3, <2>6 DEF BlockInv, SensitiveAt
<1>4. ASSUME NEW r \in Requests, MLFail(r) \/ SpansDone(r) \/ ProcessReturn(r)
      PROVE  BlockInv'
  BY <1>4 DEF MLFail, SpansDone, ProcessReturn, Goto, BlockInv, SensitiveAt, TypeOK,
     scan, Waiting
<1>5. ASSUME NEW r \in Requests, Exchange(r) \/ DeAnonymize(r) PROVE BlockInv'
  <2>1. /\ UNCHANGED <<body, text, flagged, details>>
        /\ \A q \in Requests : pc'[q] \notin Waiting => pc[q] \notin Waiting
    <3>1. CASE Exchange(r)
      BY <3>1 DEF Exchange, Block, Pass, Forward, UpstreamReply, UpstreamFail, Goto,
         TypeOK, scan, Waiting
    <3>2. CASE DeAnonymize(r)
      BY <3>2 DEF DeAnonymize, RLockForRestore, RestoreNext, RestoreReturn, Goto,
         TypeOK, scan, Waiting
    <3>3. QED
      BY <1>5, <3>1, <3>2
  <2>2. QED
    BY <2>1 DEF BlockInv, SensitiveAt
<1>6. CASE UNCHANGED <<pc, body, text, flagged, details>>
  BY <1>6 DEF BlockInv, SensitiveAt
<1>7. QED
  BY <1>1, <1>2, <1>3, <1>4, <1>5, <1>6 DEF Next, vars, Process,
     scan, NextPattern, SetStrictMode, EnableML

(* A replaced unit is put back by the detail of its replacement, label and  *)
(* all: the password pattern only cuts out what has a label (engine.go 161, *)
(* 177, 244).                                                               *)
LEMMA RedactRestores ==
  ASSUME NEW u \in Units, NEW k, NEW t, k = Password => u.pw
  PROVE  RestoreUnit(Redact(k, u, t), t, Original(k, u)) = u
<1> DEFINE v == Redact(k, u, t)
           o == Original(k, u)
<1>1. v.pw = (u.pw /\ k # Password) /\ v.core = t
  BY DEF Redact
<1>2. u.pw \in BOOLEAN /\ u = [pw |-> u.pw, core |-> u.core]
  BY DEF Units
<1>3. o.pw = (k = Password) /\ o.core = u.core
  BY <1>2 DEF Original, Units
<1>4. RestoreUnit(v, t, o) = [pw |-> v.pw \/ o.pw, core |-> o.core]
  BY <1>1 DEF RestoreUnit
<1>5. (v.pw \/ o.pw) = u.pw
  <2>1. CASE k = Password
    BY <2>1, <1>1, <1>2, <1>3
  <2>2. CASE k # Password
    BY <2>2, <1>1, <1>2, <1>3
  <2>3. QED
    BY <2>1, <2>2
<1>6. QED
  BY <1>2, <1>3, <1>4, <1>5

(* A flat redaction takes a unit that is still the client's own and leaves  *)
(* a way back; the way back of every other place is unchanged.              *)
LEMMA BackRedacts ==
  ASSUME TypeOK, CopyInv, BackInv, NEW r \in Requests,
         RedactSpan(r) \/ RedactMatch(r)
  PROVE  BackInv'
<1>1. PICK i \in DOMAIN text[r], k \in Patterns \cup MLKinds, t \in Tokens :
        Redacted(r, i, k, t) /\ Because(r, i, k)
  BY OneRedaction
<1> DEFINE n == Len(details[r]) + 1
           u == text[r][i]
<1>2. /\ UNCHANGED <<pc, body, sent, received, answer, next>>
      /\ pc[r] \in {"spans", "regex"}
  BY <1>1, OneRedaction DEF Because
<1>3. /\ \A q \in Requests \ {r} : text'[q] = text[q] /\ details'[q] = details[q]
      /\ \A j \in DOMAIN text[r] \ {i} : text'[r][j] = text[r][j]
      /\ text'[r][i] = Redact(k, u, t)
      /\ DOMAIN text[r] = DOMAIN body[r]
  BY <1>1, <1>2 DEF Redacted, TypeOK, CopyInv, Waiting
<1>4. /\ \A j \in DOMAIN details[r] :
           j \in DOMAIN details'[r] /\ details'[r][j] = details[r][j]
      /\ n \in DOMAIN details'[r] /\ n >= 1
      /\ details'[r][n].token = t /\ details'[r][n].original = Original(k, u)
  BY <1>1 DEF Redacted, TypeOK
<1>5. u \in Units /\ body[r] \in Bodies
  <2>1. text[r] \in Seq(Units) /\ i \in DOMAIN body[r]
    BY <1>3 DEF TypeOK, Texts
  <2>2. QED
    BY <2>1 DEF CopyInv
<1>6. k = Password => u.pw
  BY <1>1, MLKindsAssumption DEF Because, Detects
<1>0. ASSUME NEW q \in Requests, ~Redrawn(q)' PROVE ~Redrawn(q)
  <2>1. \A x \in Requests : \A j \in DOMAIN details[x] :
          j \in DOMAIN details'[x] /\ details'[x][j] = details[x][j]
    BY <1>3, <1>4
  <2>2. QED
    BY <1>0, <2>1 DEF Redrawn
<1>7. ASSUME ~Nested(r)', ~Redrawn(r)', NEW j \in DOMAIN body[r]
      PROVE  LeadsBack(r, text[r][j], body[r][j], 1)'
  <2>1. ~Nested(r) /\ u.core \notin Tokens /\ ~Redrawn(r)
    BY <1>0, <1>4, <1>5, <1>7 DEF Nested, Original, Units
  <2>2. LeadsBack(r, text[r][j], body[r][j], 1)
    BY <1>2, <2>1 DEF BackInv, Waiting
  <2>3. CASE j # i
    BY <1>2, <1>3, <1>4, <2>2, <2>3 DEF LeadsBack
  <2>4. CASE j = i
    <3>1. u = body[r][i]
      BY <2>1, <2>2, <2>4, DetailTypes DEF LeadsBack
    <3>2. RestoreUnit(text'[r][i], t, Original(k, u)) = body'[r][i]
      BY <1>2, <1>3, <1>5, <1>6, <3>1, RedactRestores
    <3>3. text'[r][i].core = t
      BY <1>3 DEF Redact
    <3>4. QED
      BY <1>4, <2>4, <3>2, <3>3 DEF LeadsBack
  <2>5. QED
    BY <2>3, <2>4
<1>8. ASSUME NEW q \in Requests \ {r} PROVE Nested(q)' <=> Nested(q)
  BY <1>3 DEF Nested
<1>9. ASSUME NEW q \in Requests \ {r}, ~Nested(q)', ~Redrawn(q)',
             pc'[q] \notin Waiting, NEW j \in DOMAIN body'[q]
      PROVE  LeadsBack(q, text[q][j], body[q][j], 1)'
  <2>1. LeadsBack(q, text[q][j], body[q][j], 1)
    BY <1>0, <1>2, <1>8, <1>9 DEF BackInv
  <2>2. QED
    BY <1>2, <1>3, <2>1 DEF LeadsBack
<1>10. ASSUME NEW q \in Requests \ {r}, ~Nested(q)', ~Redrawn(q)',
              pc'[q] \in {"restore", "done"}, received'[q] = sent'[q]
       PROVE  /\ DOMAIN answer'[q] = DOMAIN body'[q]
              /\ \A j \in DOMAIN body'[q] :
                   LeadsBack(q, answer[q][j], body[q][j], next[q])'
  <2>1. /\ DOMAIN answer[q] = DOMAIN body[q]
        /\ \A j \in DOMAIN body[q] : LeadsBack(q, answer[q][j], body[q][j], next[q])
    BY <1>0, <1>2, <1>8, <1>10 DEF BackInv
  <2>2. QED
    BY <1>2, <1>3, <2>1 DEF LeadsBack
<1>11. QED
  BY <1>2, <1>7, <1>9, <1>10 DEF BackInv

(* Restoring the next detail takes its place all the way back and no other  *)
(* place anywhere (engine.go 241-246).                                      *)
LEMMA BackRestores ==
  ASSUME TypeOK, CopyInv, MapInv, BackInv, PlainBodies,
         NEW r \in Requests, RestoreNext(r)
  PROVE  BackInv'
<1> DEFINE n == next[r]
           t == details[r][n].token
           o == details[r][n].original
<1>1. n \in DOMAIN details[r] /\ n \in Nat /\ pc[r] = "restore"
  BY DEF RestoreNext, TypeOK
<1>2. t \in Tokens /\ o \in Units
  BY <1>1, DetailTypes
<1>3. /\ UNCHANGED <<pc, body, text, details, sent, received>>
      /\ next' = [next EXCEPT ![r] = n + 1]
      /\ answer' = IF tokenMap[t] = Absent THEN answer
                     ELSE [answer EXCEPT ![r] = ReplaceAll(@, t, tokenMap[t])]
  BY DEF RestoreNext, scan
<1>4. ASSUME ~Redrawn(r)
      PROVE  /\ answer' = [answer EXCEPT ![r] = ReplaceAll(answer[r], t, o)]
             /\ \A i \in DOMAIN details[r] : details[r][i].token = t => i = n
  <2>1. tokenMap[t] # Absent
    BY <1>1, <1>2 DEF MapInv, OwnTokens
  <2>q. PICK q \in Requests : \E i \in DOMAIN details[q] :
          details[q][i].token = t /\ details[q][i].original = tokenMap[t]
    BY <1>2, <2>1 DEF MapInv
  <2>2. PICK i \in DOMAIN details[q] :
          details[q][i].token = t /\ details[q][i].original = tokenMap[t]
    BY <2>q
  <2>3. \A x \in Requests : \A j \in DOMAIN details[x] :
          details[x][j].token = t => <<x, j>> = <<r, n>>
    BY <1>1, <1>4 DEF Redrawn
  <2>4. q = r /\ i = n
    BY <2>2, <2>3
  <2>5. tokenMap[t] = o
    BY <2>2, <2>4
  <2>6. QED
    BY <1>3, <2>1, <2>3, <2>5
<1>5. \A q \in Requests \ {r} : answer'[q] = answer[q] /\ next'[q] = next[q]
  BY <1>3 DEF TypeOK
<1>6. ASSUME ~Redrawn(r)
      PROVE  /\ DOMAIN answer'[r] = DOMAIN answer[r] /\ next'[r] = n + 1
             /\ \A i \in DOMAIN answer[r] :
                  answer'[r][i] = RestoreUnit(answer[r][i], t, o)
  BY <1>3, <1>4, <1>6 DEF TypeOK, ReplaceAll
<1>7. ASSUME ~Nested(r), ~Redrawn(r), received[r] = sent[r], NEW i \in DOMAIN body[r]
      PROVE  LeadsBack(r, answer[r][i], body[r][i], next[r])'
  <2>1. /\ DOMAIN answer[r] = DOMAIN body[r]
        /\ LeadsBack(r, answer[r][i], body[r][i], n)
    BY <1>1, <1>7 DEF BackInv
  <2>2. CASE answer[r][i] = body[r][i]
    <3>1. body[r] \in Bodies
      BY <2>1 DEF CopyInv
    <3>2. body[r][i].core \in Words
      BY <3>1 DEF PlainBodies
    <3>3. body[r][i].core # t
      BY <1>2, <3>2, DisjointAssumption
    <3>4. answer'[r][i] = body[r][i]
      BY <1>6, <1>7, <2>1, <2>2, <3>3 DEF RestoreUnit
    <3>5. QED
      BY <1>3, <3>4 DEF LeadsBack
  <2>3. CASE answer[r][i] # body[r][i]
    <3>1. PICK j \in DOMAIN details[r] :
            /\ j >= n /\ answer[r][i].core = details[r][j].token
            /\ RestoreUnit(answer[r][i], details[r][j].token, details[r][j].original)
                 = body[r][i]
      BY <2>1, <2>3 DEF LeadsBack
    <3>2. CASE j = n
      BY <1>3, <1>6, <1>7, <2>1, <3>1, <3>2 DEF LeadsBack
    <3>3. CASE j # n
      <4>1. details[r][j].token # t
        BY <1>1, <1>4, <1>7, <3>3
      <4>2. answer'[r][i] = answer[r][i]
        BY <1>6, <1>7, <2>1, <3>1, <4>1 DEF RestoreUnit
      <4>3. j >= n + 1
        <5>1. j \in Nat
          BY <1>1 DEF TypeOK
        <5>2. QED
          BY <1>1, <3>1, <3>3, <5>1
      <4>4. QED
        BY <1>3, <1>6, <1>7, <3>1, <4>2, <4>3 DEF LeadsBack
    <3>4. QED
      BY <3>2, <3>3
  <2>4. QED
    BY <2>2, <2>3
<1>8. \A q \in Requests : (Nested(q)' <=> Nested(q)) /\ (Redrawn(q)' <=> Redrawn(q))
  BY <1>3 DEF Nested, Redrawn
<1>9. ASSUME NEW q \in Requests, NEW j \in DOMAIN body[q],
             LeadsBack(q, text[q][j], body[q][j], 1)
      PROVE  LeadsBack(q, text[q][j], body[q][j], 1)'
  BY <1>3, <1>9 DEF LeadsBack
<1>10. ASSUME NEW q \in Requests \ {r}, NEW j \in DOMAIN body[q],
              LeadsBack(q, answer[q][j], body[q][j], next[q])
       PROVE  LeadsBack(q, answer[q][j], body[q][j], next[q])'
  BY <1>3, <1>5, <1>10 DEF LeadsBack
<1>11. ~Nested(r) /\ ~Redrawn(r) /\ received[r] = sent[r] => DOMAIN answer'[r] = DOMAIN body[r]
  BY <1>1, <1>6 DEF BackInv
<1>12. QED
  BY <1>3, <1>5, <1>7, <1>8, <1>9, <1>10, <1>11 DEF BackInv

(* Every other step leaves the ways back alone, or starts them: the text is *)
(* the body, the answer is the reply (engine.go 133-135, 239).              *)
LEMMA BackStep ==
  ASSUME PlainBodies
  PROVE  /\ TypeOK /\ CopyInv /\ MapInv /\ BackInv /\ [Next]_vars
         => BackInv'
<1> SUFFICES ASSUME TypeOK, CopyInv, MapInv, BackInv, [Next]_vars
             PROVE  BackInv'
  OBVIOUS
<1>1. ASSUME NEW r \in Requests, RedactSpan(r) \/ RedactMatch(r) PROVE BackInv'
  BY <1>1, BackRedacts
<1>2. ASSUME NEW r \in Requests, RestoreNext(r) PROVE BackInv'
  BY <1>2, BackRestores
<1>3. ASSUME NEW r \in Requests, details' = details,
             \A q \in Requests \ {r} :
               /\ pc'[q] = pc[q] /\ body'[q] = body[q] /\ text'[q] = text[q]
               /\ sent'[q] = sent[q] /\ received'[q] = received[q]
               /\ answer'[q] = answer[q] /\ next'[q] = next[q],
             ~Nested(r) /\ ~Redrawn(r) =>
               /\ pc'[r] \notin Waiting =>
                    \A i \in DOMAIN body'[r] :
                      LeadsBack(r, text'[r][i], body'[r][i], 1)
               /\ pc'[r] \in {"restore", "done"} /\ received'[r] = sent'[r] =>
                    /\ DOMAIN answer'[r] = DOMAIN body'[r]
                    /\ \A i \in DOMAIN body'[r] :
                         LeadsBack(r, answer'[r][i], body'[r][i], next'[r])
      PROVE  BackInv'
  BY <1>3 DEF BackInv, LeadsBack, Nested, Redrawn
<1>4. ASSUME NEW r \in Requests, Submit(r) PROVE BackInv'
  BY <1>4, <1>3 DEF Submit, Goto, TypeOK, scan, reply, Waiting
<1>5. ASSUME NEW r \in Requests, LockForProcess(r) PROVE BackInv'
  BY <1>5, <1>3 DEF LockForProcess, Goto, TypeOK, reply, LeadsBack
<1>6. ASSUME NEW r \in Requests,
             \/ MLAnnotate(r) \/ MLFail(r) \/ SpansDone(r) \/ ProcessReturn(r)
             \/ Exchange(r)
      PROVE  BackInv'
  <2>1. /\ details' = details /\ UNCHANGED <<body, text, answer, next>>
        /\ pc[r] \notin Waiting /\ pc'[r] \notin {"restore", "done"}
        /\ \A q \in Requests \ {r} :
             pc'[q] = pc[q] /\ sent'[q] = sent[q] /\ received'[q] = received[q]
    <3>1. CASE MLAnnotate(r) \/ MLFail(r)
      BY <3>1 DEF MLAnnotate, MLFail, Goto, TypeOK, scan, reply, Waiting
    <3>2. CASE SpansDone(r) \/ ProcessReturn(r)
      BY <3>2 DEF SpansDone, ProcessReturn, Goto, TypeOK, scan, reply, Waiting
    <3>3. CASE Exchange(r)
      BY <3>3 DEF Exchange, Block, Pass, Forward, UpstreamReply, UpstreamFail, Goto,
         TypeOK, scan, reply, Waiting
    <3>4. QED
      BY <1>6, <3>1, <3>2, <3>3
  <2>2. QED
    BY <2>1, <1>3 DEF BackInv
<1>7. ASSUME NEW r \in Requests, RLockForRestore(r) PROVE BackInv'
  <2>1. /\ details' = details /\ UNCHANGED <<body, text, sent, received, next>>
        /\ pc[r] = "replied"
        /\ \A q \in Requests \ {r} : pc'[q] = pc[q] /\ answer'[q] = answer[q]
        /\ answer'[r] = received[r]
    BY <1>7 DEF RLockForRestore, Goto, TypeOK, scan
  <2>2. sent[r] = text[r] /\ DOMAIN text[r] = DOMAIN body[r] /\ next[r] = 1
    BY <2>1 DEF CopyInv, Forwarded, Waiting
  <2>3. ~Nested(r) /\ ~Redrawn(r) =>
          \A i \in DOMAIN body[r] : LeadsBack(r, text[r][i], body[r][i], 1)
    BY <2>1 DEF BackInv, Waiting
  <2>4. QED
    BY <2>1, <2>2, <2>3, <1>3
<1>8. ASSUME NEW r \in Requests, RestoreReturn(r) PROVE BackInv'
  <2>1. /\ details' = details
        /\ UNCHANGED <<body, text, sent, received, answer, next>>
        /\ pc[r] = "restore" /\ \A q \in Requests \ {r} : pc'[q] = pc[q]
    BY <1>8 DEF RestoreReturn, Goto, TypeOK, scan, reply
  <2>2. QED
    BY <2>1, <1>3 DEF BackInv, Waiting
<1>9. CASE UNCHANGED <<pc, body, text, details, sent, received, answer, next>>
  BY <1>9 DEF BackInv, LeadsBack, Nested, Redrawn
<1>10. QED
  BY <1>1, <1>2, <1>4, <1>5, <1>6, <1>7, <1>8, <1>9 DEF Next, vars, Process,
     DeAnonymize, engine, scan, reply, NextPattern, SetStrictMode, EnableML

-------------------------------------------------------------------------------
(* What follows for a client.                                               *)

(* The invariants hold before the first request.                            *)
LEMMA InitBack ==
  Init => CopyInv /\ KeepInv /\ FlaggedInv /\ BlockInv /\ BackInv
<1> SUFFICES ASSUME Init
             PROVE  CopyInv /\ KeepInv /\ FlaggedInv /\ BlockInv /\ BackInv
  OBVIOUS
<1>1. CopyInv
  BY DEF Init, CopyInv, Waiting, Forwarded
<1>2. KeepInv /\ FlaggedInv
  BY DEF Init, KeepInv, FlaggedInv
<1>3. BlockInv /\ BackInv
  BY DEF Init, BlockInv, BackInv, Waiting
<1>4. QED
  BY <1>1, <1>2, <1>3

(* What a provider repeats of another client's tokens reaches the client    *)
(* unexpanded (engine.go 241-246).                                          *)
THEOREM ForeignTokensAreKept == Spec => []ForeignTokensKept
<1>1. TypeOK /\ KeepInv /\ [Next]_vars => (TypeOK /\ KeepInv)'
  BY TypeStep, KeepStep
<1>2. KeepInv => ForeignTokensKept
  BY DEF KeepInv, ForeignTokensKept
<1>3. QED
  BY <1>1, <1>2, InitType, InitBack, PTL DEF Spec

(* Restoring undoes redacting, in every order of patterns and under every   *)
(* interleaving, for a body without tokens of its own, with none swallowed  *)
(* by a later match and none drawn twice (engine.go 150-178, 241-246).      *)
THEOREM RestoringUndoesRedacting ==
  ASSUME PlainBodies
  PROVE  Spec => []FlatRoundTrip
<1> DEFINE IInv == TypeOK /\ MapInv /\ CopyInv /\ BackInv
<1>1. Init => IInv
  BY InitType, InitInv, InitBack DEF Inv
<1>2. IInv /\ [Next]_vars => IInv'
  BY TypeStep, MapStep, CopyStep, BackStep
<1>3. IInv => FlatRoundTrip
  <2> SUFFICES ASSUME IInv, NEW r \in Requests, ~Nested(r), ~Redrawn(r),
                      pc[r] = "done", received[r] = sent[r]
               PROVE  answer[r] = body[r]
    BY DEF FlatRoundTrip, RoundTrip
  <2>1. /\ DOMAIN answer[r] = DOMAIN body[r]
        /\ \A i \in DOMAIN body[r] : LeadsBack(r, answer[r][i], body[r][i], next[r])
    BY DEF BackInv
  <2>2. \A j \in DOMAIN details[r] : ~(j >= next[r])
    <3>1. /\ DOMAIN details[r] = 1..Len(details[r]) /\ Len(details[r]) \in Nat
          /\ next[r] \in Nat \ {0} /\ next[r] \notin DOMAIN details[r]
      BY DEF TypeOK, CopyInv
    <3>2. next[r] > Len(details[r])
      BY <3>1
    <3>3. QED
      BY <3>1, <3>2
  <2>3. \A i \in DOMAIN body[r] : answer[r][i] = body[r][i]
    BY <2>1, <2>2 DEF LeadsBack
  <2>4. answer[r] \in Seq(Units) /\ body[r] \in Seq(Units)
    BY DEF TypeOK, Texts
  <2>5. Len(answer[r]) = Len(body[r])
    BY <2>1, <2>4
  <2>6. QED
    BY <2>3, <2>4, <2>5
<1>4. QED
  BY <1>1, <1>2, <1>3, PTL DEF Spec

(* What processMLEntities keeps true.                                       *)
LEMMA Flagging ==
  ASSUME OneByteBodies
  PROVE  Spec => [](TypeOK /\ StageInv /\ ScanInv /\ CopyInv /\ FlaggedInv)
<1>1. Init => TypeOK /\ StageInv /\ ScanInv /\ CopyInv /\ FlaggedInv
  BY InitInv, InitBack DEF Inv
<1>2. TypeOK /\ StageInv /\ ScanInv /\ CopyInv /\ FlaggedInv /\ [Next]_vars
        => (TypeOK /\ StageInv /\ ScanInv /\ CopyInv /\ FlaggedInv)'
  BY TypeStep, StageStep, ScanStep, CopyStep, FlaggedStep
<1>3. QED
  BY <1>1, <1>2, PTL DEF Spec

(* As long as every character is one byte, no name is forwarded where the   *)
(* ML server reported it (engine.go 184-224).                               *)
THEOREM NamesAreHidden ==
  ASSUME OneByteBodies
  PROVE  Spec => []ReportedNamesHidden
<1>1. TypeOK /\ StageInv /\ CopyInv /\ FlaggedInv => ReportedNamesHidden
  <2> SUFFICES ASSUME TypeOK, StageInv, CopyInv, FlaggedInv, NEW r \in Requests,
                      NEW i \in flagged[r] \cap DOMAIN sent[r]
               PROVE  sent[r][i].core \notin Words
    BY DEF ReportedNamesHidden
  <2>1. sent[r] # <<>>
    OBVIOUS
  <2>2. pc[r] \in Forwarded
    BY <2>1 DEF StageInv
  <2>3. sent[r] = text[r] /\ pc[r] # "spans"
    BY <2>2 DEF CopyInv, Forwarded
  <2>4. QED
    BY <2>3 DEF FlaggedInv
<1>2. QED
  BY <1>1, Flagging, PTL

(* Only Pass takes a request past ShouldBlock.                              *)
LEMMA PassOnly ==
  ASSUME TypeOK, [Next]_vars, NEW r \in Requests,
         pc[r] = "scanned", pc'[r] = "cleared"
  PROVE  Pass(r)
<1>1. ASSUME NEW q \in Requests, Submit(q) \/ DeAnonymize(q) PROVE FALSE
  BY <1>1 DEF Submit, DeAnonymize, RLockForRestore, RestoreNext, RestoreReturn, Goto,
     TypeOK
<1>2. ASSUME NEW q \in Requests, Process(q) PROVE FALSE
  BY <1>2 DEF Process, LockForProcess, MLAnnotate, MLFail, RedactSpan, SpansDone,
     NextPattern, RedactMatch, ProcessReturn, Goto, TypeOK
<1>3. ASSUME NEW q \in Requests, Block(q) \/ Forward(q) \/ UpstreamReply(q) \/ UpstreamFail(q)
      PROVE  FALSE
  BY <1>3 DEF Block, Forward, UpstreamReply, UpstreamFail, Goto, TypeOK
<1>4. ASSUME NEW q \in Requests, Pass(q) PROVE q = r
  BY <1>4 DEF Pass, Goto, TypeOK
<1>5. ~(SetStrictMode \/ EnableML \/ UNCHANGED vars)
  BY DEF SetStrictMode, EnableML, vars
<1>6. QED
  BY <1>1, <1>2, <1>3, <1>4, <1>5 DEF Next, Exchange

(* In strict mode no card number or SSN standing on its own is let through, *)
(* whatever the pattern order and whoever toggles the mode meanwhile        *)
(* (proxy.go 103, engine.go 252-265).                                       *)
THEOREM StrictModeHoldsBack ==
  ASSUME OneByteBodies
  PROVE  Spec => StrictHoldsBack
<1> DEFINE IInv == TypeOK /\ ScanInv /\ CopyInv /\ FlaggedInv /\ BlockInv
           Held == \A r \in Requests :
                     pc[r] = "scanned" /\ pc'[r] = "cleared" /\ strictMode
                       => \A i \in DOMAIN body[r] : SensitiveAt(r, i) => Detects(Password, body[r][i])
<1>1. Init => IInv
  BY InitInv, InitBack DEF Inv
<1>2. IInv /\ [Next]_vars => IInv'
  BY TypeStep, ScanStep, CopyStep, FlaggedStep, BlockStep
<1>3. IInv /\ [Next]_vars => Held
  <2> SUFFICES ASSUME IInv, [Next]_vars, NEW r \in Requests,
                      pc[r] = "scanned", pc'[r] = "cleared", strictMode,
                      NEW i \in DOMAIN body[r], SensitiveAt(r, i), ~Detects(Password, body[r][i])
               PROVE  FALSE
    OBVIOUS
  <2>1. ~ShouldBlock(details[r])
    BY PassOnly DEF Pass
  <2>2. \A j \in DOMAIN details[r] : details[r][j].kind \notin CardOrSSN
    <3>1. \A k \in CardOrSSN : k \in HighSensitivity /\ Confidence(k) > 80
      BY DEF CardOrSSN, HighSensitivity, Confidence
    <3>2. QED
      BY <2>1, <3>1 DEF ShouldBlock
  <2>3. text[r][i] = body[r][i] /\ i \in DOMAIN text[r]
    BY <2>2 DEF BlockInv, CopyInv, Waiting
  <2>4. PICK k \in KindsOf[body[r][i].core] : TRUE
    BY DEF SensitiveAt
  <2>5. body[r][i].core \in Words /\ k \in Patterns \ {Password}
    BY <2>4, KindsAssumption DEF SensitiveAt
  <2>6. Detects(k, text[r][i])
    BY <2>3, <2>4, <2>5 DEF Detects
  <2>7. QED
    BY <2>3, <2>5, <2>6 DEF ScanInv, Clean
<1>4. Spec => [][Held]_vars
  BY <1>1, <1>2, <1>3, PTL DEF Spec
<1>5. QED
  BY <1>4 DEF StrictHoldsBack
===============================================================================
