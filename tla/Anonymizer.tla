------------------------------ MODULE Anonymizer ------------------------------
(***************************************************************************)
(* The redaction engine of pkg/ner, driven by concurrent requests in the   *)
(* order interceptor.HandleProxy calls it: ProcessContent, ShouldBlock,    *)
(* forward, DeAnonymizeContent.                                            *)
(*                                                                         *)
(* All requests share one token map behind one RWMutex.  ProcessContent    *)
(* holds it exclusively while it waits for the ML server and while it runs *)
(* the patterns, in the random order of a Go map; DeAnonymizeContent holds *)
(* it shared.  ShouldBlock reads strictMode without it.                    *)
(***************************************************************************)
EXTENDS PiiText, FiniteSets

CONSTANTS
  Requests,         \* one proxied request each
  Bodies,           \* the bodies clients may send
  Names,            \* words the ML model may report
  Continuation,     \* trailing bytes of a multi-byte character (one unit per byte)
  MLConfigured,     \* the gRPC client could be created: useML starts TRUE
  MaxReply,         \* bound: units in a provider's reply
  MaxToggles,       \* bound: calls of SetStrictMode and EnableML
  Absent,           \* no entry in tokenMap
  NoOne             \* nobody holds the lock for writing / no pattern is running

ASSUME BodiesAssumption == Bodies \subseteq Texts \ {<<>>}
ASSUME AbsentAssumption == Absent \notin Units
ASSUME NoOneAssumption  == NoOne \notin Requests \cup Patterns \cup {Password}
ASSUME BoundsAssumption ==
  /\ MLConfigured \in BOOLEAN
  /\ MaxReply \in Nat /\ MaxToggles \in Nat

VARIABLES
  \* the engine (NEREngine)
  tokenMap, strictMode, useML, writer, readers, toggles,
  \* each request
  pc,        \* where HandleProxy is
  body,      \* request.Body
  text,      \* processedContent
  spans,     \* ML span offsets not applied yet
  flagged,   \* history: the places of the names the ML server reported
  todo,      \* patterns the range over ne.patterns has not reached
  cur,       \* the pattern being applied
  details,   \* redactionDetails
  sent,      \* the body the provider received
  received,  \* the body the provider answered
  answer,    \* restoredContent
  next       \* index of the next detail to restore

engine  == <<tokenMap, strictMode, useML, writer, readers, toggles>>
scan    == <<text, spans, flagged, todo, cur, details>>
reply   == <<received, answer, next>>
vars    == <<engine, pc, body, scan, sent, reply>>

Stages == {"idle", "want", "ml", "spans", "regex", "scanned", "cleared",
           "forward", "replied", "restore", "done", "blocked", "failed"}

Details == [kind : Patterns \cup MLKinds, original : Units, token : Tokens]

Init ==
  /\ tokenMap   = [t \in Tokens |-> Absent]
  /\ strictMode = FALSE
  /\ useML      = MLConfigured
  /\ writer     = NoOne
  /\ readers    = {}
  /\ toggles    = 0
  /\ pc       = [r \in Requests |-> "idle"]
  /\ body     = [r \in Requests |-> <<>>]
  /\ text     = [r \in Requests |-> <<>>]
  /\ spans    = [r \in Requests |-> {}]
  /\ flagged  = [r \in Requests |-> {}]
  /\ todo     = [r \in Requests |-> {}]
  /\ cur      = [r \in Requests |-> NoOne]
  /\ details  = [r \in Requests |-> <<>>]
  /\ sent     = [r \in Requests |-> <<>>]
  /\ received = [r \in Requests |-> <<>>]
  /\ answer   = [r \in Requests |-> <<>>]
  /\ next     = [r \in Requests |-> 1]

Goto(r, from, to) == pc[r] = from /\ pc' = [pc EXCEPT ![r] = to]

-------------------------------------------------------------------------------
(* Generating a token and entering it in the map.                          *)

(* The tokens generateToken may return for an entity of kind k: the 32 bits *)
(* it keeps of its random bytes are not looked up in the map.               *)
GenerateToken(k) == {t \in Tokens : t.kind = k}

(* Mutant: the token is not entered in the map.                             *)
ReplaceMatchUnmapped(r, i, k) ==
  LET orig == Original(k, text[r][i]) IN
  \E t \in GenerateToken(k) :
    /\ text'     = [text EXCEPT ![r][i] = Redact(k, text[r][i], t)]
    /\ details'  = [details EXCEPT ![r] =
                      Append(@, [kind |-> k, original |-> orig, token |-> t])]
    /\ UNCHANGED tokenMap

(* Position i of r's text is replaced by a token: the body of both loops.   *)
ReplaceMatch(r, i, k) ==
  LET orig == Original(k, text[r][i]) IN
  \E t \in GenerateToken(k) :
    /\ tokenMap' = [tokenMap EXCEPT ![t] = orig]
    /\ text'     = [text EXCEPT ![r][i] = Redact(k, text[r][i], t)]
    /\ details'  = [details EXCEPT ![r] =
                      Append(@, [kind |-> k, original |-> orig, token |-> t])]

-------------------------------------------------------------------------------
(* ProcessContent                                                          *)

Submit(r) ==
  /\ Goto(r, "idle", "want")
  /\ \E b \in Bodies : body' = [body EXCEPT ![r] = b]
  /\ UNCHANGED <<engine, scan, sent, reply>>

(* mutex.Lock(), then the choice between ML first and patterns only.        *)
(* IsGRPCAvailable reads the state of the connection, which may be anything.*)
LockForProcess(r) ==
  /\ pc[r] = "want"
  /\ writer = NoOne /\ readers = {}
  /\ writer' = r
  /\ text' = [text EXCEPT ![r] = body[r]]
  /\ todo' = [todo EXCEPT ![r] = Patterns]
  /\ \/ Goto(r, "want", "regex")
     \/ useML /\ Goto(r, "want", "ml")
  /\ UNCHANGED <<tokenMap, strictMode, useML, readers, toggles, body,
                 spans, flagged, cur, details, sent, reply>>

(* The offset, in characters, the ML server gives for the unit at byte i.   *)
CharOffset(t, i) == Cardinality({j \in 1..i : t[j].core \notin Continuation})

(* AnnotateML succeeds: the server reports some of the names it is shown,   *)
(* by character offsets; processMLEntities will use them as byte offsets.   *)
MLAnnotate(r) ==
  /\ Goto(r, "ml", "spans")
  /\ \E F \in SUBSET {i \in DOMAIN text[r] : text[r][i].core \in Names} :
       /\ spans'   = [spans EXCEPT ![r] = {CharOffset(text[r], i) : i \in F}]
       /\ flagged' = [flagged EXCEPT ![r] = F]
  /\ UNCHANGED <<engine, body, text, todo, cur, details, sent, reply>>

(* AnnotateML fails or hits its 10 s timeout: fall through to the patterns. *)
MLFail(r) ==
  /\ Goto(r, "ml", "regex")
  /\ UNCHANGED <<engine, body, scan, sent, reply>>

(* Mutant: a span that ends where the text ends counts as invalid.           *)
ValidSpansShort(r) == {i \in spans[r] : i < Len(text[r])}

(* The spans processMLEntities still has to apply, invalid ones skipped.     *)
ValidSpans(r) == spans[r] \cap DOMAIN text[r]

(* One iteration over the spans, in descending order of offset.  A span cuts*)
(* out the text inside a label, never the label.                            *)
RedactSpan(r) ==
  /\ pc[r] = "spans"
  /\ \E i \in ValidSpans(r), k \in MLKinds :
       /\ \A j \in ValidSpans(r) : j <= i
       /\ spans' = [spans EXCEPT ![r] = @ \ {i}]
       /\ ReplaceMatch(r, i, k)
  /\ UNCHANGED <<strictMode, useML, writer, readers, toggles, pc, body,
                 flagged, todo, cur, sent, reply>>

SpansDone(r) ==
  /\ ValidSpans(r) = {}
  /\ Goto(r, "spans", "regex")
  /\ UNCHANGED <<engine, body, scan, sent, reply>>

(* Mutant: the loop over the matches misses a match at the end of the text.  *)
MatchesShort(k, t) == {i \in DOMAIN t : i < Len(t) /\ Detects(k, t[i])}

(* FindAllStringSubmatchIndex, and what is left of it after the last matches*)
(* have been replaced.                                                      *)
Matches(k, t) == {i \in DOMAIN t : Detects(k, t[i])}

(* The range over ne.patterns moves to a pattern it has not visited.        *)
NextPattern(r) ==
  /\ pc[r] = "regex"
  /\ Matches(cur[r], text[r]) = {}
  /\ \E k \in todo[r] :
       /\ cur'  = [cur EXCEPT ![r] = k]
       /\ todo' = [todo EXCEPT ![r] = @ \ {k}]
  /\ UNCHANGED <<engine, pc, body, text, spans, flagged, details, sent, reply>>

(* One match of the current pattern is replaced, from the last to the first.*)
RedactMatch(r) ==
  /\ pc[r] = "regex"
  /\ \E i \in Matches(cur[r], text[r]) :
       /\ \A j \in Matches(cur[r], text[r]) : j <= i
       /\ ReplaceMatch(r, i, cur[r])
  /\ UNCHANGED <<strictMode, useML, writer, readers, toggles, pc, body,
                 spans, flagged, todo, cur, sent, reply>>

(* processContent returns and unlocks.                                      *)
ProcessReturn(r) ==
  /\ Goto(r, "regex", "scanned")
  /\ todo[r] = {} /\ Matches(cur[r], text[r]) = {}
  /\ writer' = NoOne
  /\ cur' = [cur EXCEPT ![r] = NoOne]
  /\ UNCHANGED <<tokenMap, strictMode, useML, readers, toggles, body,
                 text, spans, flagged, todo, details, sent, reply>>

-------------------------------------------------------------------------------
(* ShouldBlock, and the hand-over to the provider                          *)

(* Mutant: card numbers are not in the table.                               *)
HighSensitivityNoCards == {"SSN", "API_KEY", Password}

HighSensitivity == {"SSN", "CREDIT_CARD", "API_KEY", Password}

(* calculateConfidence in percent, for text the pattern of kind k matched.  *)
Confidence(k) ==
  CASE k = "EMAIL"       -> 95
    [] k = "SSN"         -> 90
    [] k = "CREDIT_CARD" -> 85
    [] k = "IP_ADDRESS"  -> 90
    [] k = "API_KEY"     -> 80
    [] OTHER             -> 70

ShouldBlock(ds) ==
  /\ strictMode
  /\ \E i \in DOMAIN ds :
       ds[i].kind \in HighSensitivity /\ Confidence(ds[i].kind) > 80

Block(r) ==
  /\ ShouldBlock(details[r])
  /\ Goto(r, "scanned", "blocked")
  /\ UNCHANGED <<engine, body, scan, sent, reply>>

(* strictMode is read without the lock, so it may change before the request *)
(* has left.                                                                *)
Pass(r) ==
  /\ ~ShouldBlock(details[r])
  /\ Goto(r, "scanned", "cleared")
  /\ UNCHANGED <<engine, body, scan, sent, reply>>

Forward(r) ==
  /\ Goto(r, "cleared", "forward")
  /\ sent' = [sent EXCEPT ![r] = text[r]]
  /\ UNCHANGED <<engine, body, scan, reply>>

(* Units a provider may answer with: what r sent it, and every token any    *)
(* request ever sent it (providers keep conversations).                     *)
ReplyUnits(r) ==
  {sent[r][i] : i \in DOMAIN sent[r]} \cup
  {[pw |-> FALSE, core |-> t] : t \in UNION {TokensOf(sent[q]) : q \in Requests}}

UpstreamReply(r) ==
  /\ Goto(r, "forward", "replied")
  /\ \E n \in 0..MaxReply : \E t \in [1..n -> ReplyUnits(r)] :
       received' = [received EXCEPT ![r] = t]
  /\ UNCHANGED <<engine, body, scan, sent, answer, next>>

(* Refused, or 30 s without an answer.                                      *)
UpstreamFail(r) ==
  /\ Goto(r, "forward", "failed")
  /\ UNCHANGED <<engine, body, scan, sent, reply>>

-------------------------------------------------------------------------------
(* DeAnonymizeContent                                                      *)

RLockForRestore(r) ==
  /\ writer = NoOne
  /\ Goto(r, "replied", "restore")
  /\ readers' = readers \cup {r}
  /\ answer'  = [answer EXCEPT ![r] = received[r]]
  /\ UNCHANGED <<tokenMap, strictMode, useML, writer, toggles, body, scan,
                 sent, received, next>>

(* Mutant: restore every token the map knows, not the request's own.        *)
RestoreEveryToken(r) ==
  /\ pc[r] = "restore"
  /\ next[r] \in DOMAIN details[r]
  /\ \E t \in Tokens :
       /\ tokenMap[t] # Absent
       /\ answer' = [answer EXCEPT ![r] = ReplaceAll(@, t, tokenMap[t])]
  /\ next' = [next EXCEPT ![r] = @ + 1]
  /\ UNCHANGED <<engine, pc, body, scan, sent, received>>

(* One iteration over redactionDetails, in the order they were made; the    *)
(* original comes from the shared map, not from the detail.                 *)
RestoreNext(r) ==
  /\ pc[r] = "restore"
  /\ next[r] \in DOMAIN details[r]
  /\ LET t == details[r][next[r]].token IN
       answer' = IF tokenMap[t] = Absent
                   THEN answer
                   ELSE [answer EXCEPT ![r] = ReplaceAll(@, t, tokenMap[t])]
  /\ next' = [next EXCEPT ![r] = @ + 1]
  /\ UNCHANGED <<engine, pc, body, scan, sent, received>>

(* Mutant: the read lock is not released.                                    *)
RestoreReturnHolding(r) ==
  /\ next[r] \notin DOMAIN details[r]
  /\ Goto(r, "restore", "done")
  /\ UNCHANGED <<engine, body, scan, sent, reply>>

RestoreReturn(r) ==
  /\ next[r] \notin DOMAIN details[r]
  /\ Goto(r, "restore", "done")
  /\ readers' = readers \ {r}
  /\ UNCHANGED <<tokenMap, strictMode, useML, writer, toggles, body, scan,
                 sent, reply>>

-------------------------------------------------------------------------------
(* Switches of the engine, each under the write lock.                      *)

SetStrictMode ==
  /\ writer = NoOne /\ readers = {} /\ toggles < MaxToggles
  /\ strictMode' \in BOOLEAN
  /\ toggles' = toggles + 1
  /\ UNCHANGED <<tokenMap, useML, writer, readers, pc, body, scan, sent, reply>>

EnableML ==
  /\ writer = NoOne /\ readers = {} /\ toggles < MaxToggles
  /\ useML' \in BOOLEAN
  /\ toggles' = toggles + 1
  /\ UNCHANGED <<tokenMap, strictMode, writer, readers, pc, body, scan, sent, reply>>

Process(r) ==
  \/ LockForProcess(r) \/ MLAnnotate(r) \/ MLFail(r) \/ RedactSpan(r)
  \/ SpansDone(r) \/ NextPattern(r) \/ RedactMatch(r) \/ ProcessReturn(r)

Exchange(r) ==
  Block(r) \/ Pass(r) \/ Forward(r) \/ UpstreamReply(r) \/ UpstreamFail(r)

DeAnonymize(r) == RLockForRestore(r) \/ RestoreNext(r) \/ RestoreReturn(r)

Next ==
  \/ \E r \in Requests : Submit(r) \/ Process(r) \/ Exchange(r) \/ DeAnonymize(r)
  \/ SetStrictMode
  \/ EnableML

Spec == Init /\ [][Next]_vars

(* Every accepted request keeps being scheduled; the RPC and the exchange   *)
(* with the provider end because both have timeouts.                        *)
Fairness ==
  \A r \in Requests : WF_vars(Process(r) \/ Exchange(r) \/ DeAnonymize(r))

FairSpec == Spec /\ Fairness
-------------------------------------------------------------------------------
(* Types.  tokenMap has an entry for every token ever made; nothing evicts. *)
TypeOK ==
  /\ tokenMap \in [Tokens -> Units \cup {Absent}]
  /\ strictMode \in BOOLEAN /\ useML \in BOOLEAN
  /\ writer \in Requests \cup {NoOne} /\ readers \subseteq Requests
  /\ toggles \in 0..MaxToggles
  /\ pc \in [Requests -> Stages]
  /\ body \in [Requests -> Texts] /\ text \in [Requests -> Texts]
  /\ spans \in [Requests -> SUBSET Nat]
  /\ flagged \in [Requests -> SUBSET Nat]
  /\ todo \in [Requests -> SUBSET Patterns]
  /\ cur \in [Requests -> Patterns \cup {NoOne}]
  /\ details \in [Requests -> Seq(Details)]
  /\ sent \in [Requests -> Texts] /\ received \in [Requests -> Texts]
  /\ answer \in [Requests -> Texts] /\ next \in [Requests -> Nat \ {0}]

OwnTokens(r) == {details[r][i].token : i \in DOMAIN details[r]}

(* Requests that drew a token r drew, and r itself.                         *)
Sharers(r) == {r} \cup {q \in Requests : OwnTokens(q) \cap OwnTokens(r) # {}}

SharedWords(r) == UNION {WordsOf(body[q]) : q \in Sharers(r)}

(* The engine implements Redaction: whatever the pattern order, the         *)
(* interleaving and the provider's reply, what is forwarded is clean and    *)
(* what a client gets is made of its own words and, where 32 random bits    *)
(* came out the same twice, of another's (proxy.go 93-139).                 *)
Promise == INSTANCE Redaction
             WITH drawn  <- [r \in Requests |-> OwnTokens(r)],
                  answer <- [r \in Requests |->
                               IF pc[r] = "done" THEN answer[r] ELSE <<>>]

RefinesRedaction == Promise!Spec

(* Parts of the inductive invariant behind RefinesRedaction.                *)
Forwarded == {"forward", "replied", "restore", "done", "failed"}

StageInv ==
  \A r \in Requests :
    /\ pc[r] = "idle" <=> body[r] = <<>>
    /\ pc[r] \notin {"idle", "want"} => text[r] # <<>>
    /\ pc[r] \in Forwarded <=> sent[r] # <<>>

(* Whatever is kept for a request is made of its own words, an answer of    *)
(* those of its sharers.                                                    *)
WordInv ==
  \A r \in Requests :
    /\ WordsOf(text[r])     \subseteq WordsOf(body[r])
    /\ WordsOf(sent[r])     \subseteq WordsOf(body[r])
    /\ WordsOf(received[r]) \subseteq WordsOf(body[r])
    /\ WordsOf(answer[r])   \subseteq SharedWords(r)
    /\ \A i \in DOMAIN details[r] :
         {details[r][i].original.core} \cap Words \subseteq WordsOf(body[r])

(* A pattern that has been applied finds no word of the client any more,    *)
(* whatever ran after it.                                                   *)
ScanInv ==
  \A r \in Requests :
    /\ pc[r] \in {"ml", "spans"} => todo[r] = Patterns
    /\ pc[r] = "regex" =>
         \A k \in Patterns \ (todo[r] \cup {cur[r]}) : \A i \in DOMAIN text[r] :
           text[r][i].core \in Words => ~Detects(k, text[r][i])
    /\ pc[r] \in {"scanned", "cleared"} => Clean(text[r])
    /\ Clean(sent[r])

(* The map has an entry for every token a request has drawn, and under it   *)
(* what one of the requests that drew it had there.                         *)
MapInv ==
  \A t \in Tokens :
    IF tokenMap[t] = Absent
      THEN \A q \in Requests : t \notin OwnTokens(q)
      ELSE \E q \in Requests : \E i \in DOMAIN details[q] :
             details[q][i].token = t /\ details[q][i].original = tokenMap[t]

Inv == TypeOK /\ StageInv /\ WordInv /\ ScanInv /\ MapInv

(* A token of another client's request that a provider repeats is handed on *)
(* as it is, never expanded, although the map could expand it (engine.go    *)
(* 242).                                                                    *)
ForeignTokensKept ==
  \A r \in Requests : pc[r] = "done" =>
    \A i \in DOMAIN received[r] :
      received[r][i].core \in Tokens \ OwnTokens(r) => answer[r][i] = received[r][i]

(* A provider that echoes what it got gives the client its own body back.   *)
RoundTrip(r) == pc[r] = "done" /\ received[r] = sent[r] => answer[r] = body[r]

(* The original of some detail holds a token an earlier match put there.    *)
Nested(r) == \E i \in DOMAIN details[r] : details[r][i].original.core \in Tokens

(* A token of r was drawn a second time, for r or for another request.      *)
Redrawn(r) ==
  \E q \in Requests : \E i \in DOMAIN details[q], j \in DOMAIN details[r] :
    details[q][i].token = details[r][j].token /\ <<q, i>> # <<r, j>>

(* Redacting and restoring are inverse for every pattern order and          *)
(* interleaving, as long as no match swallowed a token and no token was     *)
(* drawn twice (engine.go 150-178, 242-246, 297-304).                       *)
FlatRoundTrip == \A r \in Requests : ~Nested(r) /\ ~Redrawn(r) => RoundTrip(r)

(* "Restore: Converts tokens back to original data in response"             *)
(* (QUICKSTART.md 129), said of every echo: the engine restores in the      *)
(* order it redacted, so a token inside a swallowed text stays (engine.go   *)
(* 242-246).                                                                *)
EchoesRestored == \A r \in Requests : RoundTrip(r)

(* Whatever tokens its provider's reply names, a client is handed words of  *)
(* its own and of nobody else, but for those who drew a token it drew       *)
(* (engine.go 239-246).                                                     *)
WordsStayWithTokens ==
  \A r \in Requests : WordsOf(answer[r]) \subseteq SharedWords(r)

(* README.md 28 "secure de-anonymization", said of every client: it is not  *)
(* handed a word of somebody else's request.  The map keeps one text for    *)
(* two requests that draw the same 32 bits (engine.go 163, 297-304).        *)
ClientsOwnWords ==
  \A r \in Requests : WordsOf(answer[r]) \subseteq WordsOf(body[r])

(* The kinds strict mode is there for, and places that hold a value which   *)
(* only they match.  A value a harmless pattern wants too, as PHONE wants   *)
(* 18005551234, is forwarded when that pattern comes first.                 *)
CardOrSSN == {"SSN", "CREDIT_CARD"}

SensitiveAt(r, i) ==
  /\ i \notin flagged[r] /\ body[r][i].core \in Words
  /\ KindsOf[body[r][i].core] # {}
  /\ KindsOf[body[r][i].core] \subseteq CardOrSSN

(* No body that had an SSN or card number standing on its own is let        *)
(* through while strict mode is on, in whatever order the patterns ran and  *)
(* whichever of the two took it; a label makes it the password pattern's    *)
(* prey too (proxy.go 103, engine.go 252-265).                              *)
StrictHoldsBack ==
  [][\A r \in Requests :
       pc[r] = "scanned" /\ pc'[r] = "cleared" /\ strictMode
         => \A i \in DOMAIN body[r] :
              SensitiveAt(r, i) => Detects(Password, body[r][i])]_vars

(* Where the ML server reported a name, what is forwarded has no word of the*)
(* client: offsets mean the same thing on both sides (engine.go 186-224).   *)
ReportedNamesHidden ==
  \A r \in Requests : \A i \in flagged[r] \cap DOMAIN sent[r] :
    sent[r][i].core \notin Words

(* Every submitted request is answered: an ML server or a provider that     *)
(* hangs delays whoever waits for the lock, and is timed out.               *)
EveryRequestEnds ==
  \A r \in Requests : pc[r] # "idle" ~> pc[r] \in {"done", "blocked", "failed"}
===============================================================================
