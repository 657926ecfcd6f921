------------------------------ MODULE Redaction ------------------------------
(***************************************************************************)
(* What the redaction engine promises, with no engine in it: no word that  *)
(* the patterns can find leaves for the provider, and what comes back to a *)
(* client is made of that client's own words, and of those of clients that *)
(* happened to draw a token it drew too.                                   *)
(***************************************************************************)
EXTENDS PiiText

CONSTANTS Requests, Bodies

VARIABLES
  body,     \* body[r]:   what the client of r sent, <<>> before that
  drawn,    \* drawn[r]:  the tokens generated for r
  sent,     \* sent[r]:   what the provider received, <<>> if nothing (yet)
  answer    \* answer[r]: what the client got back, <<>> if nothing (yet)

vars == <<body, drawn, sent, answer>>

Init ==
  /\ body   = [r \in Requests |-> <<>>]
  /\ drawn  = [r \in Requests |-> {}]
  /\ sent   = [r \in Requests |-> <<>>]
  /\ answer = [r \in Requests |-> <<>>]

OnlyAt(f, r) == f' = [f EXCEPT ![r] = f'[r]]

Submit(r) ==
  /\ body[r] = <<>>
  /\ \E b \in Bodies : body' = [body EXCEPT ![r] = b]
  /\ UNCHANGED <<drawn, sent, answer>>

(* A token is as good as random: it may have been drawn before.             *)
Draw(r) ==
  /\ body[r] # <<>> /\ sent[r] = <<>>
  /\ \E t \in Tokens : drawn' = [drawn EXCEPT ![r] = @ \cup {t}]
  /\ UNCHANGED <<body, sent, answer>>

Forward(r) ==
  /\ body[r] # <<>> /\ sent[r] = <<>>
  /\ OnlyAt(sent, r)
  /\ Clean(sent'[r])
  /\ WordsOf(sent'[r]) \subseteq WordsOf(body[r])
  /\ UNCHANGED <<body, drawn, answer>>

(* Requests with a token in common, r among them.                           *)
Sharers(r) == {r} \cup {q \in Requests : drawn[q] \cap drawn[r] # {}}

Deliver(r) ==
  /\ sent[r] # <<>> /\ answer[r] = <<>>
  /\ OnlyAt(answer, r)
  /\ WordsOf(answer'[r]) \subseteq UNION {WordsOf(body[q]) : q \in Sharers(r)}
  /\ UNCHANGED <<body, drawn, sent>>

Next == \E r \in Requests : Submit(r) \/ Draw(r) \/ Forward(r) \/ Deliver(r)

Spec == Init /\ [][Next]_vars
==============================================================================
