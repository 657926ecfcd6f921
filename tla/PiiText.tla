------------------------------- MODULE PiiText -------------------------------
(***************************************************************************)
(* Request and response bodies as pkg/ner sees them.                       *)
(*                                                                         *)
(* A body is a sequence of units.  A unit is a word of the client or a     *)
(* placeholder token, and may carry a password label in front of it        *)
(* ("password: ...").  Redacting and restoring rewrite units in place, so  *)
(* the length of a body never changes.                                     *)
(***************************************************************************)
EXTENDS Naturals, Sequences

CONSTANTS
  Words,      \* what clients write: opaque values
  Short,      \* words of fewer than six characters
  KindsOf,    \* KindsOf[w]: the value patterns of loadPatterns that match w
  Patterns,   \* the entity types loadPatterns compiled a regexp for
  MLKinds,    \* entity types of the ML labels
  TokenIds    \* the hex part of generated tokens

Password == "PASSWORD"

Tokens == [kind : Patterns \cup MLKinds, id : TokenIds]

Units == [pw : BOOLEAN, core : Words \cup Tokens]

Texts == Seq(Units)

ASSUME KindsAssumption ==
  KindsOf \in [Words -> SUBSET (Patterns \ {Password})]

ASSUME DisjointAssumption == Words \cap Tokens = {}

ASSUME ShortAssumption == Short \subseteq Words

(* DefaultMLLabels asks for no entity type that has a pattern.              *)
ASSUME MLKindsAssumption == MLKinds \cap (Patterns \cup {Password}) = {}

(* The regexp of kind k matches unit u.  The password pattern matches a     *)
(* label and the six or more non-blank characters that follow it, so a word *)
(* that is not short, and a token whatever it stands for.                   *)
Detects(k, u) ==
  \/ k = Password /\ u.pw /\ u.core \notin Short
  \/ k # Password /\ u.core \in Words /\ k \in KindsOf[u.core]

(* Mutant: only the value of a match is kept, not its label.                 *)
OriginalValue(k, u) == [u EXCEPT !.pw = FALSE]

(* What a match of kind k cuts out of unit u: originalText.                 *)
Original(k, u) == [u EXCEPT !.pw = (k = Password)]

(* Unit u after its match of kind k is replaced by token t.                 *)
Redact(k, u, t) == [pw |-> u.pw /\ k # Password, core |-> t]

(* strings.ReplaceAll of token t by its original, at one unit.              *)
RestoreUnit(u, t, orig) ==
  IF u.core = t THEN [pw |-> u.pw \/ orig.pw, core |-> orig.core] ELSE u

ReplaceAll(text, t, orig) ==
  [i \in DOMAIN text |-> RestoreUnit(text[i], t, orig)]

WordsOf(text)  == {text[i].core : i \in DOMAIN text} \cap Words
TokensOf(text) == {text[i].core : i \in DOMAIN text} \cap Tokens

(* No word of the client is left that a loaded pattern finds.  A token may  *)
(* be found again: once a pattern has put one in the place of a short word, *)
(* the password pattern finds it under its label, but may have been there.  *)
Clean(text) ==
  \A i \in DOMAIN text :
    text[i].core \in Words => \A k \in Patterns : ~Detects(k, text[i])
==============================================================================
