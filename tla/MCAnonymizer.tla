---------------------------- MODULE MCAnonymizer ----------------------------
(* Small instances of Anonymizer: seven words, bodies of one or two units.    *)
EXTENDS Anonymizer, TLC

CONSTANTS
  mail,    \* an e-mail address
  post,    \* another
  ssn,     \* nine digits the SSN pattern and the basic card pattern both match
  four,    \* 1800, which the card pattern matches
  anna,    \* a name only the ML model can report
  trail,   \* the second byte of a two-byte character
  plain    \* anything else

MCWords == {mail, post, ssn, four, anna, trail, plain}

MCShort == {four, anna, trail}

MCKindsOf ==
  [w \in MCWords |-> Patterns \cap
                       CASE w \in {mail, post} -> {"EMAIL"}
                         [] w = ssn           -> {"SSN", "CREDIT_CARD"}
                         [] w = four          -> {"CREDIT_CARD"}
                         [] OTHER             -> {}]

MCSymmetry == Permutations(Requests) \cup Permutations(TokenIds)

Bare(w)     == [pw |-> FALSE, core |-> w]
Labelled(w) == [pw |-> TRUE,  core |-> w]

(* Two values of one kind, a value two patterns want, a value under a label, *)
(* which PASSWORD may swallow after EMAIL took it, and one too short for     *)
(* PASSWORD before CREDIT_CARD has made it a token.                          *)
MixedBodies  == {<<Bare(mail), Bare(post)>>, <<Bare(ssn), Bare(plain)>>,
                 <<Labelled(mail)>>, <<Labelled(four)>>}
(* A value each, for two requests that draw the same token.                  *)
MailBodies   == {<<Bare(mail)>>, <<Bare(post)>>}
(* Values a password label stands in front of.                               *)
LabelBodies  == {<<Labelled(mail)>>, <<Labelled(four)>>}
(* A name at the end of the text, next to a value or under a label.          *)
NameBodies   == {<<Bare(mail), Bare(anna)>>, <<Bare(plain), Labelled(anna)>>}
(* The last unit is a name, after a two-byte character.                      *)
WideBodies   == {<<Bare(plain), Bare(trail), Bare(anna)>>}
=============================================================================
