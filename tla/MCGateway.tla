------------------------------ MODULE MCGateway -------------------------------
(* Two chat requests, both hinted "personal", which a rule for each of two  *)
(* providers fits.  Sensitive bodies stand for other PII too: while strict  *)
(* mode is off they are alike.  A provider may answer 403, as a block does. *)
EXTENDS Gateway, TLC

Chat == {"v1/", "v1/chat/completions"}

MCRequests == {[path |-> Chat, parses |-> TRUE, hints |-> {"personal"}]}

MCSymmetry == Permutations(Calls)
===============================================================================
