------------------------------- MODULE MCApiKeys -------------------------------
(* Two users of one organization and one of another, one key or two.        *)
EXTENDS ApiKeys, TLC

CONSTANTS ana, ben, eve

MCUsers == {ana, ben, eve}
MCOrgOf == [u \in MCUsers |-> IF u = eve THEN "other" ELSE "acme"]

MCSymmetry == Permutations(Calls)
================================================================================
