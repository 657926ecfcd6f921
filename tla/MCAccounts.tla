------------------------------ MODULE MCAccounts -------------------------------
(* Two names with one slug between them, and the two rows of the script.    *)
EXTENDS Accounts

MCBaseSlug == [n \in Names |-> IF n = Default THEN "default-organization" ELSE "acme"]
===============================================================================
