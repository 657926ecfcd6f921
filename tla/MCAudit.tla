-------------------------------- MODULE MCAudit --------------------------------
(* One call that may be of any kind; in the run of the rate, a call of each *)
(* organization.                                                            *)
EXTENDS Audit, TLC

CONSTANTS r1, r2, v1, v2

MCOrgOf == v1 :> "acme"

OneEach == v1 :> "acme" @@ v2 :> "other"

Alike == Permutations(Requests)

(* Nothing more is explored once every call is answered.                    *)
SomeoneAsks == \E v \in Viewers : pc[v] \notin {"answered", "refused"}
===============================================================================
