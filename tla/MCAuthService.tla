----------------------------- MODULE MCAuthService -----------------------------
(* Ana and one newcomer, and a pool that two transactions use up.           *)
EXTENDS AuthService
===============================================================================
