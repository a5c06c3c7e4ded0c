------------------------------ MODULE MCBreaker ------------------------------
(* Instances of the breaker for TLC: see the MCBreaker*.cfg files.           *)
EXTENDS ProviderCalls
=============================================================================
