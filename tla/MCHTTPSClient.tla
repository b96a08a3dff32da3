--------------------------- MODULE MCHTTPSClient ---------------------------
(* A small instance of HTTPSClient for TLC: numbers only, set in the cfg.  *)
EXTENDS HTTPSClientRefinement

=============================================================================
