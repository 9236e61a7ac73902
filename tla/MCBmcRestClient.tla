--------------------------- MODULE MCBmcRestClient ---------------------------
(* BmcRestClient for TLC: two goroutines whose calls overlap.              *)
EXTENDS BmcRestClient

CONSTANTS g1, g2

MCGoroutines == {g1, g2}

=============================================================================
