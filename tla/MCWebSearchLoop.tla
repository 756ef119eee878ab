--------------------------- MODULE MCWebSearchLoop ---------------------------
(* WebSearchLoop on a small instance: two follow-up rounds of a few chunks. *)
EXTENDS WebSearchLoop

=============================================================================
