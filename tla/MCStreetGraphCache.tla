-------------------------- MODULE MCStreetGraphCache --------------------------
(* The processes are interchangeable: what is shown of the end of the requests  *)
(* of one of them, beside the others, holds of each.                            *)
EXTENDS StreetGraphCache

CONSTANT Watched

EveryRequestEnds == RequestEnds(Watched)
===============================================================================
