---------------------------- MODULE MCCsaTraveller ----------------------------
(* The same feeds for the traveller.                                           *)
EXTENDS CsaTraveller, MCCsa
=============================================================================
