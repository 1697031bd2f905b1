---------------------------- MODULE MCVehicleCache ----------------------------
EXTENDS VehicleCache

(* Every way to share providers, and the one of get_realtime_view_service,     *)
(* which makes a new provider for each request.                                *)
AllWirings == [Requests -> Providers]
OwnProvider == {w \in AllWirings : \A r, s \in Requests : w[r] = w[s] => r = s}
===============================================================================
