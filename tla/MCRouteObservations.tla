------------------------- MODULE MCRouteObservations -------------------------
EXTENDS RouteObservations, TLC

CONSTANTS p1, first, second

MCMembers == (first :> {p1}) @@ (second :> {p1})
=============================================================================
