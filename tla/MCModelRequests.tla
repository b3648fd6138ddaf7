--------------------------- MODULE MCModelRequests ---------------------------
(* A TLC instance of ModelRequests: one request whose plan falls back from  *)
(* the bridge to a native provider, with streams long enough for blocks     *)
(* that are open together; and one with a native provider whose stream ends *)
(* at once, for the server that both are in.                                *)
EXTENDS ModelRequests, TLC

CONSTANTS r1, r2

PlansOf == (r1 :> <<"bridge", "native">>) @@ (r2 :> <<"native">>)
EventsOf == (r1 :> 2) @@ (r2 :> 0)
PrefixOf == (r1 :> 2) @@ (r2 :> 0)
=============================================================================
