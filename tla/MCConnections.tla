---------------------------- MODULE MCConnections ----------------------------
(* Workspaces with two routes of one account family and a plugin behind it,   *)
(* with one app of another plane each, or with an app of two planes each.     *)
EXTENDS Connections, TLC

CONSTANTS pd1, pd2, wordpress, hubspot, notion, zernio, google, meta, shopify, a1, a2,
  h1, h2, z1, z2

Planes == pd1 :> "pipedream" @@ pd2 :> "pipedream" @@ wordpress :> "plugin"
          @@ hubspot :> "nango" @@ notion :> "mcp" @@ zernio :> "zernio"
          @@ google :> "native" @@ meta :> "meta" @@ shopify :> "shopify"

Apps == [s \in DOMAIN Planes |-> IF Planes[s] \in {"pipedream", "plugin"} THEN wordpress ELSE s]

Places == a1 :> wordpress @@ a2 :> wordpress @@ h1 :> hubspot @@ h2 :> hubspot
          @@ z1 :> zernio @@ z2 :> zernio

Workspaces == {<<{pd1, pd2}, {a1, a2}>>, <<{pd1, pd2, wordpress}, {a1}>>}
              \cup {<<{hubspot}, {h1, h2}>>, <<{zernio}, {z1, z2}>>, <<{pd1, hubspot}, {a1, h1}>>}
              \cup {<<{app}, {}>> : app \in {notion, google, meta, shopify}}
===============================================================================
