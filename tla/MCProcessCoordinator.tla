-------------------------- MODULE MCProcessCoordinator --------------------------
(* A process of three stages; the second and the third wait for an event.      *)
EXTENDS ProcessCoordinator, TLC

Chain  == (1 :> 2) @@ (2 :> 3) @@ (3 :> 0)
Third  == {3}
Both   == {2, 3}
\* Two deliveries of the event of stage 2, one of that of stage 3.
Events == ("a" :> 2) @@ ("b" :> 2) @@ ("c" :> 3)
==================================================================================
