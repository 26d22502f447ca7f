----------------------------- MODULE MCServices -----------------------------
(***************************************************************************)
(* The parts of LinSight that must come back after a fault: the tunnel,    *)
(* the Prometheus exporter and the GUI's connection to a daemon.  Their    *)
(* models share no state, so a behaviour moves one of them, which `part`   *)
(* names, and keeps the others where they begin; the fairness assumed is   *)
(* that of the part that moves.                                            *)
(***************************************************************************)
EXTENDS Tunnel, Prom, GuiLink, TLC

CONSTANTS p1, p2
VARIABLE part

MCTargets == <<"cpu", "gpu">>
MCCert == (p1 :> [chain |-> TRUE, cn |-> {}, sans |-> {<<"gui", "lan">>}]) @@
          (p2 :> [chain |-> TRUE, cn |-> {}, sans |-> {<<"lan">>}])
MCAllow == {<<"*", "lan">>}
MCChunks == [a |-> 2, b |-> 0]

servicesVars == <<part, tunnelVars, promVars, linkVars>>

Init ==
    /\ part \in {"tunnel", "prom", "link"}
    /\ TunnelInit /\ PromInit /\ GuiLinkInit
    /\ part # "tunnel" => mode = "server"
    /\ part # "prom" => hung = {}
    /\ part # "link" => daemon = "service"

Next ==
    /\ UNCHANGED part
    /\ \/ part = "tunnel" /\ TunnelNext /\ UNCHANGED <<promVars, linkVars>>
       \/ part = "prom" /\ PromNext /\ UNCHANGED <<tunnelVars, linkVars>>
       \/ part = "link" /\ GuiLinkNext /\ UNCHANGED <<tunnelVars, promVars>>

Spec ==
    /\ Init /\ [][Next]_servicesVars
    /\ \/ part = "tunnel" /\ TunnelFairness
       \/ part = "prom" /\ PromFairness
       \/ part = "link" /\ GuiLinkFairness
=============================================================================
