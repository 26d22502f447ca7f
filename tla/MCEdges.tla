------------------------------ MODULE MCEdges -------------------------------
(***************************************************************************)
(* The two ends of LinSight: the plugins that read the machine, and the    *)
(* clients, that is what the GUI shows, asks for and keeps in files, and   *)
(* the commands of the CLI on the wire.  Their models share no state, so a *)
(* behaviour moves one of them, which `part` names, and keeps the others   *)
(* where they begin.                                                       *)
(***************************************************************************)
EXTENDS MCSensors, RateSensors, ProbedSensors, GuiPump, GuiModels, GuiFiles, Wire, TLC

CONSTANTS c1, c2, t1, t2, t3
VARIABLE part

MCDigits == (c1 :> 1) @@ (c2 :> 1)
MCMaxCounted == [proc |-> 1, systemd |-> 2, containers |-> 1]
MCProbed == <<t1, t2, t3, t1>>

\* The GUI's two hosts, its model calls and its dashboards.
MCCatalogue == <<{"cap", "disk", "proc"}, {"cap", "net"}>>
MCInvocations == [model : {"alerts"}, op : {"list", "upsert", "test"}, arg : {"x"}]
                 \cup [model : {"history"}, op : {"points"}, arg : {"cpu", "gpu"}]
                 \cup [model : {"hardware"}, op : {"nickname"}, arg : {"x"}]
MCNamesOf == [default |-> {"default", "Default!"}, copy |-> {"copy"}]

\* What the CLI is asked to watch.
MCAsked == {<<"a", "b">>, <<"a", "x">>, <<>>}

Init ==
    /\ part \in {"sensors", "rates", "probes", "pump", "models", "files", "wire"}
    /\ SensorsInit /\ RatesInit /\ ProbesInit /\ GuiPumpInit
    /\ GuiModelsInit /\ GuiFilesInit /\ WireInit
    /\ part # "sensors" => plugin = "mem"
    /\ part # "rates" => kind = "cpu"
    /\ part # "probes" => prober = "fs"
    /\ peer[1] = 1
    /\ part # "models" => peer[2] = 1
    /\ part # "files" => legacy = "gone" /\ prefs = "absent"
    /\ part # "wire" => cli.cmd = "list" /\ cli.count = 0

Next ==
    /\ UNCHANGED part
    /\ \/ /\ part = "sensors" /\ SensorsNext
          /\ UNCHANGED <<rateVars, probeVars, pumpVars, modelVars, fileVars, wireVars>>
       \/ /\ part = "rates" /\ RatesNext
          /\ UNCHANGED <<sensorVars, probeVars, pumpVars, modelVars, fileVars, wireVars>>
       \/ /\ part = "probes" /\ ProbesNext
          /\ UNCHANGED <<sensorVars, rateVars, pumpVars, modelVars, fileVars, wireVars>>
       \/ /\ part = "pump" /\ GuiPumpNext
          /\ UNCHANGED <<sensorVars, rateVars, probeVars, modelVars, fileVars, wireVars>>
       \/ /\ part = "models" /\ GuiModelsNext
          /\ UNCHANGED <<sensorVars, rateVars, probeVars, pumpVars, fileVars, wireVars>>
       \/ /\ part = "files" /\ GuiFilesNext
          /\ UNCHANGED <<sensorVars, rateVars, probeVars, pumpVars, modelVars, wireVars>>
       \/ /\ part = "wire" /\ WireNext
          /\ UNCHANGED <<sensorVars, rateVars, probeVars, pumpVars, modelVars, fileVars>>

Spec == Init /\ [][Next]_<<part, sensorVars, rateVars, probeVars, pumpVars, modelVars,
                          fileVars, wireVars>>
=============================================================================
