---------------------------- MODULE MCPluginHost ----------------------------
(***************************************************************************)
(* One built-in and six shared objects in two directories: with the        *)
(* metadata symbol, without it, one whose manifest contradicts its         *)
(* metadata, one with a built-in's id, one whose manifest is invalid and   *)
(* one of another ABI version.  Sensors and devices overlap.               *)
(***************************************************************************)
EXTENDS PluginHost

Desc(id, key) == [id |-> id, id_ok |-> TRUE, unit |-> [kind |-> "Custom", label |-> "u"],
                  kind |-> "Scalar", category |-> "Gpu", tags |-> <<"a", "b">>,
                  device_key |-> key]
PluginDev(key, cat) == [key |-> key, category |-> cat, model |-> "m", plugin_device_id |-> "d0"]
Plug(abi, meta, id, ss, ds) == [abi |-> abi, metadata |-> meta, config_key |-> "crate",
                                manifest |-> [id |-> id, sensors |-> ss, devices |-> ds]]
MCPlugin == [
    cpu |-> Plug(TRUE, None, "cpu", <<Desc("s1", "k1"), Desc("s1", None)>>, <<PluginDev("k1", "Gpu")>>),
    meta |-> Plug(TRUE, "ext", "ext", <<Desc("s1", "k1"), Desc("s2", "k1")>>,
                  <<PluginDev("k1", "Gpu"), PluginDev("k2", "Cpu")>>),
    probe |-> Plug(TRUE, None, "probe", <<Desc("s3", "k2")>>, <<PluginDev("k2", "Storage")>>),
    liar |-> Plug(TRUE, "ext", "cpu", << >>, << >>),
    twin |-> Plug(TRUE, None, "cpu", <<Desc("s4", None)>>, << >>),
    bad |-> Plug(TRUE, None, "bad", <<Desc("s5", "k2")>>, << >>),
    old |-> Plug(FALSE, None, "old", << >>, << >>)]
MCReads == {[kind |-> "Scalar", value |-> 1],
            [kind |-> "Table",
             value |-> <<<<[kind |-> "Text", value |-> "x"], [kind |-> "Bytes", value |-> 2]>>,
                         <<[kind |-> "Number", value |-> 1]>>>>]}
MCConfigs == {<< >>, [ext |-> "e", probe |-> "p", crate |-> "c", cpu |-> "x"],
              [probe |-> "null"]}
MCBuiltins == <<"cpu">>
MCDirs == <<{"meta", "probe", "liar"}, {"twin", "bad", "old"}>>
MCKeyOrder == <<"k1", "k2">>
MCPayload == [k1 |-> "x", k2 |-> "x"]
=============================================================================
