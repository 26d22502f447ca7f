----------------------------- MODULE PluginHost -----------------------------
(***************************************************************************)
(* The daemon's start and stop as its plugins see them: plugin_host.rs     *)
(* registers the built-in plugins, then every .so of the plugin            *)
(* directories; runtime.rs builds the HardwareRegistry from what was       *)
(* registered; samples are taken; Drop for PluginHost shuts every plugin   *)
(* down.  All of it runs on one thread, so loading one candidate is one    *)
(* action; what varies is the order read_dir lists a directory in, which   *)
(* calls into a plugin fail, and what plugins.toml configures.             *)
(*                                                                         *)
(* log[c] is the sequence of calls made on the instances of candidate c    *)
(* and on its library, in the order they happen.  Function parameters      *)
(* drop in reverse order of declaration, locals too: FailedInit says which *)
(* of the instance and its library goes first on each error path.          *)
(***************************************************************************)
EXTENDS PluginBoundary, Naturals, FiniteSets

CONSTANTS
    Builtins,      \* sequence of candidates: the 18 statically linked plugins
    Dirs,          \* sequence of sets of candidates: the .so files of plugin_dirs()
    Plugin,        \* what each candidate is: see Candidates below
    ValidKeys,     \* device keys HardwareDeviceKey::try_new accepts
    KeyOrder,      \* sequence of those keys in the order of their strings
    Payload,       \* each key without its scheme prefix
    Reads,         \* readings a plugin may return
    Configs        \* the possible contents of plugins.toml: id -> "null" or JSON

Candidates == ToSet(Builtins) \cup UNION ToSet(Dirs)

\* A file of a plugin directory is one candidate, and no built-in is a file.
ASSUME CandidatesAssumption ==
    /\ Len(Dirs) \in Nat /\ DOMAIN Dirs = 1..Len(Dirs)
    /\ \A i, j \in DOMAIN Builtins : i # j => Builtins[i] # Builtins[j]
    /\ \A d \in DOMAIN Dirs :
           /\ Dirs[d] \cap ToSet(Builtins) = {}
           /\ \A e \in DOMAIN Dirs : d # e => Dirs[d] \cap Dirs[e] = {}

ASSUME PluginAssumption ==
    /\ \A c \in Candidates :
           /\ Plugin[c].abi \in BOOLEAN /\ Plugin[c].config_key \in STRING
           /\ c \in ToSet(Builtins) => Plugin[c].metadata = None
           /\ Plugin[c].manifest \in PluginManifest
    /\ Reads \subseteq Reading
    /\ \A f \in Configs : \A id \in DOMAIN f : f[id] \in STRING \ {""}     \* JSON text

\* A device key names its scheme, so the text for "no key" is none; KeyOrder has them all.
ASSUME KeysAssumption ==
    /\ None \notin ValidKeys
    /\ KeyOrder \in Seq(ValidKeys)
    /\ \A k \in ValidKeys : \E i \in DOMAIN KeyOrder : KeyOrder[i] = k

VARIABLES
    boot,         \* "builtins", "dynamic", "build", "serving", "stopped"
    todo,          \* candidates of the current directory not yet loaded
    dir,           \* index of that directory in Dirs
    conf,          \* the parsed plugins.toml: a function from plugin ids
    host,          \* PluginHost: [plugins, registry]
    hw,            \* HardwareRegistry: [devices, by_plugin, labels]
    log,           \* calls made on each candidate's instances and library
    sampled        \* the last sample: what was asked, read and returned

hostVars == <<boot, todo, dir, conf, host, hw, log, sampled>>

Call(n, what, arg) == [inst |-> n, what |-> what, arg |-> arg]
Calls(n, whats) == [i \in DOMAIN whats |-> Call(n, whats[i], None)]
Reg(h, l) == [host |-> h, log |-> l]

NoSample == [asked |-> None, outcome |-> None, read |-> None, got |-> None]

(***************************************************************************)
(* manifest.rs, validate_manifest, on the raw mirror; plugin.rs, host_init *)
(* with the outcome of the plugin's own init: "ok", "panic" or an error.   *)
(***************************************************************************)
HardwareDeviceKey_try_new(k) == k \in ValidKeys

validate_manifest(m) ==
    /\ \A d \in ToSet(m.devices) : HardwareDeviceKey_try_new(d.key)
    /\ \A i, j \in DOMAIN m.devices :
           i # j => m.devices[i].key # m.devices[j].key
    /\ \A s \in ToSet(m.sensors) :
           s.device_key = None \/ s.device_key \in {d.key : d \in ToSet(m.devices)}

host_init(c, outcome) ==
    LET m == IntoRPluginManifest(Plugin[c].manifest)
    IN IF outcome = "panic" THEN [err |-> "Panic"]
       ELSE IF outcome # "ok" THEN [err |-> FromRPluginError(IntoRPluginError(outcome))]
       ELSE IF \E s \in ToSet(m.sensors) : ~ s.id_ok THEN [err |-> "Parse"]
       ELSE IF ~ validate_manifest(m) THEN [err |-> "Manifest"]
       ELSE [err |-> None, manifest |-> FromRPluginManifest(m)]

\* What the plugin sees of its config: with_config, then the context's crossing.
InitArg(config) == FromRPluginCtx(IntoRPluginCtx(config))

(***************************************************************************)
(* finish_register and the paths that lead to it.  Each takes the host and *)
(* the candidate's log so far and returns both.                            *)
(***************************************************************************)
\* for desc in manifest.sensors: the first registration of a sensor id wins.
AcceptSensor(acc, d) ==
    IF d.id \in DOMAIN acc.registry THEN acc
    ELSE [acc EXCEPT !.registry = [i \in DOMAIN acc.registry \cup {d.id} |->
                                      IF i = d.id THEN [idx |-> acc.idx, desc |-> d]
                                      ELSE acc.registry[i]],
                     !.accepted = Append(@, d)]

AcceptSensors(registry, idx, sensors) ==
    FoldLeft(AcceptSensor, [idx |-> idx, registry |-> registry, accepted |-> << >>], sensors)

\* What dropping the Option<Library> of a candidate calls: a built-in has none.
dlclose(c) == IF c \in ToSet(Builtins) THEN << >> ELSE Calls(0, <<"dlclose">>)

\* MUTANT: the per-plugin descriptor list keeps sensors the registry refused.
finish_register_KeepsDuplicates(h, l, c, n, manifest) ==
    LET idx == Len(h.plugins) + 1
    IN IF \E e \in ToSet(h.plugins) : e.id = manifest.id
       THEN Reg(h, l \o Calls(n, <<"shutdown", "drop">>) \o dlclose(c))
       ELSE Reg([plugins |-> Append(h.plugins,
                                [cand |-> c, inst |-> n, id |-> manifest.id,
                                 sensors |-> manifest.sensors,
                                 devices |-> manifest.devices]),
                 registry |-> AcceptSensors(h.registry, idx, manifest.sensors).registry], l)

finish_register(h, l, c, n, manifest) ==
    LET idx == Len(h.plugins) + 1
        a == AcceptSensors(h.registry, idx, manifest.sensors)
    IN IF \E e \in ToSet(h.plugins) : e.id = manifest.id
       THEN Reg(h, l \o Calls(n, <<"shutdown", "drop">>) \o dlclose(c))
       ELSE Reg([plugins |-> Append(h.plugins,
                                [cand |-> c, inst |-> n, id |-> manifest.id,
                                 sensors |-> a.accepted, devices |-> manifest.devices]),
                 registry |-> a.registry], l)

\* The parameters of register_with_config_checked drop in reverse order on an
\* early return: the library before the plugin that was made from it.
FailedInit(c, n) == dlclose(c) \o Calls(n, <<"drop">>)

register_with_config_checked(h, l, c, n, config, outcome, expected) ==
    LET r == host_init(c, outcome)
        l1 == Append(l, Call(n, "init", InitArg(config)))
    IN CASE r.err # None -> Reg(h, l1 \o FailedInit(c, n))
         [] r.err = None /\ expected # None /\ r.manifest.id # expected ->
                Reg(h, l1 \o Calls(n, <<"shutdown", "drop">>) \o dlclose(c))
         [] OTHER -> finish_register(h, l1, c, n, r.manifest)

cfg(id) == IF id \in DOMAIN conf THEN conf[id] ELSE "null"

\* MUTANT: the probed instance is initialised again instead of being replaced.
LoadProbed_Reuses(h, l, c, o1, o2) ==
    LET r == host_init(c, o1)
        l1 == Append(l, Call(1, "init", InitArg("null")))
    IN IF r.err # None THEN Reg(h, l1 \o Calls(1, <<"drop">>) \o dlclose(c))
       ELSE IF cfg(r.manifest.id) = "null"
       THEN finish_register(h, l1, c, 1, r.manifest)
       ELSE register_with_config_checked(h, l1, c, 1, cfg(r.manifest.id), o2, None)

\* A .so without the metadata symbol: a probe init with an empty context tells
\* its id; with a config for that id the probe is discarded for a new instance.
LoadProbed(h, l, c, o1, o2) ==
    LET r == host_init(c, o1)
        l1 == Append(l, Call(1, "init", InitArg("null")))
    IN IF r.err # None THEN Reg(h, l1 \o Calls(1, <<"drop">>) \o dlclose(c))
       ELSE IF cfg(r.manifest.id) = "null"
       THEN finish_register(h, l1, c, 1, r.manifest)
       ELSE register_with_config_checked(
                h, l1 \o Calls(1, <<"shutdown", "drop">>) \o Calls(2, <<"new">>),
                c, 2, cfg(r.manifest.id), o2, None)

\* dlopen, the ABI version symbol, then the optional metadata symbol: an error
\* drops the library.
load_one(c) == Plugin[c].abi
load_metadata(c) == IF Plugin[c].metadata = None THEN None
                    ELSE FromRPluginMetadata([plugin_id |-> Plugin[c].metadata]).plugin_id
instantiate(n) == Calls(n, <<"new">>)

LoadLibrary(h, c, o1, o2) ==
    LET opened == Calls(0, <<"dlopen">>)
        id == load_metadata(c)
    IN CASE ~ load_one(c) -> Reg(h, opened \o dlclose(c))
         [] load_one(c) /\ id # None ->
                register_with_config_checked(h, opened \o instantiate(1), c, 1,
                                             cfg(id), o1, id)
         [] OTHER -> LoadProbed(h, opened \o instantiate(1), c, o1, o2)

(***************************************************************************)
(* The steps of runtime.rs, run.                                           *)
(***************************************************************************)
Outcomes == {"ok", "panic", "Io"}

\* load_plugin_configs: a file that is missing, too large or unreadable gives
\* no configuration at all; PluginHost starts empty.
HostInit ==
    /\ conf \in Configs
    /\ boot = "builtins" /\ todo = {} /\ dir = 0
    /\ host = [plugins |-> << >>, registry |-> << >>]
    /\ hw = [devices |-> << >>, by_plugin |-> {}, labels |-> << >>]
    /\ log = [c \in Candidates |-> << >>]
    /\ sampled = NoSample

\* with_builtins_and_config: the built-ins, in the order of the source, each with
\* the config filed under its crate's name, which is not its plugin id.
LoadBuiltin(outcome) ==
    /\ boot = "builtins"
    /\ \E i \in DOMAIN Builtins :
           LET c == Builtins[i]
               r == register_with_config_checked(host, instantiate(1), c, 1,
                                                 cfg(Plugin[c].config_key), outcome, None)
           IN /\ log[c] = << >> /\ \A j \in 1..(i - 1) : log[Builtins[j]] # << >>
              /\ host' = r.host
              /\ log' = [log EXCEPT ![c] = r.log]
              /\ boot' = IF i = Len(Builtins) THEN "dynamic" ELSE boot
    /\ UNCHANGED <<todo, dir, conf, hw, sampled>>

\* load_dynamic_plugins, one directory after the other.
load_dynamic_plugins ==
    /\ boot = "dynamic" /\ todo = {}
    /\ IF dir = Len(Dirs)
       THEN boot' = "build" /\ UNCHANGED <<todo, dir>>
       ELSE dir' = dir + 1 /\ todo' = Dirs[dir + 1] /\ UNCHANGED boot
    /\ UNCHANGED <<conf, host, hw, log, sampled>>

\* load_from_dir: one entry of read_dir, in an order nobody chose.
load_from_dir(c, o1, o2) ==
    /\ boot = "dynamic" /\ c \in todo
    /\ LET r == LoadLibrary(host, c, o1, o2)
       IN host' = r.host /\ log' = [log EXCEPT ![c] = r.log]
    /\ todo' = todo \ {c}
    /\ UNCHANGED <<boot, dir, conf, hw, sampled>>

(***************************************************************************)
(* hardware.rs, build: devices in the order of devices_by_plugin, the      *)
(* first declaration of a key wins; then the sensors' cross-reference.     *)
(***************************************************************************)
AddDevice(devices, d) ==
    IF \E e \in ToSet(devices) : e.key = d.key THEN devices ELSE Append(devices, d)

AddSensor(devices, s) ==
    [i \in DOMAIN devices |->
        IF devices[i].key = s.device_key
        THEN [devices[i] EXCEPT !.sensor_ids = Append(@, s.id)] ELSE devices[i]]

\* A plugin's devices with the id it registered under, and no sensors yet.
Bound(e) == [i \in DOMAIN e.devices |->
                [e.devices[i] EXCEPT !.plugin_id = e.id, !.sensor_ids = << >>]]

AddPlugin(devices, e) ==
    FoldLeft(AddSensor, FoldLeft(AddDevice, devices, Bound(e)), e.sensors)

BuildDevices == FoldLeft(AddPlugin, << >>, host.plugins)

\* by_plugin: (plugin, its own device id) -> key, for the devices that were kept.
ByPlugin(devices) == {<<d.plugin_id, d.plugin_device_id, d.key>> : d \in ToSet(devices)}

\* A model shared with another device is told apart by the key's payload.
compute_device_label(d, devices) ==
    IF \E e \in ToSet(devices) : e.key # d.key /\ e.model = d.model
    THEN <<d.model, Payload[d.key]>> ELSE <<d.model>>

rebuild_labels(devices) ==
    [k \in {d.key : d \in ToSet(devices)} |->
        compute_device_label(CHOOSE d \in ToSet(devices) : d.key = k, devices)]

build ==
    /\ boot = "build"
    /\ hw' = [devices |-> BuildDevices, by_plugin |-> ByPlugin(BuildDevices),
              labels |-> rebuild_labels(BuildDevices)]
    /\ boot' = "serving"
    /\ UNCHANGED <<todo, dir, conf, host, log, sampled>>

device_label_for(k) == IF k \in DOMAIN hw.labels THEN hw.labels[k] ELSE <<k>>
key_for(p, d) == {t[3] : t \in {u \in hw.by_plugin : u[1] = p /\ u[2] = d}}

\* snapshot: every device once, by category, then by key.
category_rank == [Cpu |-> 0, Gpu |-> 1, Storage |-> 2, Network |-> 3, Other |-> 4]
Before(a, b) == \/ category_rank[a.category] < category_rank[b.category]
                \/ /\ category_rank[a.category] = category_rank[b.category]
                   /\ Encode(KeyOrder, a.key) < Encode(KeyOrder, b.key)
snapshot == CHOOSE s \in [DOMAIN hw.devices -> ToSet(hw.devices)] :
                \A i, j \in DOMAIN hw.devices : i < j => Before(s[i], s[j])

\* sample_to and host_sample: the owner's reading, across the boundary and back.  Of
\* the samples taken of a candidate its log keeps the last.
sample_to(id, read, outcome) ==
    /\ boot = "serving" /\ id \in DOMAIN host.registry
    /\ sampled' = [asked |-> id, outcome |-> outcome, read |-> read,
                   got |-> IF outcome = "ok" THEN FromRReading(IntoRReading(read))
                           ELSE IF outcome = "panic" THEN "Panic"
                           ELSE FromRPluginError(IntoRPluginError(outcome))]
    /\ LET e == host.plugins[host.registry[id].idx]
           n == Len(log[e.cand])
           asked == Call(e.inst, "sample", id)
       IN log' = [log EXCEPT ![e.cand] = IF @[n].what = "sample" THEN [@ EXCEPT ![n] = asked]
                                         ELSE Append(@, asked)]
    /\ UNCHANGED <<boot, todo, dir, conf, host, hw>>

\* Drop for PluginHost: shutdown in registration order; then each entry drops
\* its plugin before its library, the order of PluginEntry's fields.
StopHost ==
    /\ boot = "serving"
    /\ boot' = "stopped"
    /\ log' = [c \in Candidates |->
                  IF \A e \in ToSet(host.plugins) : e.cand # c THEN log[c]
                  ELSE LET e == CHOOSE e \in ToSet(host.plugins) : e.cand = c
                       IN log[c] \o Calls(e.inst, <<"shutdown", "drop">>) \o dlclose(c)]
    /\ UNCHANGED <<todo, dir, conf, host, hw, sampled>>

HostNext ==
    \/ \E o \in Outcomes : LoadBuiltin(o)
    \/ load_dynamic_plugins
    \/ \E c \in todo, o1, o2 \in Outcomes : load_from_dir(c, o1, o2)
    \/ build
    \/ \E id \in DOMAIN host.registry, r \in Reads, o \in Outcomes : sample_to(id, r, o)
    \/ StopHost

HostSpec == HostInit /\ [][HostNext]_hostVars

(***************************************************************************)
(* Properties                                                              *)
(***************************************************************************)
Is(c, i, n, what) == log[c][i].inst = n /\ log[c][i].what = what
Happens(c, n, what) == \E i \in DOMAIN log[c] : Is(c, i, n, what)

ConfigKey(e) == IF e.cand \in ToSet(Builtins) THEN Plugin[e.cand].config_key ELSE e.id

\* No instance is ever initialised twice, nothing is asked of it after its
\* shutdown but to go away nor after that, once the daemon has stopped every
\* instance that was made is gone, and a registered plugin was initialised with the
\* config filed for it in plugins.toml: the probe that finds out the id never
\* becomes the instance a configuration was meant for.  (plugin_host.rs: "no live
\* plugin is ever double-initialized".)
PluginsLiveOnce ==
    /\ \A c \in Candidates : \A i, j \in DOMAIN log[c] :
           i < j /\ log[c][i].inst = log[c][j].inst =>
               /\ ~ (log[c][i].what = "init" /\ log[c][j].what = "init")
               /\ log[c][i].what = "shutdown" => log[c][j].what = "drop"
               /\ log[c][i].what # "drop"
    /\ \A e \in ToSet(host.plugins) :
           \E i \in DOMAIN log[e.cand] :
               log[e.cand][i] = Call(e.inst, "init", cfg(ConfigKey(e)))
    /\ boot = "stopped" =>
           \A c \in Candidates, n \in {1, 2} : Happens(c, n, "new") <=> Happens(c, n, "drop")

\* The catalogue is what the plugins declared: every registered sensor carries the
\* descriptor its owner declared first, a sensor bound to a device is listed by that
\* device, once, and by no other, whoever declared the device, nothing else is listed,
\* the hardware list has every device in the order of the categories, and a sample is
\* the reading its owner took, cell by cell.
ListingsAgree ==
    /\ \A id \in DOMAIN host.registry :
           LET k == host.registry[id].desc.device_key
           IN k # None => \E d \in ToSet(hw.devices) : d.key = k /\ id \in ToSet(d.sensor_ids)
    /\ \A x, y \in DOMAIN hw.devices :
           LET d == hw.devices[x]
               e == hw.devices[y]
           IN \A i \in DOMAIN d.sensor_ids :
                  /\ d.sensor_ids[i] \in DOMAIN host.registry
                  /\ host.registry[d.sensor_ids[i]].desc.device_key = d.key
                  /\ \A j \in DOMAIN e.sensor_ids :
                         d.sensor_ids[i] = e.sensor_ids[j] => x = y /\ i = j

SnapshotSorted ==
    /\ \A d \in ToSet(hw.devices) : \E i \in DOMAIN hw.devices : snapshot[i] = d
    /\ \A i, j \in DOMAIN hw.devices :
           i < j => category_rank[snapshot[i].category] <= category_rank[snapshot[j].category]

CatalogueIsHonest ==
    /\ \A id \in DOMAIN host.registry :
           LET e == host.registry[id]
               declared == Plugin[host.plugins[e.idx].cand].manifest.sensors
           IN \E i \in DOMAIN declared :
                  /\ declared[i] = e.desc /\ declared[i].id = id
                  /\ \A j \in 1..(i - 1) : declared[j].id # id
    /\ boot \in {"serving", "stopped"} => ListingsAgree /\ SnapshotSorted
    /\ sampled.outcome = "ok" => sampled.got = sampled.read
=============================================================================
