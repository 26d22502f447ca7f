------------------------------ MODULE Sensors -------------------------------
(***************************************************************************)
(* The sensor plugins that answer from files of /sys and /proc: disk,      *)
(* nvme, net, zram, hwmon, i915, amdgpu, xe, mem, sock, system and the     *)
(* temperature and frequency of cpu (the counters of cpu and xe are in     *)
(* RateSensors).  Each one enumerates a directory once, in init, and then  *)
(* answers samples from a short-lived snapshot or straight from the        *)
(* device's files, while devices go away and files stop being readable.    *)
(* The plugins share nothing, so a behaviour is the life of one of them.   *)
(*                                                                         *)
(* The content of a file is the moment it is read at: a value is the set   *)
(* of files it comes from and that moment, so a stale value, a value of    *)
(* another device and a value nobody read can be told apart.  A value that *)
(* does not parse is an unreadable file.                                   *)
(***************************************************************************)
EXTENDS Naturals, FiniteSets, Sequences

CONSTANTS
    Trees,         \* plugin -> the set of directory contents it may start on
    SnapshotTtl,   \* CACHE_TTL of the snapshot, in units of time
    Sanitised(_),  \* a label's form in an id: lower case, any other sign a '_'
    Numbered(_, _),\* a name with an index appended, name_index
    MaxIndex,      \* u32::MAX, the largest index of hwmonN and thermal_zoneN
    MaxSensorClock, MaxFileFaults

VARIABLES
    plugin,        \* which plugin this is
    tree,          \* its directory: a set of entries
    readable,      \* the files that can be read now
    now,           \* the clock
    devices,       \* Inner.devices: [name, entry, static, sensors]
    adverts,       \* what the host registers: [id, from], the files a sensor is about
    cache,         \* Inner.cache, one per snapshot the plugin keeps
    last,          \* the last sample: [id, ok, value, at]
    broken         \* ghost: files that were unreadable at some time

sensorVars == <<plugin, tree, readable, now, devices, adverts, cache, last, broken>>

(***************************************************************************)
(* Files.  An entry is [idx, name, attrs, files, inputs]; inputs are the   *)
(* *_input files of an hwmon directory in the order read_dir lists them,   *)
(* which is any: [file, stem, kind, label_file, label].                    *)
(***************************************************************************)
Path(e, f) == <<e.idx, f>>
Paths(e, fs) == {Path(e, f) : f \in fs}
Existing == UNION {Paths(e, e.files) : e \in tree}

Value(ps) == [from |-> ps, at |-> now]
CanRead(e, fs) == Paths(e, fs) \subseteq readable
Optional(e, fs) == Value(Paths(e, fs) \cap readable)   \* unwrap_or(0), "unknown", -1

NoSnapshot == [at |-> 0, data |-> << >>]

\* MUTANT: a snapshot is served for as long as it exists.
SnapshotCache_get_Forever(c) == c # NoSnapshot

SnapshotCache_get(c) == c # NoSnapshot /\ now - c.at <= SnapshotTtl

Ok(v, c) == [ok |-> TRUE, value |-> v, cache |-> c]
Err(c) == [ok |-> FALSE, value |-> Value({}), cache |-> c]

\* A map of what could be read, by device; a device that is not in it is an error.
Lookup(slot, fresh, k) ==
    LET c == IF SnapshotCache_get(cache[slot]) THEN cache[slot] ELSE [at |-> now, data |-> fresh]
        cs == [cache EXCEPT ![slot] = c]
    IN IF k \in DOMAIN c.data THEN Ok(c.data[k], cs) ELSE Err(cs)

\* Straight from the files of the device, no cache.
Direct(d, fs) == IF CanRead(d.entry, fs) THEN Ok(Value(Paths(d.entry, fs)), cache) ELSE Err(cache)

\* discover_sensors reads every input of a known kind once, and its label when it
\* has one; label and kind make the id.  Two labels may have one sanitised form.
Suffix == [temp |-> "temp_c", fan |-> "fan_rpm", in |-> "volts", power |-> "power_w",
           curr |-> "amps"]
SensorLabel(e, x) == IF Path(e, x.label_file) \in readable THEN x.label ELSE x.stem
discover_sensors(e) ==
    [i \in {j \in DOMAIN e.inputs : /\ e.inputs[j].kind \in DOMAIN Suffix
                                    /\ Path(e, e.inputs[j].file) \in readable} |->
        [input |-> e.inputs[i].file,
         metric |-> <<Sanitised(SensorLabel(e, e.inputs[i])), Suffix[e.inputs[i].kind]>>]]

Dev(name, e) == [name |-> name, entry |-> e, static |-> Optional(e, {"size"}),
                 sensors |-> discover_sensors(e)]

(***************************************************************************)
(* Each plugin: the entries enumerate keeps, the metrics init advertises   *)
(* with the files behind them, and sample.                                 *)
(***************************************************************************)
BlockMetrics == {"bytes_read", "bytes_written", "iops_read", "iops_written", "io_util_ms"}
Of(ms, fs) == [m \in ms |-> fs]
Join(f, g) == [m \in DOMAIN f \cup DOMAIN g |-> IF m \in DOMAIN f THEN f[m] ELSE g[m]]

disk_enumerate ==
    {Dev(e.name, e) : e \in {x \in tree : /\ x.attrs \cap {"virtual", "excluded", "nvme"} = {}
                                          /\ "stat" \in x.files}}
disk_init(d) == Join(Of({"capacity_bytes"}, {"size"}), Of(BlockMetrics, {"stat"}))
disk_snapshot == [n \in {d.name : d \in {x \in devices : CanRead(x.entry, {"stat"})}} |->
                     Value(UNION {Paths(d.entry, {"stat"}) : d \in {x \in devices : x.name = n}})]
disk_sample(d, m) == IF m = "capacity_bytes" THEN Ok(d.static, cache)
                     ELSE Lookup("main", disk_snapshot, d.name)

\* nvmeN only; the block namespace's stat and the hwmon child are optional.
nvme_enumerate == {Dev(e.name, e) : e \in {x \in tree : "controller" \in x.attrs}}
nvme_init(d) ==
    Join(Of({"capacity_bytes"}, {"size"}),
         Join(Of(IF "temp1_input" \in d.entry.files THEN {"temp_c"} ELSE {}, {"temp1_input"}),
              Of(IF "stat" \in d.entry.files THEN BlockMetrics ELSE {}, {"stat"})))
nvme_snapshot == [n \in {d.name : d \in {x \in devices : CanRead(x.entry, {"stat"})}} |->
                     Value(UNION {Paths(d.entry, {"stat"}) : d \in {x \in devices : x.name = n}})]
nvme_sample(d, m) == CASE m = "capacity_bytes" -> Ok(d.static, cache)
                       [] m = "temp_c" -> Direct(d, {"temp1_input"})
                       [] OTHER -> Lookup("main", nvme_snapshot, d.name)

\* All eight statistics or the interface is left out of the snapshot; the link
\* state and the speed have a value of their own for "not known".
STAT_SENSORS == {"rx_bytes", "tx_bytes", "rx_packets", "tx_packets",
                 "rx_errors", "tx_errors", "rx_dropped", "tx_dropped"}
net_enumerate == {Dev(e.name, e) : e \in {x \in tree : x.attrs \cap {"lo", "excluded"} = {}}}
net_init(d) == Join([m \in STAT_SENSORS |-> {m}],
                    Join(Of({"link_state"}, {"operstate"}), Of({"speed_mbps"}, {"speed"})))
net_snapshot ==
    LET up == {d \in devices : CanRead(d.entry, STAT_SENSORS)}
        entry(n) == (CHOOSE d \in up : d.name = n).entry
    IN [k \in {<<d.name, m>> : d \in up, m \in DOMAIN net_init(0)} |->
           IF k[2] \in STAT_SENSORS THEN Value({Path(entry(k[1]), k[2])})
           ELSE Optional(entry(k[1]), net_init(0)[k[2]])]
net_sample(d, m) == Lookup("main", net_snapshot, <<d.name, m>>)

zram_enumerate == {Dev(e.name, e) : e \in {x \in tree : "zram" \in x.attrs /\ "mm_stat" \in x.files}}
zram_init(d) == Of({"orig_data_bytes", "compr_data_bytes", "mem_used_total_bytes"}, {"mm_stat"})
zram_sample(d, m) == Direct(d, {"mm_stat"})

\* The names the drivers chose may repeat: the first keeps it, the others get
\* their index appended.  Only the base names are remembered as taken, so a name
\* that was appended to may still meet another one.
Disambiguated(base) ==
    [e \in DOMAIN base |-> IF \E f \in DOMAIN base : f.idx < e.idx /\ base[f] = base[e]
                           THEN Numbered(base[e], e.idx) ELSE base[e]]

\* A device without an input that answers is left out.  Of the inputs with one id
\* the first answers for it, in the manifest as in sample_inner.
enumerate_hwmon ==
    LET named == {x \in tree : x.attrs \cap {"cpu", "unnamed"} = {}}
        name == Disambiguated([e \in named |-> e.name])
    IN {Dev(name[e], e) : e \in {x \in named : DOMAIN discover_sensors(x) # {}}}
FirstInput(d, m) ==
    LET same == {i \in DOMAIN d.sensors : d.sensors[i].metric = m}
    IN d.sensors[CHOOSE i \in same : \A j \in same : i <= j].input
hwmon_init(d) == [m \in {d.sensors[i].metric : i \in DOMAIN d.sensors} |-> {FirstInput(d, m)}]
hwmon_sample(d, m) == Direct(d, {FirstInput(d, m)})

i915_enumerate == {Dev(e.name, e) : e \in {x \in tree : {"card", "intel", "i915"} \subseteq x.attrs}}
i915_init(d) ==
    Join([cur_freq_hz |-> {"gt_cur_freq_mhz"}, act_freq_hz |-> {"gt_act_freq_mhz"}],
         Of(IF "hwmon" \in d.entry.attrs THEN {"temp_c"} ELSE {}, {"temp1_input"}))
i915_sample(d, m) == Direct(d, i915_init(d)[m])

amdgpu_enumerate == {Dev(e.name, e) : e \in {x \in tree : {"card", "amd"} \subseteq x.attrs}}
amdgpu_init(d) ==
    Join([util |-> {"gpu_busy_percent"}, mem_used_bytes |-> {"mem_info_vram_used"},
          mem_total_bytes |-> {"mem_info_vram_total"}],
         IF "hwmon" \in d.entry.attrs
         THEN [temp_c |-> {"temp1_input"}, power_w |-> {"power1_input"}] ELSE << >>)
amdgpu_sample(d, m) == Direct(d, amdgpu_init(d)[m])

\* Of the hwmon sensors only the ones that answer in init are advertised; the
\* temperature is the labelled one, and temp1 when that cannot be read.
xe_enumerate == {Dev(e.name, e) : e \in {x \in tree : {"card", "xe"} \subseteq x.attrs}}
XeFiles == [temp_c |-> <<"package_input", "temp1_input">>, fan_rpm |-> <<"fan1_input">>,
            mem_total_bytes |-> <<"resource">>, freq_hz |-> <<"act_freq">>]
XeRead(d, m) ==
    LET up == {i \in DOMAIN XeFiles[m] : CanRead(d.entry, {XeFiles[m][i]})}
    IN IF up = {} THEN {} ELSE {XeFiles[m][CHOOSE i \in up : \A j \in up : i <= j]}
xe_init(d) == [m \in {"freq_hz"} \cup {n \in DOMAIN XeFiles : XeRead(d, n) # {}} |->
                   {XeFiles[m][i] : i \in DOMAIN XeFiles[m]}]
xe_sample(d, m) == IF XeRead(d, m) = {} THEN Err(cache) ELSE Direct(d, XeRead(d, m))

\* The first sample looks for the files and keeps what it found: the one input of
\* the package temperature once there is one, the list of frequencies even if empty.
cpu_init(d) == [temp_c |-> {"package_input"}, freq_hz |-> {"cpu0_freq", "cpu1_freq"}]
cpu_found(d, m) == IF cache[m] # NoSnapshot THEN cache[m].data["paths"]
                   ELSE Paths(d.entry, cpu_init(d)[m]) \cap readable
cpu_sample(d, m) ==
    LET ps == cpu_found(d, m)
        keep == ps # {} \/ m = "freq_hz"
        cs == IF keep THEN [cache EXCEPT ![m] = [at |-> now, data |-> [x \in {"paths"} |-> ps]]]
              ELSE cache
    IN IF ps \cap readable = {} THEN Err(cs) ELSE Ok(Value(ps \cap readable), cs)

\* One file and no device; an error leaves the old snapshot where it is.
mem_init(d) == Of({"used_bytes", "total_bytes", "swap_total_bytes", "swap_used_bytes",
                   "swap_cached_bytes"}, {"meminfo"})
meminfo_snapshot(d) == [n \in {d.name} |-> Value(Paths(d.entry, {"meminfo"}))]
mem_sample(d, m) ==
    IF ~ SnapshotCache_get(cache["main"]) /\ ~ CanRead(d.entry, {"meminfo"}) THEN Err(cache)
    ELSE Lookup("main", meminfo_snapshot(d), d.name)

\* Two caches; a file that is missing counts as one without sockets.
sock_init(d) == Join(Of({"tcp_established", "tcp_listen", "tcp_time_wait"}, {"tcp", "tcp6"}),
                     Of({"udp_inuse", "tcp_mem_bytes"}, {"sockstat"}))
sock_sample(d, m) ==
    LET slot == IF sock_init(d)[m] = {"sockstat"} THEN "sockstat" ELSE "tcp"
    IN Lookup(slot, [n \in {d.name} |-> Optional(d.entry, sock_init(d)[m])], d.name)

\* loadavg, uptime and stat must all be there; entropy and pressure default to
\* zero; a thermal zone that cannot be read is left out, and of the zones that
\* came to have one label the last one read stays in the map.
SystemRequired == {"loadavg", "uptime", "stat"}
SystemFiles == [load_1m |-> {"loadavg"}, procs_total |-> {"loadavg"}, uptime_secs |-> {"uptime"},
                ctxt_switches |-> {"stat"}, procs_created |-> {"stat"},
                entropy_bits |-> {"entropy_avail"}, cpu_some_10 |-> {"pressure_cpu"},
                mem_full_10 |-> {"pressure_memory"}, io_some_10 |-> {"pressure_io"}]
enumerate_thermal_zones ==
    LET zones == {x \in tree : "zone" \in x.attrs /\ "temp" \in x.files}
        safe_label == Disambiguated([e \in zones |-> Sanitised(e.name)])
    IN {Dev(<<"thermal", safe_label[e]>>, e) : e \in zones}
zone_init == Of({"temp_c"}, {"temp"})
system_init(d) == IF "zone" \in d.entry.attrs THEN zone_init ELSE SystemFiles
system_snapshot ==
    LET up == {d \in devices : "zone" \notin d.entry.attrs \/ CanRead(d.entry, {"temp"})}
    IN [k \in UNION {{<<d.name, m>> : m \in DOMAIN system_init(d)} : d \in up} |->
           LET d == CHOOSE x \in up : /\ x.name = k[1]
                                      /\ \A y \in up : y.name = k[1] => y.entry.idx <= x.entry.idx
           IN Optional(d.entry, system_init(d)[k[2]])]
system_sample(d, m) ==
    LET root == CHOOSE x \in devices : "zone" \notin x.entry.attrs
    IN IF ~ SnapshotCache_get(cache["main"]) /\ ~ CanRead(root.entry, SystemRequired)
       THEN Err(cache) ELSE Lookup("main", system_snapshot, <<d.name, m>>)

(***************************************************************************)
(* The machines.  An index is an entry's own; the names, of hwmon devices  *)
(* and of zones too, may repeat and meet in any way.  An interface has all *)
(* its statistics and /proc its files; the plugins of the whole machine    *)
(* have one entry for it.                                                  *)
(***************************************************************************)
ASSUME TreesAssumption ==
    /\ {SnapshotTtl, MaxIndex} \subseteq Nat
    /\ DOMAIN Trees \subseteq {"disk", "nvme", "net", "zram", "hwmon", "i915", "amdgpu",
                              "xe", "cpu", "mem", "sock", "system"}
    /\ \A p \in DOMAIN Trees : \A t \in Trees[p] :
           /\ \A e \in t : e.idx \in 0 .. MaxIndex
           /\ \A e, f \in t : e.idx = f.idx => e = f
           /\ p = "net" => \A e \in t : STAT_SENSORS \subseteq e.files
           /\ p \in {"cpu", "mem", "sock", "system"} =>
                  \E e \in t : \A f \in t : "root" \in f.attrs <=> f = e
           /\ p = "system" =>
                  \A e \in t : "root" \in e.attrs =>
                      SystemRequired \subseteq e.files /\ "zone" \notin e.attrs

(***************************************************************************)
(* One plugin's life.                                                      *)
(***************************************************************************)
Whole == {Dev(<<plugin>>, e) : e \in {x \in tree : "root" \in x.attrs}}

Enumerate == CASE plugin = "disk" -> disk_enumerate [] plugin = "nvme" -> nvme_enumerate
               [] plugin = "net" -> net_enumerate [] plugin = "zram" -> zram_enumerate
               [] plugin = "hwmon" -> enumerate_hwmon [] plugin = "i915" -> i915_enumerate
               [] plugin = "amdgpu" -> amdgpu_enumerate [] plugin = "xe" -> xe_enumerate
               [] plugin = "system" -> Whole \cup enumerate_thermal_zones
               [] OTHER -> Whole

Metrics(d) == CASE plugin = "disk" -> disk_init(d) [] plugin = "nvme" -> nvme_init(d)
                [] plugin = "net" -> net_init(d) [] plugin = "zram" -> zram_init(d)
                [] plugin = "hwmon" -> hwmon_init(d) [] plugin = "i915" -> i915_init(d)
                [] plugin = "amdgpu" -> amdgpu_init(d) [] plugin = "mem" -> mem_init(d)
                [] plugin = "sock" -> sock_init(d) [] plugin = "system" -> system_init(d)
                [] plugin = "xe" -> xe_init(d) [] plugin = "cpu" -> cpu_init(d)

Sample(d, m) == CASE plugin = "disk" -> disk_sample(d, m) [] plugin = "nvme" -> nvme_sample(d, m)
                  [] plugin = "net" -> net_sample(d, m) [] plugin = "zram" -> zram_sample(d, m)
                  [] plugin = "hwmon" -> hwmon_sample(d, m) [] plugin = "i915" -> i915_sample(d, m)
                  [] plugin = "amdgpu" -> amdgpu_sample(d, m) [] plugin = "mem" -> mem_sample(d, m)
                  [] plugin = "sock" -> sock_sample(d, m) [] plugin = "system" -> system_sample(d, m)
                  [] plugin = "xe" -> xe_sample(d, m) [] plugin = "cpu" -> cpu_sample(d, m)

NothingYet == [id |-> << >>, ok |-> FALSE, value |-> [from |-> {}, at |-> 0], at |-> 0]

SensorsInit ==
    /\ plugin \in DOMAIN Trees /\ tree \in Trees[plugin]
    /\ readable = Existing /\ now = 0
    /\ devices = {} /\ adverts = {} /\ broken = {}
    /\ cache = [s \in {"main", "tcp", "sockstat", "temp_c", "freq_hz"} |-> NoSnapshot]
    /\ last = NothingYet

\* validate_manifest: a device is listed once; a zone is no device of its own.
Zone(d) == plugin = "system" /\ "zone" \in d.entry.attrs
validate_manifest(ds) == \A d, e \in ds : d.name = e.name /\ ~ Zone(d) /\ ~ Zone(e) => d = e

\* Of the zones with one name the first is the one the host registers.
First(ds) == {d \in ds : \A e \in ds : e.name = d.name => d.entry.idx <= e.entry.idx}

\* init_inner and the check of what it returns: one device whose key is not
\* acceptable, or two with one key, fail the whole plugin.
init_inner ==
    /\ devices = {} /\ adverts = {}
    /\ \A d \in Enumerate : "badkey" \notin d.entry.attrs
    /\ validate_manifest(Enumerate)
    /\ devices' = Enumerate
    /\ adverts' = UNION {{[id |-> <<d.name, m>>, from |-> Paths(d.entry, Metrics(d)[m])] :
                              m \in DOMAIN Metrics(d)} : d \in First(Enumerate)}
    /\ UNCHANGED <<plugin, tree, readable, now, cache, last, broken>>

\* sample_inner: the sensor's device is the first with its name.
sample_inner(id) ==
    /\ LET d == CHOOSE x \in First(devices) : x.name = id[1]
           r == Sample(d, id[2])
       IN /\ cache' = r.cache
          /\ last' = [id |-> id, ok |-> r.ok, value |-> r.value, at |-> now]
    /\ UNCHANGED <<plugin, tree, readable, now, devices, adverts, broken>>

\* A device goes away, a file becomes unreadable, all of it comes back.
Fails(ps) ==
    /\ Cardinality(broken) < MaxFileFaults
    /\ readable' = readable \ ps /\ broken' = broken \cup ps
    /\ UNCHANGED <<plugin, tree, now, devices, adverts, cache, last>>
Recovers ==
    /\ readable # Existing /\ readable' = Existing
    /\ UNCHANGED <<plugin, tree, now, devices, adverts, cache, last, broken>>
SensorTick ==
    /\ now < MaxSensorClock /\ now' = now + 1
    /\ UNCHANGED <<plugin, tree, readable, devices, adverts, cache, last, broken>>

SensorsNext ==
    \/ init_inner
    \/ \E a \in adverts : sample_inner(a.id)
    \/ \E p \in readable : Fails({p})
    \/ \E e \in tree : Paths(e, e.files) \cap readable # {} /\ Fails(Paths(e, e.files))
    \/ Recovers
    \/ SensorTick

SensorsSpec == SensorsInit /\ [][SensorsNext]_sensorVars

(***************************************************************************)
(* Properties                                                              *)
(***************************************************************************)
\* What may be missing without an error, and what a sample needs besides its own.
Tolerated(id) == \/ plugin = "sock"
                 \/ plugin = "net" /\ id[2] \in {"link_state", "speed_mbps"}
                 \/ plugin = "system" /\ id[2] \in {"entropy_bits", "cpu_some_10",
                                                    "mem_full_10", "io_some_10"}
IsStatic(id) == plugin \in {"disk", "nvme"} /\ id[2] = "capacity_bytes"
Shared(id) == CASE plugin = "system" -> Paths((CHOOSE e \in tree : "root" \in e.attrs), SystemRequired)
                [] plugin = "net" -> UNION {Paths(d.entry, STAT_SENSORS) :
                                                d \in {x \in devices : x.name = id[1]}}
                [] OTHER -> {}

\* A zone that has the sensor's label, though it need not be the one registered.
OfNamesake(id, ps) == \E d \in devices : /\ Zone(d) /\ id = <<d.name, "temp_c">>
                                         /\ ps \subseteq Paths(d.entry, {"temp"})

\* A reading is of the files its sensor was registered for and no older than the
\* snapshot's lifetime, whatever was cached, whatever failed in between and however
\* names and labels meet; only of thermal zones that came to have one label may
\* another one answer.  Zero stands for a missing file only where the plugin means it
\* to; and a sensor fails only for files it depends on: one interface, drive or zone that
\* disappears never takes another one with it.  (sample_inner and snapshot of each plugin.)
ReadingsAreReal ==
    last.id # << >> =>
        LET own == UNION {a.from : a \in {x \in adverts : x.id = last.id}}
        IN /\ last.ok => /\ \A a \in adverts : a.id = last.id =>
                               last.value.from \subseteq a.from \/ OfNamesake(last.id, last.value.from)
                         /\ IsStatic(last.id) \/ last.at - last.value.at <= SnapshotTtl
                         /\ last.value.from = {} => Tolerated(last.id) \/ IsStatic(last.id)
           /\ ~ last.ok => (own \cup Shared(last.id)) \cap (broken \cup (own \ Existing)) # {}
=============================================================================
