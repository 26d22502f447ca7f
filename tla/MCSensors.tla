------------------------------ MODULE MCSensors ------------------------------
(***************************************************************************)
(* Small machines for the plugins of Sensors: for each plugin one or two   *)
(* trees of devices, with entries that are not devices, devices that share *)
(* a name or an id, and devices with no readable file.                     *)
(***************************************************************************)
EXTENDS Sensors, TLC

\* A directory entry: its index, its name, what it is, its readable files.
E(i, n, as, fs) == [idx |-> i, name |-> n, attrs |-> as, files |-> fs, inputs |-> << >>]

\* An hwmon directory; an input comes with its label, if it has one.
In(k, s, f, lf, l) == [file |-> f, stem |-> s, kind |-> k, label_file |-> lf, label |-> l]
Temp1 == In("temp", "temp1", "temp1_input", "temp1_label", "Composite")
Fan1 == In("fan", "fan1", "fan1_input", "fan1_label", "")
Energy1 == In("energy", "energy1", "energy1_input", "energy1_label", "")
In0 == In("in", "in0", "in0_input", "in0_label", "+12V")
In1 == In("in", "in1", "in1_input", "in1_label", "-12V")
H(i, n, as, fs, ins) == [E(i, n, as, fs) EXCEPT !.inputs = ins]

MCSanitised(l) == CASE l \in {"+12V", "-12V"} -> "_12v"
                    [] l = "Composite" -> "composite"
                    [] l = "ACPITZ_2" -> "acpitz_2"
                    [] OTHER -> l
MCNumbered(n, i) == n \o "_" \o ToString(i)

MCTrees == [
    disk |-> {{E(1, "sda", {}, {"stat", "size"}), E(2, "sdb", {}, {"stat"}),
               E(3, "dm0", {"virtual"}, {"stat"}), E(4, "empty", {}, {})},
              {E(1, "sd a", {"badkey"}, {"stat"}), E(2, "sdb", {}, {"stat"})}},
    nvme |-> {{E(1, "nvme0", {"controller"}, {"stat", "size", "temp1_input"}),
               E(2, "nvme1", {"controller"}, {}), E(3, "sub", {}, {"stat"})}},
    net |-> {{E(1, "lo", {"lo"}, STAT_SENSORS),
              E(2, "eth0", {}, STAT_SENSORS \cup {"operstate", "speed"}),
              E(3, "wg0", {}, STAT_SENSORS)}},
    zram |-> {{E(1, "zram0", {"zram"}, {"mm_stat"}), E(2, "sda", {}, {"stat"})}},
    hwmon |-> {\* names that repeat, an input without a label, one of no known kind
               {H(1, "nvme", {}, {"temp1_input", "temp1_label"}, <<Temp1>>),
                H(2, "nvme", {}, {"temp1_input", "fan1_input", "energy1_input"},
                  <<Energy1, Fan1, Temp1>>),
                H(3, "coretemp", {"cpu"}, {"temp1_input"}, <<Temp1>>),
                H(4, "acpi", {}, {}, <<Fan1>>)},
               \* two labels with one id, listed out of order
               {H(1, "nct", {}, {"in0_input", "in0_label", "in1_input", "in1_label"},
                  <<In1, In0>>)},
               \* a name that meets another one once it is told apart
               {H(1, "nvme", {}, {"temp1_input"}, <<Temp1>>),
                H(2, "nvme", {}, {"temp1_input"}, <<Temp1>>),
                H(3, "nvme_2", {}, {"fan1_input"}, <<Fan1>>)}},
    i915 |-> {{E(1, "card0", {"card", "intel", "i915", "hwmon"},
                 {"gt_cur_freq_mhz", "gt_act_freq_mhz"}),
               E(2, "card1", {"card", "intel"}, {})}},
    amdgpu |-> {{E(1, "card0", {"card", "amd", "hwmon"},
                   {"gpu_busy_percent", "mem_info_vram_used", "mem_info_vram_total",
                    "temp1_input"}),
                 E(2, "card1", {"card", "amd"}, {"gpu_busy_percent"})}},
    xe |-> {{E(1, "card0", {"card", "xe"},
               {"act_freq", "package_input", "temp1_input", "resource"}),
             E(2, "card1", {"card", "xe"}, {"temp1_input"}),
             E(3, "card2", {"card", "i915"}, {"act_freq"})}},
    cpu |-> {{E(0, "machine", {"root"}, {"package_input", "cpu0_freq", "cpu1_freq"})},
             {E(0, "machine", {"root"}, {"cpu0_freq"})}},
    mem |-> {{E(0, "machine", {"root"}, {"meminfo"})}},
    sock |-> {{E(0, "machine", {"root"}, {"tcp", "tcp6", "sockstat"})}},
    system |-> {{E(0, "machine", {"root"},
                   {"loadavg", "uptime", "stat", "entropy_avail", "pressure_cpu"}),
                 E(1, "acpitz", {"zone"}, {"temp"}), E(2, "acpitz", {"zone"}, {"temp"}),
                 E(3, "ACPITZ_2", {"zone"}, {"temp"})}}]
=============================================================================
