--------------------------- MODULE PluginBoundary ---------------------------
(***************************************************************************)
(* The FFI seam between the daemon and a plugin: what a manifest, a        *)
(* context, a reading or an error becomes on its way through the stabby    *)
(* mirror types of crates/linsight-plugin-sdk.  Pure operators; PluginHost *)
(* calls them where host_init and host_sample do.                          *)
(*                                                                         *)
(* Unit-only enums cross as the position of the variant in the mirror      *)
(* enum, payload-bearing ones as a discriminant with one field per         *)
(* payload, vectors as a stabby vector that can only be popped.            *)
(***************************************************************************)
EXTENDS Naturals, Sequences, SequencesExt

None == "none"

RSensorKind == <<"Scalar", "Counter", "Table", "State">>
RCategory == <<"Cpu", "Gpu", "Memory", "Storage", "Network", "Custom">>
RHardwareCategoryKind == <<"Gpu", "Storage", "Network", "Cpu", "Other">>
RUnitKind == <<"Percent", "Celsius", "Bytes", "BytesPerSec", "Hertz", "Watts",
               "Volts", "Rpm", "Count", "Custom">>

(***************************************************************************)
(* What crosses.  A label, a text or a state is always there on the side   *)
(* it comes from; the mirror has an optional field for it.                 *)
(***************************************************************************)
Text == STRING \ {None}
Unit == [kind : {"Custom"}, label : Text]
        \cup [kind : ToSet(RUnitKind) \ {"Custom"}, label : {None}]
SensorDescriptor ==
    [id : STRING, id_ok : BOOLEAN, unit : Unit, kind : ToSet(RSensorKind),
     category : ToSet(RCategory), tags : Seq(STRING), device_key : STRING]
HardwareDevice == [key : STRING, category : ToSet(RHardwareCategoryKind), model : STRING,
                   plugin_device_id : STRING]
PluginManifest == [id : STRING, sensors : Seq(SensorDescriptor), devices : Seq(HardwareDevice)]
TableCell == [kind : {"Text"}, value : Text] \cup [kind : {"Number", "Bytes"}, value : Nat]
Reading == [kind : {"Scalar", "Counter"}, value : Nat] \cup [kind : {"State"}, value : Text]
           \cup [kind : {"Table"}, value : Seq(Seq(TableCell))]

Encode(enum, variant) == CHOOSE i \in DOMAIN enum : enum[i] = variant
Decode(enum, i) == enum[i]

\* A converted vector, element by element, in order.
Each(s, Convert(_)) == [i \in DOMAIN s |-> Convert(s[i])]

\* while let Some(item) = v.pop() { out.push(item) }; out.reverse()
svec_into_std(v) ==
    LET popped == [i \in DOMAIN v |-> v[Len(v) + 1 - i]] IN Reverse(popped)

IntoRUnit(u) == [kind |-> Encode(RUnitKind, u.kind),
                 custom |-> IF u.kind = "Custom" THEN u.label ELSE None]
FromRUnit(r) ==
    [kind |-> Decode(RUnitKind, r.kind),
     label |-> IF Decode(RUnitKind, r.kind) # "Custom" THEN None
               ELSE IF r.custom = None THEN "" ELSE r.custom]

IntoRCell(c) == [kind |-> c.kind,
                 text |-> IF c.kind = "Text" THEN c.value ELSE None,
                 number |-> IF c.kind = "Number" THEN c.value ELSE 0,
                 bytes |-> IF c.kind = "Bytes" THEN c.value ELSE 0]
FromRCell(r) ==
    [kind |-> r.kind,
     value |-> CASE r.kind = "Text" -> IF r.text = None THEN "" ELSE r.text
                 [] r.kind = "Number" -> r.number
                 [] r.kind = "Bytes" -> r.bytes]

IntoRTableRow(row) == Each(row, IntoRCell)

FromRTableRow(r) == Each(svec_into_std(r), FromRCell)

IntoRReading(r) ==
    [kind |-> r.kind,
     scalar |-> IF r.kind = "Scalar" THEN r.value ELSE 0,
     counter |-> IF r.kind = "Counter" THEN r.value ELSE 0,
     state |-> IF r.kind = "State" THEN r.value ELSE None,
     table |-> IF r.kind = "Table" THEN Each(r.value, IntoRTableRow) ELSE << >>]
FromRReading(r) ==
    [kind |-> r.kind,
     value |-> CASE r.kind = "Scalar" -> r.scalar
                 [] r.kind = "Counter" -> r.counter
                 [] r.kind = "State" -> IF r.state = None THEN "" ELSE r.state
                 [] r.kind = "Table" -> Each(svec_into_std(r.table), FromRTableRow)]

(***************************************************************************)
(* Errors.  Timeout, Manifest and Panic exist on the host's side only: a   *)
(* plugin that returns one is folded into a kind the mirror has.           *)
(***************************************************************************)
IntoRPluginError(e) ==
    CASE e = "Timeout" -> "Transient"
      [] e \in {"Manifest", "Panic"} -> "Io"
      [] OTHER -> e
FromRPluginError(k) == k

\* The config travels as JSON text; Null as the empty string.
IntoRPluginCtx(config) == [sysroot_set |-> 0,
                           config_json |-> IF config = "null" THEN "" ELSE config]
FromRPluginCtx(r) == IF r.config_json = "" THEN "null" ELSE r.config_json

IntoRSensorDescriptor(d) ==
    [d EXCEPT !.unit = IntoRUnit(@), !.kind = Encode(RSensorKind, @),
              !.category = Encode(RCategory, @)]
FromRSensorDescriptor(r) ==
    [r EXCEPT !.unit = FromRUnit(@), !.kind = Decode(RSensorKind, @),
              !.category = Decode(RCategory, @),
              !.tags = svec_into_std(@)]

\* plugin_id and sensor_ids do not cross: the host fills them in later.
IntoRHardwareDevice(d) ==
    [key |-> d.key, category_kind |-> Encode(RHardwareCategoryKind, d.category),
     model |-> d.model, plugin_device_id |-> d.plugin_device_id]
FromRHardwareDevice(r) ==
    [key |-> r.key, category |-> Decode(RHardwareCategoryKind, r.category_kind),
     model |-> r.model, plugin_id |-> "",
     plugin_device_id |-> r.plugin_device_id, sensor_ids |-> << >>]

IntoRPluginManifest(m) == [m EXCEPT !.sensors = Each(@, IntoRSensorDescriptor),
                                    !.devices = Each(@, IntoRHardwareDevice)]
FromRPluginManifest(r) ==
    [r EXCEPT !.sensors = Each(svec_into_std(@), FromRSensorDescriptor),
              !.devices = Each(svec_into_std(@), FromRHardwareDevice)]

\* The metadata symbol's three strings; the model tells plugins apart by id.
FromRPluginMetadata(r) == [plugin_id |-> r.plugin_id]
=============================================================================
