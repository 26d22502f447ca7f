-------------------------------- MODULE Nicknames --------------------------------
(***************************************************************************)
(* Device nicknames: the HardwareRegistry's overlay (apps/linsightd/src/    *)
(* hardware.rs), its file hardware.json (nickname_store.rs, written through *)
(* linsight-core's atomic_write_json) and the SetNickname request           *)
(* (transport/unix.rs), which several client threads may serve at once.     *)
(* The handler takes the registry lock anew for each of its steps, so other *)
(* requests, and a crash of the daemon, come between any two of them.       *)
(***************************************************************************)
EXTENDS Integers, FiniteSets

CONSTANTS Clients,       \* threads serving a client
          Devices,       \* keys of the devices the plugins declared
          Names,         \* what validate_nickname may normalise an input to
          None,          \* no nickname
          Blank,         \* an input of nothing but white space
          MaxRequests,   \* bound: SetNickname requests
          MaxCrashes     \* bound: times the daemon dies

ASSUME NicknamesAssumption ==
    /\ None \notin Names
    /\ Blank \notin Names \cup {None}
    /\ MaxRequests \in Nat
    /\ MaxCrashes \in Nat

VARIABLES up,          \* the daemon is running
          nicknames,   \* the registry's overlay
          disk,        \* hardware.json: whether it parses, and what it says
          req,         \* each thread's request, with its local variables
          reply,       \* the last response each thread wrote
          shown,       \* the last catalogue broadcast to the clients
          failed,      \* history: the load or a save has failed since the daemon started
          held,        \* history: every overlay the registry or the file has had
          requests, crashes

vars == <<up, nicknames, disk, req, reply, shown, failed, held, requests, crashes>>
bounds == <<requests, crashes>>

Overlay == [Devices -> Names \cup {None}]
NoNicknames == [d \in Devices |-> None]

Steps == {"idle", "applied", "snapped", "written", "saved", "confirmed", "built"}
Request == [step : Steps, snap : Overlay, alone : BOOLEAN]
NoRequest == [step |-> "idle", snap |-> NoNicknames, alone |-> TRUE]

Active == {c \in Clients : req[c].step # "idle"}
At(c, step) == up /\ req[c].step = step
Goto(c, step) == req' = [req EXCEPT ![c].step = step]
Answer(c, r) == reply' = [reply EXCEPT ![c] = r]
Finish(c) == req' = [req EXCEPT ![c] = NoRequest]

(* NicknameStore::load: no file, or one that does not parse, gives no names; *)
(* the latter is renamed out of the way.                                     *)
load(d) == IF d.ok THEN d.names ELSE NoNicknames

-----------------------------------------------------------------------------
(* The file may have been edited by hand before the daemon first starts. *)
Init ==
    /\ up = FALSE
    /\ nicknames = NoNicknames
    /\ disk \in [ok : BOOLEAN, names : Overlay]
    /\ req = [c \in Clients |-> NoRequest]
    /\ reply = [c \in Clients |-> "none"]
    /\ shown = NoNicknames
    /\ failed = FALSE
    /\ held = {NoNicknames, disk.names}
    /\ requests = 0
    /\ crashes = 0

(* runtime::run.  A file that cannot be read is taken for no names; one that *)
(* does not parse is renamed away, if that works.  Clients that connect are  *)
(* told the catalogue of the moment.                                         *)
Start ==
    /\ ~up
    /\ up' = TRUE
    /\ disk' \in IF disk.ok THEN {disk} ELSE {disk, [ok |-> TRUE, names |-> NoNicknames]}
    /\ nicknames' \in {load(disk), NoNicknames}
    /\ shown' = nicknames'
    /\ failed' = (nicknames' # load(disk))
    /\ UNCHANGED <<req, reply, held, bounds>>

(* The temporary files of the requests under way stay behind, unread. *)
Crash ==
    /\ up
    /\ crashes < MaxCrashes
    /\ crashes' = crashes + 1
    /\ up' = FALSE
    /\ req' = [c \in Clients |-> NoRequest]
    /\ reply' = [c \in Clients |-> "none"]
    /\ UNCHANGED <<nicknames, disk, shown, failed, held, requests>>

(* A key or nickname that does not validate, or a key of no device. *)
Reject(c) ==
    /\ At(c, "idle")
    /\ requests < MaxRequests
    /\ requests' = requests + 1
    /\ Answer(c, "error")
    /\ UNCHANGED <<up, nicknames, disk, req, shown, failed, held, crashes>>

(* Mutant of validate_nickname: the input is stored as it was typed. *)
TakeAsTyped(input) == input

(* Trimmed; an input of white space means no nickname. *)
validate_nickname(input) == IF input = Blank THEN None ELSE input

(* HardwareRegistry::set_nickname under the write lock; None clears. *)
Apply(c, d, input) ==
    LET new == [nicknames EXCEPT ![d] = validate_nickname(input)] IN
    /\ At(c, "idle")
    /\ requests < MaxRequests
    /\ requests' = requests + 1
    /\ nicknames' = new
    /\ held' = held \cup {new}
    /\ req' = [b \in Clients |->
                 IF b = c THEN [NoRequest EXCEPT !.step = "applied", !.alone = (Active = {})]
                 ELSE [req[b] EXCEPT !.alone = (b \notin Active)]]
    /\ Answer(c, "none")
    /\ UNCHANGED <<up, disk, shown, failed, crashes>>

(* Mutant of Snapshot: the catalogue last broadcast is saved. *)
SnapshotShown(c) ==
    /\ At(c, "applied")
    /\ req' = [req EXCEPT ![c].step = "snapped", ![c].snap = shown]
    /\ UNCHANGED <<up, nicknames, disk, reply, shown, failed, held, bounds>>

(* nicknames_snapshot, under the read lock. *)
Snapshot(c) ==
    /\ At(c, "applied")
    /\ req' = [req EXCEPT ![c].step = "snapped", ![c].snap = nicknames]
    /\ UNCHANGED <<up, nicknames, disk, reply, shown, failed, held, bounds>>

(* Mutant of WriteTmp: hardware.json itself is opened and written. *)
WriteInPlace(c) ==
    /\ At(c, "snapped")
    /\ disk' = [disk EXCEPT !.ok = FALSE]
    /\ Goto(c, "written")
    /\ UNCHANGED <<up, nicknames, reply, shown, failed, held, bounds>>

(* atomic_write_json: a temporary sibling of its own, synced to disk ... *)
WriteTmp(c) ==
    /\ At(c, "snapped")
    /\ Goto(c, "written")
    /\ UNCHANGED <<up, nicknames, disk, reply, shown, failed, held, bounds>>

(* ... and renamed onto hardware.json. *)
Rename(c) ==
    /\ At(c, "written")
    /\ disk' = [ok |-> TRUE, names |-> req[c].snap]
    /\ Goto(c, "saved")
    /\ UNCHANGED <<up, nicknames, reply, shown, failed, held, bounds>>

(* An I/O error in either half is reported, and ends the request: the       *)
(* registry keeps the new nickname, nobody is told of it.                   *)
SaveFails(c) ==
    /\ At(c, "snapped") \/ At(c, "written")
    /\ Finish(c)
    /\ Answer(c, "error")
    /\ failed' = TRUE
    /\ UNCHANGED <<up, nicknames, disk, shown, held, bounds>>

Confirm(c) ==
    /\ At(c, "saved")
    /\ Goto(c, "confirmed")
    /\ Answer(c, "ok")
    /\ UNCHANGED <<up, nicknames, disk, shown, failed, held, bounds>>

(* The response cannot be written: the session ends without a broadcast. *)
ConfirmFails(c) ==
    /\ At(c, "saved")
    /\ Finish(c)
    /\ UNCHANGED <<up, nicknames, disk, reply, shown, failed, held, bounds>>

(* build_sensor_info_list, under the scheduler and the registry's read lock. *)
Build(c) ==
    /\ At(c, "confirmed")
    /\ req' = [req EXCEPT ![c].step = "built", ![c].snap = nicknames]
    /\ UNCHANGED <<up, nicknames, disk, reply, shown, failed, held, bounds>>

(* broadcast_sensor_list, under the client map's mutex. *)
Broadcast(c) ==
    /\ At(c, "built")
    /\ shown' = req[c].snap
    /\ Finish(c)
    /\ UNCHANGED <<up, nicknames, disk, reply, failed, held, bounds>>

Handler(c) ==
    \/ Reject(c)
    \/ \E d \in Devices, input \in Names \cup {None, Blank} : Apply(c, d, input)
    \/ Snapshot(c) \/ WriteTmp(c) \/ Rename(c) \/ SaveFails(c)
    \/ Confirm(c) \/ ConfirmFails(c) \/ Build(c) \/ Broadcast(c)

Next == Start \/ Crash \/ \E c \in Clients : Handler(c)

Spec == Init /\ [][Next]_vars

-----------------------------------------------------------------------------
TypeOK ==
    /\ up \in BOOLEAN /\ failed \in BOOLEAN
    /\ nicknames \in Overlay
    /\ shown \in Overlay
    /\ disk \in [ok : BOOLEAN, names : Overlay]
    /\ req \in [Clients -> Request]
    /\ reply \in [Clients -> {"none", "ok", "error"}]
    /\ held \subseteq Overlay
    /\ requests \in 0..MaxRequests
    /\ crashes \in 0..MaxCrashes

(* hardware.json never stops parsing, and always is a whole overlay the      *)
(* registry or the first file really had, wherever a crash or an I/O error   *)
(* strikes: never half a save, never a mixture of two concurrent ones.       *)
FileIsWhole == [][(disk.ok => disk'.ok) /\ disk'.names \in held']_vars

(* What makes FileIsWhole inductive: what is on its way to the file was held. *)
SnapshotsHeld ==
    /\ disk.names \in held /\ NoNicknames \in held /\ nicknames \in held
    /\ \A c \in Clients : req[c].step \in {"snapped", "written"} => req[c].snap \in held

(* What makes SoloRequestTakesHold inductive: a request that has been alone   *)
(* so far still is, and everything it has passed on is what the registry says.*)
AloneInStep ==
    /\ ~up => Active = {}
    /\ \A c \in Clients :
         req[c].alone /\ req[c].step # "idle" =>
            /\ \A b \in Clients \ {c} : req[b].step = "idle"
            /\ req[c].step \in {"snapped", "written", "built"} => req[c].snap = nicknames
            /\ req[c].step \in {"saved", "confirmed", "built"} => disk.names = nicknames

(* A SetNickname that no other overlaps leaves the registry, the file and    *)
(* the clients in agreement when it completes, whatever saves failed and     *)
(* whatever requests raced before it.                                        *)
SoloRequestTakesHold ==
    [][\A c \in Clients :
          req[c].step = "built" /\ req'[c].step = "idle" /\ up' /\ req[c].alone
          => shown' = nicknames' /\ disk'.names = nicknames']_vars

(* "On save failure the in-memory state is still updated but the next daemon *)
(* restart will lose the change": so once requests are through and no save   *)
(* has failed, a restart would load what the registry says.                  *)
SavedWhenQuiet == up /\ Active = {} /\ ~failed => load(disk) = nicknames
=============================================================================
