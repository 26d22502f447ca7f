------------------------------ MODULE GuiFiles ------------------------------
(***************************************************************************)
(* The files GUI processes keep in the shared configuration directory:     *)
(* dashboards, one file each under a slug derived from the name            *)
(* (dashboards_model.rs), the host list (hosts_model.rs) and the           *)
(* preferences (preferences_model.rs).  Every operation runs on the GUI    *)
(* thread of its process; another process may run, or the process may be   *)
(* killed, between any two of its file operations.  A dashboard is an id   *)
(* that lives from its creation to its removal, whatever it is called.     *)
(***************************************************************************)
EXTENDS Naturals, Sequences, FiniteSets

CONSTANTS
    Guis,           \* GUI processes
    NamesOf,        \* the names a user may choose, by the slug they derive to
    Tries,          \* slugs tried for one name (99)
    HostNames,      \* names of hosts
    Themes,         \* values of a preference
    MaxFileOps,     \* bound: operations started
    MaxKills,       \* bound: processes killed
    MaxIoErrors     \* bound: writes that fail

ASSUME GuiFilesAssumption ==
    /\ {"default", "copy"} \subseteq DOMAIN NamesOf
    /\ Tries \in Nat \ {0}
    /\ {MaxFileOps, MaxKills, MaxIoErrors} \subseteq Nat

VARIABLES
    files,      \* dashboards/: what is under each slug
    legacy,     \* dashboard.json: "there" or "gone"
    gui,        \* the operation each process is in
    hosts,      \* hosts.json: absent, or whole with its names
    prefs,      \* preferences.json: the theme, or "bad" or "absent"
    memory,     \* the preferences each process holds
    made,       \* dashboards that exist as far as users know
    raced,      \* two processes worked on one dashboard file at one time
    ops, kills, ioErrors

fileVars == <<files, legacy, gui, hosts, prefs, memory, made, raced, ops, kills, ioErrors>>
documents == <<hosts, prefs, memory>>
limits == <<ops, kills, ioErrors>>
----------------------------------------------------------------------------
Bases == DOMAIN NamesOf
Names == UNION {NamesOf[b] : b \in Bases}

\* A slug is a base and a number; base-2 and on are tried after base.  Names
\* that differ in case, punctuation or script may derive to one base.
Slugs == Bases \X (1..Tries)
derive_slug(name) == <<CHOOSE b \in Bases : name \in NamesOf[b], 1>>

Absent == [is |-> "absent"]
Partial(p) == [is |-> "partial", by |-> p]  \* created by p, not fully written: read_one skips it
Complete(id, name) == [is |-> "whole", id |-> id, name |-> name]
read_one(s) == files[s].is = "whole"
list_files == {s \in Slugs : read_one(s)}

Nowhere == <<>>
Ready == [at |-> "idle", src |-> Nowhere, slug |-> Nowhere, doc |-> Absent]
Op(at, src, slug, doc) == [at |-> at, src |-> src, slug |-> slug, doc |-> doc]
Does(p, op) == gui' = [gui EXCEPT ![p] = op]
Begins(p) == gui[p].at = "idle" /\ ops < MaxFileOps /\ ops' = ops + 1

\* Changing file s while another process means to write or remove it.
MeantBy(q, s) == gui[q].src = s
HeldBy(q, s) == gui[q].at = "write" /\ gui[q].slug = s
Creates(p, s) == raced' = (raced \/ \E q \in Guis \ {p} : MeantBy(q, s))
Touches(p, s) == raced' = (raced \/ \E q \in Guis \ {p} : MeantBy(q, s) \/ HeldBy(q, s))
----------------------------------------------------------------------------
(* Dashboards.                                                              *)

\* create: a new, empty document.
create(p, name) ==
    /\ Begins(p)
    /\ Does(p, Op("reserve", Nowhere, derive_slug(name), Complete(ops + 1, name)))
    /\ UNCHANGED <<files, legacy, documents, made, raced, kills, ioErrors>>

\* import_dashboard: a document from a file of the user's; one that does not
\* parse, has no name or no valid layout is refused before anything is touched.
import_dashboard(p, name) == create(p, name)

duplicate(p, s) ==
    /\ read_one(s) /\ Begins(p)
    /\ Does(p, Op("reserve", Nowhere, <<"copy", 1>>, Complete(ops + 1, "copy")))
    /\ UNCHANGED <<files, legacy, documents, made, raced, kills, ioErrors>>

\* A new name of the same slug is written in place; another slug is reserved
\* and written before the old file is removed.
rename(p, s, name) ==
    /\ read_one(s) /\ Begins(p)
    /\ LET doc == Complete(files[s].id, name) IN
       Does(p, IF derive_slug(name) = s THEN Op("overwrite", s, s, doc)
               ELSE Op("reserve", s, derive_slug(name), doc))
    /\ UNCHANGED <<files, legacy, documents, made, raced, kills, ioErrors>>

save_layout(p, s) ==
    /\ read_one(s) /\ Begins(p)
    /\ Does(p, Op("overwrite", s, s, files[s]))
    /\ UNCHANGED <<files, legacy, documents, made, raced, kills, ioErrors>>

\* For mutation: candidates are looked up, not created exclusively.
SlugCandidates_Looked(base) == {i \in 1..Tries : files[<<base[1], i>>].is # "whole"}

\* O_CREAT|O_EXCL succeeds where nothing is.
SlugCandidates(base) == {i \in 1..Tries : files[<<base[1], i>>] = Absent}

allocate_unique_slug(p) ==
    LET free == SlugCandidates(gui[p].slug)
        s == <<gui[p].slug[1], CHOOSE i \in free : \A j \in free : i <= j>>
    IN  /\ gui[p].at = "reserve"
        /\ IF free = {} THEN Does(p, Ready) /\ UNCHANGED <<files, raced>>
           ELSE /\ files' = [files EXCEPT ![s] = Partial(p)]
                /\ Does(p, [gui[p] EXCEPT !.at = "write", !.slug = s])
                /\ Creates(p, s)
        /\ UNCHANGED <<legacy, documents, made, limits>>

IoFails == ioErrors < MaxIoErrors /\ ioErrors' = ioErrors + 1

\* The reserved file is written through the handle it was created with and
\* synced, or taken away again.
write_reserved_dashboard_file(p) ==
    /\ gui[p].at = "write"
    /\ \/ /\ files' = [files EXCEPT ![gui[p].slug] = IF @ = Partial(p) THEN gui[p].doc ELSE @]
          /\ made' = made \cup {gui[p].doc.id}
          /\ Does(p, IF gui[p].src = Nowhere THEN Ready ELSE [gui[p] EXCEPT !.at = "remove"])
          /\ UNCHANGED ioErrors
       \/ /\ IoFails
          /\ files' = [files EXCEPT ![gui[p].slug] = Absent]
          /\ Does(p, Ready)
          /\ UNCHANGED made
    /\ Creates(p, gui[p].slug)
    /\ UNCHANGED <<legacy, documents, ops, kills>>

remove_old_path(p) ==
    /\ gui[p].at = "remove"
    /\ files' = [files EXCEPT ![gui[p].src] = Absent]
    /\ Does(p, Ready)
    /\ Touches(p, gui[p].src)
    /\ UNCHANGED <<legacy, documents, made, limits>>

\* write_one: a temporary file renamed over the slug.
write_one(p) ==
    /\ gui[p].at = "overwrite"
    /\ \/ /\ files' = [files EXCEPT ![gui[p].slug] = gui[p].doc]
          /\ Touches(p, gui[p].slug)
          /\ UNCHANGED ioErrors
       \/ IoFails /\ UNCHANGED <<files, raced>>
    /\ Does(p, Ready)
    /\ UNCHANGED <<legacy, documents, made, ops, kills>>

remove(p, s) ==
    /\ read_one(s) /\ Begins(p)
    /\ files' = [files EXCEPT ![s] = Absent]
    /\ made' = made \ {files[s].id}
    /\ Touches(p, s)
    /\ UNCHANGED <<legacy, gui, documents, kills, ioErrors>>

\* Start-up: migrate a legacy layout unless there are dashboards, then load
\* the preferences.
Legacy == Complete(0, "default")
migrate_legacy_dashboard(p) ==
    /\ gui[p].at = "start"
    /\ Does(p, IF legacy = "there" /\ list_files = {}
               THEN Op("migrate", <<"default", 1>>, <<"default", 1>>, Legacy)
               ELSE [Ready EXCEPT !.at = "load"])
    /\ UNCHANGED <<files, legacy, documents, made, raced, limits>>

write_migrated(p) ==
    /\ gui[p].at = "migrate"
    /\ files' = [files EXCEPT ![gui[p].slug] = Legacy]
    /\ made' = made \cup {0}
    /\ Touches(p, gui[p].slug)
    /\ Does(p, [Ready EXCEPT !.at = "put away"])
    /\ UNCHANGED <<legacy, documents, limits>>

put_legacy_away(p) ==
    /\ gui[p].at = "put away"
    /\ legacy' = "gone"
    /\ Does(p, [Ready EXCEPT !.at = "load"])
    /\ UNCHANGED <<files, documents, made, raced, limits>>
----------------------------------------------------------------------------
(* Hosts and preferences.                                                   *)

\* load_hosts and load_prefs: a malformed file is put aside, defaults are used.
Loaded(doc) == IF doc \in {"bad", "absent"} THEN "system" ELSE doc
AfterLoad(doc) == IF doc = "bad" THEN "absent" ELSE doc
Hosts(list) == [is |-> "whole", list |-> list]
load_hosts == IF hosts = Absent THEN {} ELSE hosts.list

load_prefs(p) ==
    /\ gui[p].at = "load"
    /\ memory' = [memory EXCEPT ![p] = Loaded(prefs)]
    /\ prefs' = AfterLoad(prefs)
    /\ Does(p, Ready)
    /\ UNCHANGED <<files, legacy, hosts, made, raced, limits>>

\* PreferencesModel::reload, from the settings page.
reload_preferences(p) ==
    /\ Begins(p)
    /\ memory' = [memory EXCEPT ![p] = Loaded(prefs)]
    /\ prefs' = AfterLoad(prefs)
    /\ UNCHANGED <<files, legacy, gui, hosts, made, raced, kills, ioErrors>>

\* The apply_ invokables: the change is made in memory, all of it is saved, and
\* an error of the save is ignored.
apply_preference(p, theme) ==
    /\ Begins(p)
    /\ memory' = [memory EXCEPT ![p] = theme]
    /\ \/ prefs' = theme /\ UNCHANGED ioErrors
       \/ IoFails /\ UNCHANGED prefs
    /\ UNCHANGED <<files, legacy, gui, hosts, made, raced, kills>>

\* HostsModel add, remove and rename load the list, check it and save it whole.
HostEdits(list) ==
    {list \cup {n} : n \in HostNames \ list} \cup {list \ {n} : n \in list}
    \cup {(list \ {n[1]}) \cup {n[2]} : n \in list \X (HostNames \ list)}

edit_hosts(p) ==
    /\ Begins(p)
    /\ \E list \in HostEdits(load_hosts) : Does(p, Op("hosts", Nowhere, Nowhere, Hosts(list)))
    /\ UNCHANGED <<files, legacy, documents, made, raced, kills, ioErrors>>

save_hosts(p) ==
    /\ gui[p].at = "hosts"
    /\ \/ hosts' = gui[p].doc /\ UNCHANGED ioErrors
       \/ IoFails /\ UNCHANGED hosts
    /\ Does(p, Ready)
    /\ UNCHANGED <<files, legacy, prefs, memory, made, raced, ops, kills>>
----------------------------------------------------------------------------
Kill(p) ==
    /\ kills < MaxKills /\ kills' = kills + 1
    /\ Does(p, [Ready EXCEPT !.at = "start"])
    /\ UNCHANGED <<files, legacy, documents, made, raced, ops, ioErrors>>

GuiFilesInit ==
    /\ files = [s \in Slugs |-> Absent]
    /\ legacy \in {"there", "gone"}
    /\ gui = [p \in Guis |-> [Ready EXCEPT !.at = "start"]]
    /\ hosts = Absent
    /\ prefs \in {"bad", "absent"}
    /\ memory = [p \in Guis |-> "system"]
    /\ made = {} /\ raced = FALSE
    /\ ops = 0 /\ kills = 0 /\ ioErrors = 0

GuiFilesNext ==
    \E p \in Guis :
        \/ migrate_legacy_dashboard(p) \/ write_migrated(p) \/ put_legacy_away(p) \/ load_prefs(p)
        \/ \E n \in Names : create(p, n) \/ import_dashboard(p, n)
        \/ \E s \in Slugs : \/ duplicate(p, s) \/ save_layout(p, s) \/ remove(p, s)
                            \/ \E n \in Names : rename(p, s, n)
        \/ allocate_unique_slug(p) \/ write_reserved_dashboard_file(p)
        \/ remove_old_path(p) \/ write_one(p)
        \/ reload_preferences(p) \/ \E t \in Themes : apply_preference(p, t)
        \/ edit_hosts(p) \/ save_hosts(p)
        \/ Kill(p)

GuiFilesSpec == GuiFilesInit /\ [][GuiFilesNext]_fileVars
----------------------------------------------------------------------------
\* A dashboard goes only when a user removes it: creating, importing, renaming
\* and duplicating from two processes, under names that want the same slug,
\* with a write that fails or a process killed between any two file operations,
\* leave every dashboard in some whole file.  (What two processes do to the
\* same file at the same moment is not covered: the code has no lock there.)
NoDashboardLost == ~raced => \A i \in made : \E s \in list_files : files[s].id = i
=============================================================================
