----------------------------- MODULE EdgesProofs -----------------------------
(***************************************************************************)
(* Proofs about the clients of LinSight, for any number of names,          *)
(* requests, samples and events: what the GUI's pump, models and files     *)
(* keep (GuiPump, GuiModels, GuiFiles) and a command of the CLI on the     *)
(* wire (Wire).                                                            *)
(***************************************************************************)
EXTENDS GuiPump, GuiModels, GuiFiles, Wire, NaturalsInduction, SequenceTheorems, WellFoundedInduction, TLAPS

-----------------------------------------------------------------------------
(* GuiFiles: the inductive invariant.                                       *)

WholeFile == [is : {"whole"}, id : Nat, name : Names \cup {"default", "copy"}]
FileState == {Absent} \cup {Partial(p) : p \in Guis} \cup WholeFile
HostsFile == [is : {"whole"}, list : SUBSET HostNames]
OpState ==
    [at : {"idle", "start", "migrate", "put away", "load", "reserve", "write", "remove",
           "overwrite", "hosts"},
     src : Slugs \cup {Nowhere}, slug : Slugs \cup {Nowhere},
     doc : {Absent} \cup WholeFile \cup HostsFile]

FilesTypes ==
    /\ files \in [Slugs -> FileState]
    /\ gui \in [Guis -> OpState]
    /\ hosts \in {Absent} \cup HostsFile
    /\ raced \in BOOLEAN
    /\ ops \in Nat

(* The operations that write a document, and what they have at hand. *)
Writing == {"reserve", "write", "remove", "overwrite"}
OpShape(p) ==
    /\ gui[p].at \in Writing => gui[p].doc \in WholeFile /\ gui[p].slug \in Slugs
    /\ gui[p].at = "remove" => gui[p].src \in Slugs
    /\ gui[p].at = "hosts" => gui[p].doc \in HostsFile
    /\ gui[p].at \in {"overwrite", "migrate"} => gui[p].src = gui[p].slug /\ gui[p].slug \in Slugs

(* A file reserved is there until it is written; the file an operation      *)
(* replaces holds the same dashboard until it is replaced; and nothing is   *)
(* where the legacy layout is about to go.                                  *)
FilesAwait(p) ==
    /\ gui[p].at = "write" => files[gui[p].slug] = Partial(p)
    /\ gui[p].at \in Writing /\ gui[p].src # Nowhere =>
           read_one(gui[p].src) /\ files[gui[p].src].id = gui[p].doc.id
    /\ gui[p].at = "migrate" => ~read_one(gui[p].src)

(* A file that no process is about to remove. *)
Safe(s) == \A q \in Guis : gui[q].at = "remove" => gui[q].src # s

(* Before a file goes because its dashboard has a new one, the new one is   *)
(* there, and nobody is about to remove that.                               *)
RemovalCovered(p) ==
    gui[p].at = "remove" /\ gui[p].doc.id \in made =>
        \E s \in Slugs : read_one(s) /\ files[s].id = gui[p].doc.id /\ Safe(s)

FilesInv ==
    /\ FilesTypes
    /\ \A p \in Guis : OpShape(p)
    /\ ~raced => /\ \A p \in Guis : FilesAwait(p) /\ RemovalCovered(p)
                 /\ NoDashboardLost

-----------------------------------------------------------------------------
(* Facts about names and slugs.                                             *)

LEMMA SlugFacts ==
  /\ \A n \in Names : derive_slug(n) \in Slugs
  /\ <<"copy", 1>> \in Slugs /\ <<"default", 1>> \in Slugs
  /\ Nowhere \notin Slugs
<1>1. 1 \in 1 .. Tries
  BY GuiFilesAssumption
<1>2. \A n \in Names : (CHOOSE b \in Bases : n \in NamesOf[b]) \in Bases
  BY DEF Names
<1>3. "copy" \in Bases /\ "default" \in Bases
  BY GuiFilesAssumption DEF Bases
<1>4. \A n \in Names : derive_slug(n) \in Slugs
  <2> SUFFICES ASSUME NEW n \in Names PROVE derive_slug(n) \in Slugs
    OBVIOUS
  <2> DEFINE b == CHOOSE b \in Bases : n \in NamesOf[b]
  <2>1. b \in Bases /\ derive_slug(n) = <<b, 1>>
    BY <1>2 DEF derive_slug
  <2> HIDE DEF b
  <2> QED
    BY <1>1, <2>1 DEF Slugs
<1>5. <<"copy", 1>> \in Slugs /\ <<"default", 1>> \in Slugs
  BY <1>1, <1>3, Zenon DEF Slugs
<1>6. Nowhere \notin Slugs
  BY DEF Nowhere, Slugs
<1> QED
  BY <1>4, <1>5, <1>6

LEMMA FileStates ==
  /\ Absent \in FileState /\ Absent.is = "absent"
  /\ \A p \in Guis : Partial(p) \in FileState /\ Partial(p).is = "partial"
  /\ WholeFile \subseteq FileState
  /\ \A f \in WholeFile : f.is = "whole"
  /\ \A f \in FileState : f.is = "whole" => f \in WholeFile
  /\ \A id \in Nat, n \in Names \cup {"default", "copy"} :
         Complete(id, n) \in WholeFile /\ Complete(id, n).id = id
  /\ \A p, q \in Guis : Partial(p) = Partial(q) => p = q
<1>1. Absent \in FileState /\ Absent.is = "absent"
  BY DEF FileState, Absent
<1>2. \A p \in Guis : Partial(p) \in FileState /\ Partial(p).is = "partial"
  BY DEF FileState, Partial
<1>3. WholeFile \subseteq FileState /\ \A f \in WholeFile : f.is = "whole"
  BY DEF FileState, WholeFile
<1>4. ASSUME NEW f \in FileState, f.is = "whole" PROVE f \in WholeFile
  <2>1. f # Absent /\ \A p \in Guis : f # Partial(p)
    BY <1>1, <1>2, <1>4
  <2> QED
    BY <2>1 DEF FileState
<1>5. \A id \in Nat, n \in Names \cup {"default", "copy"} :
         Complete(id, n) \in WholeFile /\ Complete(id, n).id = id
  BY DEF Complete, WholeFile
<1>6. ASSUME NEW p \in Guis, NEW q \in Guis, Partial(p) = Partial(q) PROVE p = q
  <2>1. Partial(p).by = p /\ Partial(q).by = q
    BY DEF Partial
  <2> QED
    BY <1>6, <2>1
<1> QED
  BY <1>1, <1>2, <1>3, <1>4, <1>5, <1>6

LEMMA ReadyIs == Ready \in OpState /\ Ready.at = "idle" /\ Ready.src = Nowhere
BY DEF Ready, OpState

LEMMA StageIs ==
  ASSUME NEW at \in {"start", "load", "put away"}
  PROVE  [Ready EXCEPT !.at = at] \in OpState /\ [Ready EXCEPT !.at = at].at = at
BY ReadyIs DEF OpState

LEMMA OpIs ==
  ASSUME NEW at \in {"reserve", "overwrite", "migrate"}, NEW src \in Slugs \cup {Nowhere},
         NEW slug \in Slugs, NEW doc \in WholeFile
  PROVE  /\ Op(at, src, slug, doc) \in OpState
         /\ Op(at, src, slug, doc).at = at
         /\ Op(at, src, slug, doc).src = src
         /\ Op(at, src, slug, doc).slug = slug
         /\ Op(at, src, slug, doc).doc = doc
BY DEF Op, OpState

(* The slug allocate_unique_slug takes is free. *)
LEMMA FirstFree ==
  ASSUME NEW base \in Slugs, NEW free, free = SlugCandidates(base), free # {}
  PROVE  LET i == CHOOSE i \in free : \A j \in free : i <= j
         IN  <<base[1], i>> \in Slugs /\ files[<<base[1], i>>] = Absent
<1> DEFINE R == OpToRel(<, Nat)
<1>1. \A x, y \in Nat : <<y, x>> \in R <=> y < x
  BY DEF OpToRel
<1>2. IsWellFoundedOn(R, Nat)
  BY NatLessThanWellFounded
<1> HIDE DEF R
<1>3. free \subseteq Nat /\ free \subseteq 1 .. Tries
  BY GuiFilesAssumption DEF SlugCandidates
<1>4. PICK x \in free : \A y \in free : ~ (<<y, x>> \in R)
  BY <1>2, <1>3, WFMin
<1>5. \A y \in free : x <= y
  <2> SUFFICES ASSUME NEW y \in free PROVE x <= y
    OBVIOUS
  <2>1. x \in Nat /\ y \in Nat
    BY <1>3, <1>4
  <2>2. ~ (y < x)
    BY <1>1, <1>4, <2>1
  <2> QED
    BY <2>1, <2>2
<1> DEFINE i == CHOOSE i \in free : \A j \in free : i <= j
<1>6. i \in free
  BY <1>4, <1>5
<1> HIDE DEF i
<1>7. base[1] \in Bases
  BY DEF Slugs
<1>8. <<base[1], i>> \in Slugs /\ files[<<base[1], i>>] = Absent
  BY <1>3, <1>6, <1>7 DEF Slugs, SlugCandidates
<1> QED
  BY <1>8 DEF i

-----------------------------------------------------------------------------
(* GuiFiles: steps that change no dashboard file.                           *)

LEMMA QuietStep ==
  ASSUME FilesInv, NEW p \in Guis, NEW o \in OpState, gui' = [gui EXCEPT ![p] = o],
         files' = files, made' = made, raced' = raced, ops' \in Nat,
         hosts' \in {Absent} \cup HostsFile, o.at = "hosts" => o.doc \in HostsFile,
         o.at # "remove",
         o.at \in Writing => o.doc \in WholeFile /\ o.slug \in Slugs,
         o.at \in {"overwrite", "migrate"} => o.src = o.slug /\ o.slug \in Slugs,
         o.at # "write",
         o.at \in Writing /\ o.src # Nowhere =>
             read_one(o.src) /\ files[o.src].id = o.doc.id,
         o.at = "migrate" => ~read_one(o.src)
  PROVE  FilesInv'
<1>1. gui \in [Guis -> OpState] /\ gui'[p] = o /\ \A q \in Guis \ {p} : gui'[q] = gui[q]
  BY DEF FilesInv, FilesTypes
<1>2. FilesTypes'
  BY <1>1 DEF FilesInv, FilesTypes
<1>3. \A q \in Guis : OpShape(q)'
  BY <1>1 DEF FilesInv, OpShape
<1>4. ASSUME ~raced'
      PROVE  /\ \A q \in Guis : FilesAwait(q)' /\ RemovalCovered(q)'
             /\ NoDashboardLost'
  <2>1. ~raced
    BY <1>4
  <2>2. ASSUME NEW q \in Guis PROVE FilesAwait(q)'
    <3>1. CASE q = p
      BY <1>1, <3>1 DEF FilesAwait, read_one
    <3>2. CASE q # p
      <4>1. FilesAwait(q) /\ gui'[q] = gui[q]
        BY <1>1, <2>1, <3>2 DEF FilesInv
      <4> QED
        BY <4>1 DEF FilesAwait, read_one
    <3> QED
      BY <3>1, <3>2
  <2>3. ASSUME NEW q \in Guis PROVE RemovalCovered(q)'
    <3>1. SUFFICES ASSUME gui'[q].at = "remove", gui'[q].doc.id \in made'
                   PROVE  \E s \in Slugs : read_one(s)' /\ files'[s].id = gui'[q].doc.id /\ Safe(s)'
      BY DEF RemovalCovered
    <3>2. q # p /\ gui'[q] = gui[q]
      BY <1>1, <3>1
    <3>3. PICK s \in Slugs : read_one(s) /\ files[s].id = gui[q].doc.id /\ Safe(s)
      BY <2>1, <3>1, <3>2 DEF FilesInv, RemovalCovered
    <3>4. Safe(s)'
      BY <1>1, <3>3 DEF Safe
    <3> QED
      BY <3>2, <3>3, <3>4 DEF read_one
  <2>4. NoDashboardLost'
    BY <2>1 DEF FilesInv, NoDashboardLost, list_files, read_one
  <2> QED
    BY <2>2, <2>3, <2>4
<1> QED
  BY <1>2, <1>3, <1>4 DEF FilesInv
LEMMA QuietActions ==
  ASSUME FilesInv, NEW p \in Guis,
         \/ \E n \in Names : create(p, n) \/ import_dashboard(p, n)
         \/ \E s \in Slugs : duplicate(p, s) \/ save_layout(p, s) \/ \E n \in Names : rename(p, s, n)
         \/ migrate_legacy_dashboard(p) \/ put_legacy_away(p) \/ load_prefs(p)
         \/ reload_preferences(p) \/ \E t \in Themes : apply_preference(p, t)
         \/ edit_hosts(p) \/ save_hosts(p) \/ Kill(p)
  PROVE  FilesInv'
<1>0. /\ files \in [Slugs -> FileState] /\ gui \in [Guis -> OpState] /\ ops \in Nat
      /\ ops + 1 \in Nat /\ Ready \in OpState /\ Ready.at = "idle"
      /\ hosts \in {Absent} \cup HostsFile
  BY ReadyIs DEF FilesInv, FilesTypes
<1>a. ASSUME NEW o \in OpState, o.at \notin Writing \cup {"migrate"}, Does(p, o),
             files' = files, made' = made, raced' = raced, ops' \in Nat,
             hosts' \in {Absent} \cup HostsFile, o.at = "hosts" => o.doc \in HostsFile
      PROVE  FilesInv'
  BY <1>a, QuietStep DEF Does, Writing
<1>b. ASSUME NEW src \in Slugs \cup {Nowhere}, NEW slug \in Slugs, NEW doc \in WholeFile,
             NEW at \in {"reserve", "overwrite"}, Does(p, Op(at, src, slug, doc)),
             files' = files, made' = made, raced' = raced, ops' \in Nat, hosts' = hosts,
             src # Nowhere => read_one(src) /\ files[src].id = doc.id,
             at = "overwrite" => src = slug
      PROVE  FilesInv'
  <2> DEFINE o == Op(at, src, slug, doc)
  <2>1. o \in OpState /\ o.at = at /\ o.src = src /\ o.slug = slug /\ o.doc = doc
    BY OpIs
  <2> HIDE DEF o
  <2>2. gui' = [gui EXCEPT ![p] = o]
    BY <1>b DEF Does, o
  <2> QED
    BY <1>0, <1>b, <2>1, <2>2, QuietStep
<1>1. ASSUME NEW n \in Names, create(p, n) PROVE FilesInv'
  <2>1. Complete(ops + 1, n) \in WholeFile /\ derive_slug(n) \in Slugs
    BY <1>0, FileStates, SlugFacts
  <2> QED
    BY <1>0, <1>1, <1>b, <2>1 DEF create, Begins, documents
<1>2. ASSUME NEW s \in Slugs, duplicate(p, s) PROVE FilesInv'
  <2>1. Complete(ops + 1, "copy") \in WholeFile /\ <<"copy", 1>> \in Slugs
    BY <1>0, FileStates, SlugFacts
  <2> QED
    BY <1>0, <1>2, <1>b, <2>1 DEF duplicate, Begins, documents
<1>3. ASSUME NEW s \in Slugs, save_layout(p, s) PROVE FilesInv'
  <2>1. files[s] \in WholeFile /\ read_one(s)
    BY <1>0, <1>3, FileStates DEF save_layout, read_one
  <2> QED
    BY <1>0, <1>3, <1>b, <2>1 DEF save_layout, Begins, documents
<1>4. ASSUME NEW s \in Slugs, NEW n \in Names, rename(p, s, n) PROVE FilesInv'
  <2> DEFINE doc == Complete(files[s].id, n)
  <2>1. files[s] \in WholeFile /\ read_one(s)
    BY <1>0, <1>4, FileStates DEF rename, read_one
  <2>2. files[s].id \in Nat
    BY <2>1 DEF WholeFile
  <2>3. doc \in WholeFile /\ doc.id = files[s].id /\ derive_slug(n) \in Slugs
    BY <2>2, FileStates, SlugFacts
  <2>4. \/ Does(p, Op("overwrite", s, s, doc))
        \/ Does(p, Op("reserve", s, derive_slug(n), doc))
    BY <1>4 DEF rename
  <2>5. files' = files /\ made' = made /\ raced' = raced /\ ops' \in Nat /\ hosts' = hosts
    BY <1>0, <1>4 DEF rename, Begins, documents
  <2> HIDE DEF doc
  <2> QED
    BY <1>b, <2>1, <2>3, <2>4, <2>5
<1>5. CASE migrate_legacy_dashboard(p)
  <2> DEFINE o == Op("migrate", <<"default", 1>>, <<"default", 1>>, Legacy)
  <2>1. files' = files /\ made' = made /\ raced' = raced /\ ops' \in Nat /\ hosts' = hosts
    BY <1>0, <1>5 DEF migrate_legacy_dashboard, limits, documents
  <2>2. CASE Does(p, [Ready EXCEPT !.at = "load"])
    BY <1>0, <1>a, <2>1, <2>2, StageIs DEF Writing
  <2>3. CASE Does(p, o) /\ list_files = {}
    <3>1. Legacy \in WholeFile /\ <<"default", 1>> \in Slugs
      BY FileStates, SlugFacts DEF Legacy
    <3>2. /\ o \in OpState /\ o.at = "migrate" /\ o.src = <<"default", 1>>
          /\ o.slug = <<"default", 1>>
      BY <3>1, OpIs
    <3>3. ~ read_one(o.src)
      BY <2>3, <3>1, <3>2 DEF list_files
    <3> HIDE DEF o
    <3> QED
      BY <1>0, <2>1, <2>3, <3>1, <3>2, <3>3, QuietStep DEF Does, Writing
  <2> QED
    BY <1>5, <2>2, <2>3 DEF migrate_legacy_dashboard
<1>6. CASE put_legacy_away(p) \/ Kill(p)
  <2>1. PICK at \in {"start", "load"} : Does(p, [Ready EXCEPT !.at = at])
    BY <1>6 DEF put_legacy_away, Kill
  <2>2. files' = files /\ made' = made /\ raced' = raced /\ ops' = ops /\ hosts' = hosts
    BY <1>6 DEF put_legacy_away, Kill, limits, documents
  <2>3. [Ready EXCEPT !.at = at] \in OpState /\ [Ready EXCEPT !.at = at].at = at
    BY StageIs
  <2>4. at \notin Writing \cup {"migrate"}
    BY DEF Writing
  <2> QED
    BY <1>0, <1>a, <2>1, <2>2, <2>3, <2>4
<1>7. CASE load_prefs(p) \/ save_hosts(p)
  <2>1. Does(p, Ready) /\ files' = files /\ made' = made /\ raced' = raced /\ ops' = ops
    BY <1>7 DEF load_prefs, save_hosts, limits
  <2>2. hosts' \in {Absent} \cup HostsFile
    <3>1. CASE load_prefs(p)
      BY <1>0, <3>1 DEF load_prefs
    <3>2. CASE save_hosts(p)
      <4>1. gui[p].doc \in HostsFile
        BY <3>2 DEF save_hosts, FilesInv, OpShape
      <4> QED
        BY <1>0, <3>2, <4>1 DEF save_hosts
    <3> QED
      BY <1>7, <3>1, <3>2
  <2> QED
    BY <1>0, <1>a, <2>1, <2>2 DEF Writing
<1>8. CASE reload_preferences(p) \/ \E t \in Themes : apply_preference(p, t)
  <2>1. gui' = gui /\ gui[p].at = "idle" /\ files' = files /\ made' = made /\ raced' = raced
        /\ ops' \in Nat /\ hosts' = hosts
    BY <1>0, <1>8 DEF reload_preferences, apply_preference, Begins
  <2>2. gui' = [gui EXCEPT ![p] = gui[p]] /\ gui[p] \in OpState
    BY <1>0, <2>1
  <2> QED
    BY <1>0, <1>a, <2>1, <2>2 DEF Does, Writing
<1>9. CASE edit_hosts(p)
  <2>1. PICK list \in HostEdits(load_hosts) : Does(p, Op("hosts", Nowhere, Nowhere, Hosts(list)))
    BY <1>9 DEF edit_hosts
  <2> DEFINE o == Op("hosts", Nowhere, Nowhere, Hosts(list))
  <2>2. o \in OpState /\ o.at = "hosts" /\ o.doc \in HostsFile
    <3>1. load_hosts \subseteq HostNames
      BY <1>0 DEF load_hosts, HostsFile
    <3>2. list \subseteq HostNames
      BY <3>1 DEF HostEdits
    <3>3. Hosts(list) \in HostsFile
      BY <3>2 DEF Hosts, HostsFile
    <3> QED
      BY <3>3 DEF Op, OpState
  <2>3. "hosts" \notin Writing \cup {"migrate"}
    BY DEF Writing
  <2>4. files' = files /\ made' = made /\ raced' = raced /\ ops' \in Nat /\ hosts' = hosts
    BY <1>0, <1>9 DEF edit_hosts, Begins, documents
  <2> HIDE DEF o
  <2> QED
    BY <1>0, <1>a, <2>1, <2>2, <2>3, <2>4 DEF o
<1> QED
  BY <1>1, <1>2, <1>3, <1>4, <1>5, <1>6, <1>7, <1>8, <1>9 DEF import_dashboard

-----------------------------------------------------------------------------
(* GuiFiles: steps that change a dashboard file.                            *)

(* What every such step has to show. *)
LEMMA FileStep ==
  ASSUME FilesInv, NEW p \in Guis, NEW o \in OpState, NEW s \in Slugs, NEW v \in FileState,
         gui' = [gui EXCEPT ![p] = o], files' = [files EXCEPT ![s] = v],
         raced' \in BOOLEAN, ~raced' => ~raced, ops' \in Nat, hosts' = hosts,
         o.at \in Writing => o.doc \in WholeFile /\ o.slug \in Slugs,
         o.at = "remove" => o.src \in Slugs,
         o.at \notin {"overwrite", "migrate", "hosts"},
         ~raced' => \A q \in Guis \ {p} : ~MeantBy(q, s) /\ ~HeldBy(q, s),
         ~raced' => FilesAwait(p)',
         ~raced' => (\A q \in Guis : RemovalCovered(q)') /\ NoDashboardLost'
  PROVE  FilesInv'
<1>1. gui \in [Guis -> OpState] /\ gui'[p] = o /\ \A q \in Guis \ {p} : gui'[q] = gui[q]
  BY DEF FilesInv, FilesTypes
<1>2. files \in [Slugs -> FileState] /\ files'[s] = v /\ \A t \in Slugs \ {s} : files'[t] = files[t]
  BY DEF FilesInv, FilesTypes
<1>3. FilesTypes'
  BY <1>1, <1>2 DEF FilesInv, FilesTypes
<1>4. \A q \in Guis : OpShape(q)'
  BY <1>1 DEF FilesInv, OpShape
<1>5. ASSUME ~raced', NEW q \in Guis \ {p} PROVE FilesAwait(q)'
  <2>1. FilesAwait(q) /\ OpShape(q) /\ gui'[q] = gui[q] /\ gui[q].src # s
        /\ (gui[q].at = "write" => gui[q].slug # s)
    BY <1>1, <1>5 DEF FilesInv, MeantBy, HeldBy
  <2>2. gui[q].src \in Slugs \cup {Nowhere}
    BY <1>1 DEF OpState
  <2>3. gui[q].at = "write" => files'[gui[q].slug] = Partial(q)
    BY <1>2, <2>1 DEF FilesAwait, OpShape, Writing
  <2>4. gui[q].src \in Slugs => files'[gui[q].src] = files[gui[q].src]
    BY <1>2, <2>1
  <2>5. gui[q].at = "migrate" => gui[q].src \in Slugs
    BY <2>1 DEF OpShape
  <2> QED
    BY <2>1, <2>2, <2>3, <2>4, <2>5 DEF FilesAwait, read_one
<1> QED
  BY <1>3, <1>4, <1>5 DEF FilesInv
(* A step that writes where no whole file is: a reservation, a document     *)
(* written into one, a reservation given up, the legacy layout.             *)
LEMMA GrowStep ==
  ASSUME FilesInv, NEW p \in Guis, NEW o \in OpState, NEW s \in Slugs, NEW v \in FileState,
         gui' = [gui EXCEPT ![p] = o], files' = [files EXCEPT ![s] = v],
         raced' \in BOOLEAN, ~raced' => ~raced, ops' \in Nat, hosts' = hosts,
         o.at \in Writing => o.doc \in WholeFile /\ o.slug \in Slugs,
         o.at = "remove" => o.src \in Slugs /\ o.src # s /\ v \in WholeFile /\ v.id = o.doc.id,
         o.at \notin {"overwrite", "migrate", "hosts"},
         made' = made \/ (v \in WholeFile /\ made' = made \cup {v.id}),
         ~raced' => /\ ~read_one(s)
                    /\ \A q \in Guis \ {p} : ~MeantBy(q, s) /\ ~HeldBy(q, s)
                    /\ FilesAwait(p)'
  PROVE  FilesInv'
<1>1. gui \in [Guis -> OpState] /\ gui'[p] = o /\ \A q \in Guis \ {p} : gui'[q] = gui[q]
  BY DEF FilesInv, FilesTypes
<1>2. files'[s] = v /\ \A t \in Slugs \ {s} : files'[t] = files[t]
  BY DEF FilesInv, FilesTypes
<1>3. ASSUME ~raced', v \in WholeFile
      PROVE  read_one(s)' /\ files'[s].id = v.id /\ Safe(s)'
  <2>1. read_one(s)'
    BY <1>2, <1>3, FileStates DEF read_one
  <2>2. \A q \in Guis \ {p} : gui[q].src # s
    BY <1>3 DEF MeantBy
  <2>3. Safe(s)'
    BY <1>1, <2>2 DEF Safe
  <2> QED
    BY <1>2, <2>1, <2>3
<1>4. ASSUME ~raced', NEW t \in Slugs, read_one(t)
      PROVE  t # s /\ read_one(t)' /\ files'[t] = files[t]
  BY <1>2, <1>4 DEF read_one
<1>5. ASSUME ~raced', NEW q \in Guis PROVE RemovalCovered(q)'
  <2> SUFFICES ASSUME gui'[q].at = "remove", gui'[q].doc.id \in made'
               PROVE  \E t \in Slugs : read_one(t)' /\ files'[t].id = gui'[q].doc.id /\ Safe(t)'
    BY DEF RemovalCovered
  <2>1. CASE v \in WholeFile /\ v.id = gui'[q].doc.id
    BY <1>3, <1>5, <2>1
  <2>2. CASE ~ (v \in WholeFile /\ v.id = gui'[q].doc.id)
    <3>1. q # p /\ gui'[q] = gui[q] /\ gui[q].doc.id \in made
      BY <1>1, <2>2
    <3>2. PICK t \in Slugs : read_one(t) /\ files[t].id = gui[q].doc.id /\ Safe(t)
      BY <1>5, <3>1 DEF FilesInv, RemovalCovered
    <3>3. t # s /\ read_one(t)' /\ files'[t] = files[t]
      BY <1>4, <1>5, <3>2
    <3>4. ASSUME NEW x \in Guis, gui'[x].at = "remove", gui'[x].src = t PROVE FALSE
      <4>1. CASE x # p
        BY <1>1, <3>2, <3>4, <4>1 DEF Safe
      <4>2. CASE x = p
        <5>1. o.at = "remove" /\ o.src = t /\ v \in WholeFile /\ v.id = o.doc.id
          BY <1>1, <3>4, <4>2
        <5>2. t # Nowhere /\ o.at \in Writing
          BY <5>1, SlugFacts DEF Writing
        <5>3. files'[t].id = o.doc.id
          BY <1>1, <1>5, <5>1, <5>2 DEF FilesAwait
        <5> QED
          BY <2>2, <3>1, <3>2, <3>3, <5>1, <5>3
      <4> QED
        BY <4>1, <4>2
    <3>5. Safe(t)'
      BY <3>4 DEF Safe
    <3> QED
      BY <3>1, <3>2, <3>3, <3>5
  <2> QED
    BY <2>1, <2>2
<1>6. ASSUME ~raced' PROVE NoDashboardLost'
  <2> SUFFICES ASSUME NEW i \in made'
               PROVE  \E t \in Slugs : read_one(t)' /\ files'[t].id = i
    BY DEF NoDashboardLost, list_files
  <2>1. CASE v \in WholeFile /\ i = v.id
    BY <1>3, <1>6, <2>1
  <2>2. CASE i \in made
    <3>1. PICK t \in Slugs : read_one(t) /\ files[t].id = i
      BY <1>6, <2>2 DEF FilesInv, NoDashboardLost, list_files
    <3>2. read_one(t)' /\ files'[t] = files[t]
      BY <1>4, <1>6, <3>1
    <3> QED
      BY <3>1, <3>2
  <2> QED
    BY <2>1, <2>2
<1> QED
  BY <1>5, <1>6, FileStep

LEMMA AllocateInv ==
  ASSUME FilesInv, NEW p \in Guis, allocate_unique_slug(p)
  PROVE  FilesInv'
<1> DEFINE free == SlugCandidates(gui[p].slug)
           s == <<gui[p].slug[1], CHOOSE i \in free : \A j \in free : i <= j>>
<1>1. /\ gui \in [Guis -> OpState] /\ gui[p] \in OpState /\ gui[p].at = "reserve"
      /\ gui[p].doc \in WholeFile /\ gui[p].slug \in Slugs /\ raced \in BOOLEAN
  BY DEF allocate_unique_slug, FilesInv, FilesTypes, OpShape, Writing
<1>2. made' = made /\ hosts' = hosts /\ ops' = ops /\ ops \in Nat
  BY DEF allocate_unique_slug, documents, limits, FilesInv, FilesTypes
<1>3. CASE free = {}
  <2>1. Does(p, Ready) /\ files' = files /\ raced' = raced
    BY <1>3 DEF allocate_unique_slug
  <2>2. hosts' \in {Absent} \cup HostsFile
    BY <1>2 DEF FilesInv, FilesTypes
  <2> QED
    BY <1>2, <2>1, <2>2, ReadyIs, QuietStep DEF Does, Writing
<1>4. CASE free # {}
  <2>1. s \in Slugs /\ files[s] = Absent
    BY <1>1, <1>4, FirstFree
  <2>2. /\ files' = [files EXCEPT ![s] = Partial(p)]
        /\ gui' = [gui EXCEPT ![p] = [gui[p] EXCEPT !.at = "write", !.slug = s]]
        /\ raced' = (raced \/ \E q \in Guis \ {p} : MeantBy(q, s))
    BY <1>4, Zenon DEF allocate_unique_slug, Does, Creates
  <2> HIDE DEF s
  <2> DEFINE o == [gui[p] EXCEPT !.at = "write", !.slug = s]
  <2>3. o \in OpState /\ o.at = "write" /\ o.slug = s /\ o.src = gui[p].src /\ o.doc = gui[p].doc
    BY <1>1, <2>1 DEF OpState
  <2> HIDE DEF o
  <2>4. raced' \in BOOLEAN /\ (~raced' => ~raced /\ \A q \in Guis \ {p} : ~MeantBy(q, s))
    BY <1>1, <2>2, Zenon
  <2>5. Partial(p) \in FileState /\ ~ read_one(s)
    BY <2>1, FileStates DEF read_one
  <2>6. ASSUME ~raced', NEW q \in Guis \ {p} PROVE ~HeldBy(q, s)
    <3>1. gui[q].at = "write" => files[gui[q].slug] = Partial(q)
      BY <2>4, <2>6 DEF FilesInv, FilesAwait
    <3>2. Partial(q).is # Absent.is
      BY FileStates
    <3> QED
      BY <2>1, <3>1, <3>2 DEF HeldBy
  <2>7. ASSUME ~raced' PROVE FilesAwait(p)'
    <3>1. gui'[p] = o /\ files'[s] = Partial(p) /\ \A t \in Slugs \ {s} : files'[t] = files[t]
      BY <1>1, <2>1, <2>2 DEF FilesInv, FilesTypes, o
    <3>2. o.src # Nowhere => read_one(o.src) /\ files[o.src].id = o.doc.id
      <4>1. FilesAwait(p)
        BY <2>4, <2>7 DEF FilesInv
      <4>2. gui[p].at \in Writing
        BY <1>1 DEF Writing
      <4> QED
        BY <2>3, <4>1, <4>2 DEF FilesAwait
    <3>3. o.src # Nowhere => o.src \in Slugs \ {s}
      <4>1. o.src \in Slugs \cup {Nowhere}
        BY <2>3 DEF OpState
      <4> QED
        BY <2>5, <3>2, <4>1
    <3>4. o.src # Nowhere => files'[o.src].is = "whole" /\ files'[o.src].id = o.doc.id
      BY <3>1, <3>2, <3>3 DEF read_one
    <3> QED
      BY <2>3, <3>1, <3>4 DEF FilesAwait, read_one
  <2> QED
    BY <1>1, <1>2, <2>1, <2>2, <2>3, <2>4, <2>5, <2>6, <2>7, GrowStep DEF o
<1> QED
  BY <1>3, <1>4
LEMMA WriteReservedInv ==
  ASSUME FilesInv, NEW p \in Guis, write_reserved_dashboard_file(p)
  PROVE  FilesInv'
<1> DEFINE s == gui[p].slug
           doc == gui[p].doc
<1>1. /\ files \in [Slugs -> FileState] /\ gui \in [Guis -> OpState]
      /\ gui[p] \in OpState /\ gui[p].at = "write" /\ doc \in WholeFile /\ s \in Slugs
      /\ raced \in BOOLEAN
  BY DEF write_reserved_dashboard_file, FilesInv, FilesTypes, OpShape, Writing
<1>2. hosts' = hosts /\ ops' = ops /\ ops \in Nat
  BY DEF write_reserved_dashboard_file, documents, FilesInv, FilesTypes
<1>3. raced' = (raced \/ \E q \in Guis \ {p} : MeantBy(q, s))
  BY Zenon DEF write_reserved_dashboard_file, Creates
<1>4. raced' \in BOOLEAN /\ (~raced' => ~raced /\ \A q \in Guis \ {p} : ~MeantBy(q, s))
  BY <1>1, <1>3, Zenon
<1>5. ASSUME ~raced'
      PROVE  /\ files[s] = Partial(p) /\ ~ read_one(s)
             /\ \A q \in Guis \ {p} : ~HeldBy(q, s)
             /\ gui[p].src # Nowhere =>
                   gui[p].src # s /\ read_one(gui[p].src) /\ files[gui[p].src].id = doc.id
  <2>1. \A q \in Guis : FilesAwait(q)
    BY <1>4, <1>5 DEF FilesInv
  <2>2. files[s] = Partial(p)
    BY <1>1, <2>1 DEF FilesAwait
  <2>3. ~ read_one(s)
    BY <2>2, FileStates DEF read_one
  <2>4. \A q \in Guis \ {p} : ~HeldBy(q, s)
    BY <2>1, <2>2, FileStates DEF FilesAwait, HeldBy
  <2>5. gui[p].at \in Writing
    BY <1>1 DEF Writing
  <2> QED
    BY <2>1, <2>2, <2>3, <2>4, <2>5 DEF FilesAwait
<1>6. CASE IoFails /\ files' = [files EXCEPT ![s] = Absent] /\ Does(p, Ready) /\ made' = made
  <2>1. gui' = [gui EXCEPT ![p] = Ready] /\ gui'[p] = Ready
    BY <1>1, <1>6 DEF Does
  <2>2. FilesAwait(p)'
    BY <2>1, ReadyIs DEF FilesAwait, Writing
  <2>3. Absent \in FileState
    BY FileStates
  <2>4. Ready.at \notin Writing \cup {"remove", "overwrite", "migrate", "hosts"}
    BY ReadyIs DEF Writing
  <2> QED
    BY <1>1, <1>2, <1>4, <1>5, <1>6, <2>1, <2>2, <2>3, <2>4, ReadyIs, GrowStep
<1>7. CASE /\ files' = [files EXCEPT ![s] = IF @ = Partial(p) THEN doc ELSE @]
           /\ made' = made \cup {doc.id}
           /\ Does(p, IF gui[p].src = Nowhere THEN Ready ELSE [gui[p] EXCEPT !.at = "remove"])
  <2> DEFINE o == IF gui[p].src = Nowhere THEN Ready ELSE [gui[p] EXCEPT !.at = "remove"]
  <2>1. /\ o \in OpState
        /\ \/ o.at = "idle"
           \/ /\ o.at = "remove" /\ o.src = gui[p].src /\ o.doc = doc /\ o.slug = s
              /\ o.src \in Slugs
    <3>1. CASE gui[p].src = Nowhere
      BY <3>1, ReadyIs
    <3>2. CASE gui[p].src # Nowhere
      BY <1>1, <3>2 DEF OpState
    <3> QED
      BY <3>1, <3>2
  <2>2. gui' = [gui EXCEPT ![p] = o] /\ gui'[p] = o
    BY <1>1, <1>7 DEF Does
  <2> HIDE DEF o
  <2>3. CASE raced'
    <3> DEFINE v == IF files[s] = Partial(p) THEN doc ELSE files[s]
    <3>1. v \in FileState /\ files' = [files EXCEPT ![s] = v]
      BY <1>1, <1>7, FileStates
    <3>2. FilesTypes'
      BY <1>1, <1>2, <1>4, <2>1, <2>2, <3>1 DEF FilesInv, FilesTypes
    <3>3. \A q \in Guis \ {p} : gui'[q] = gui[q]
      BY <1>1, <2>2
    <3>4. OpShape(p)'
      BY <1>1, <2>1, <2>2 DEF OpShape, Writing
    <3>5. \A q \in Guis : OpShape(q)'
      BY <3>3, <3>4 DEF FilesInv, OpShape
    <3> QED
      BY <2>3, <3>2, <3>5 DEF FilesInv
  <2>4. CASE ~raced'
    <3>1. files' = [files EXCEPT ![s] = doc] /\ doc \in FileState
      BY <1>1, <1>5, <1>7, <2>4, FileStates
    <3>2. FilesAwait(p)'
      <4>1. CASE o.at = "idle"
        BY <2>2, <4>1 DEF FilesAwait, Writing
      <4>2. CASE o.at = "remove"
        <5>1. o.src # s /\ read_one(o.src) /\ files[o.src].id = doc.id /\ o.src \in Slugs
          BY <1>5, <2>1, <2>4, <4>2, SlugFacts
        <5>2. files'[o.src] = files[o.src]
          BY <1>1, <3>1, <5>1
        <5>3. files'[o.src].is = "whole" /\ files'[o.src].id = o.doc.id
          BY <2>1, <4>2, <5>1, <5>2 DEF read_one
        <5> QED
          BY <2>2, <4>2, <5>3 DEF FilesAwait, read_one
      <4> QED
        BY <2>1, <4>1, <4>2
    <3>3. /\ o.at \in Writing => o.doc \in WholeFile /\ o.slug \in Slugs
          /\ o.at = "remove" => o.src \in Slugs /\ o.src # s /\ doc.id = o.doc.id
          /\ o.at \notin {"overwrite", "migrate", "hosts"}
      BY <1>1, <1>5, <2>1, <2>4, SlugFacts DEF Writing
    <3>4. ~ read_one(s) /\ \A q \in Guis \ {p} : ~MeantBy(q, s) /\ ~HeldBy(q, s)
      BY <1>4, <1>5, <2>4
    <3>5. made' = made \cup {doc.id} /\ doc \in WholeFile /\ s \in Slugs /\ o \in OpState
      BY <1>1, <1>7, <2>1
    <3> HIDE DEF s, doc
    <3> QED
      BY <1>2, <1>4, <2>2, <2>4, <3>1, <3>2, <3>3, <3>4, <3>5, GrowStep
  <2> QED
    BY <1>4, <2>3, <2>4
<1> QED
  BY <1>6, <1>7 DEF write_reserved_dashboard_file

LEMMA WriteMigratedInv ==
  ASSUME FilesInv, NEW p \in Guis, write_migrated(p)
  PROVE  FilesInv'
<1> DEFINE s == gui[p].slug
           o == [Ready EXCEPT !.at = "put away"]
<1>1. /\ files \in [Slugs -> FileState] /\ gui \in [Guis -> OpState]
      /\ gui[p].at = "migrate" /\ s \in Slugs /\ gui[p].src = s
      /\ raced \in BOOLEAN
  BY DEF write_migrated, FilesInv, FilesTypes, OpShape
<1>2. hosts' = hosts /\ ops' = ops /\ ops \in Nat
  BY DEF write_migrated, documents, limits, FilesInv, FilesTypes
<1>3. raced' = (raced \/ \E q \in Guis \ {p} : MeantBy(q, s) \/ HeldBy(q, s))
  BY Zenon DEF write_migrated, Touches
<1>4. /\ raced' \in BOOLEAN
      /\ ~raced' => ~raced /\ \A q \in Guis \ {p} : ~MeantBy(q, s) /\ ~HeldBy(q, s)
  BY <1>1, <1>3, Zenon
<1>5. o \in OpState /\ o.at = "put away"
  BY StageIs
<1>6. gui' = [gui EXCEPT ![p] = o] /\ gui'[p] = o
  BY <1>1 DEF write_migrated, Does
<1>7. /\ files' = [files EXCEPT ![s] = Legacy]
      /\ Legacy \in WholeFile /\ Legacy \in FileState
      /\ made' = made \cup {Legacy.id}
  BY FileStates DEF write_migrated, Legacy
<1> HIDE DEF o
<1>8. o.at \notin Writing \cup {"remove", "overwrite", "migrate", "hosts"}
  BY <1>5 DEF Writing
<1>9. FilesAwait(p)'
  BY <1>5, <1>6, <1>8 DEF FilesAwait, Writing
<1>10. ~raced' => ~read_one(s)
  BY <1>1, <1>4 DEF FilesInv, FilesAwait
<1> HIDE DEF s
<1> QED
  BY <1>1, <1>2, <1>4, <1>5, <1>6, <1>7, <1>8, <1>9, <1>10, GrowStep

(* A step that takes a whole file away, or puts another version there. *)
LEMMA RemoveOldInv ==
  ASSUME FilesInv, NEW p \in Guis, remove_old_path(p)
  PROVE  FilesInv'
<1> DEFINE s == gui[p].src
<1>1. /\ files \in [Slugs -> FileState] /\ gui \in [Guis -> OpState]
      /\ gui[p].at = "remove" /\ s \in Slugs /\ raced \in BOOLEAN
  BY DEF remove_old_path, FilesInv, FilesTypes, OpShape
<1>2. hosts' = hosts /\ ops' = ops /\ ops \in Nat /\ made' = made
  BY DEF remove_old_path, documents, limits, FilesInv, FilesTypes
<1>3. raced' = (raced \/ \E q \in Guis \ {p} : MeantBy(q, s) \/ HeldBy(q, s))
  BY Zenon DEF remove_old_path, Touches
<1>4. /\ raced' \in BOOLEAN
      /\ ~raced' => ~raced /\ \A q \in Guis \ {p} : ~MeantBy(q, s) /\ ~HeldBy(q, s)
  BY <1>1, <1>3, Zenon
<1>5. /\ gui' = [gui EXCEPT ![p] = Ready] /\ gui'[p] = Ready
      /\ \A q \in Guis \ {p} : gui'[q] = gui[q]
  BY <1>1 DEF remove_old_path, Does
<1>6. /\ files' = [files EXCEPT ![s] = Absent] /\ Absent \in FileState
      /\ \A t \in Slugs \ {s} : files'[t] = files[t]
  BY <1>1, FileStates DEF remove_old_path
<1>7. FilesAwait(p)' /\ Ready.at \notin Writing \cup {"remove", "overwrite", "migrate", "hosts"}
  BY <1>5, ReadyIs DEF FilesAwait, Writing
<1>8. \A t \in Slugs : Safe(t) => t # s /\ Safe(t)'
  BY <1>1, <1>5, ReadyIs DEF Safe
<1>9. ASSUME ~raced' PROVE (\A q \in Guis : RemovalCovered(q)') /\ NoDashboardLost'
  <2>1. ASSUME NEW q \in Guis PROVE RemovalCovered(q)'
    <3> SUFFICES ASSUME gui'[q].at = "remove", gui'[q].doc.id \in made'
                 PROVE  \E t \in Slugs : read_one(t)' /\ files'[t].id = gui'[q].doc.id /\ Safe(t)'
      BY DEF RemovalCovered
    <3>1. gui'[q] = gui[q]
      BY <1>5, ReadyIs
    <3>2. PICK t \in Slugs : read_one(t) /\ files[t].id = gui[q].doc.id /\ Safe(t)
      BY <1>2, <1>4, <1>9, <3>1 DEF FilesInv, RemovalCovered
    <3>3. read_one(t)' /\ files'[t] = files[t] /\ Safe(t)'
      BY <1>6, <1>8, <3>2 DEF read_one
    <3> QED
      BY <3>1, <3>2, <3>3
  <2>2. NoDashboardLost'
    <3> SUFFICES ASSUME NEW i \in made'
                 PROVE  \E t \in Slugs : read_one(t)' /\ files'[t].id = i
      BY DEF NoDashboardLost, list_files
    <3>1. PICK t \in Slugs : read_one(t) /\ files[t].id = i
      BY <1>2, <1>4, <1>9 DEF FilesInv, NoDashboardLost, list_files
    <3>2. CASE t # s
      BY <1>6, <3>1, <3>2 DEF read_one
    <3>3. CASE t = s
      <4>1. gui[p].doc.id = i
        <5>1. FilesAwait(p) /\ gui[p].at \in Writing /\ s # Nowhere
          BY <1>1, <1>4, <1>9, SlugFacts DEF FilesInv, Writing
        <5> QED
          BY <3>1, <3>3, <5>1 DEF FilesAwait
      <4>2. PICK u \in Slugs : read_one(u) /\ files[u].id = i /\ Safe(u)
        BY <1>1, <1>2, <1>4, <1>9, <4>1 DEF FilesInv, RemovalCovered
      <4>3. read_one(u)' /\ files'[u] = files[u]
        BY <1>6, <1>8, <4>2 DEF read_one
      <4> QED
        BY <4>2, <4>3
    <3> QED
      BY <3>2, <3>3
  <2> QED
    BY <2>1, <2>2
<1> HIDE DEF s
<1> QED
  BY <1>1, <1>2, <1>4, <1>5, <1>6, <1>7, <1>9, ReadyIs, FileStep
LEMMA WriteOneInv ==
  ASSUME FilesInv, NEW p \in Guis, write_one(p)
  PROVE  FilesInv'
<1> DEFINE s == gui[p].slug
           doc == gui[p].doc
<1>1. /\ files \in [Slugs -> FileState] /\ gui \in [Guis -> OpState]
      /\ gui[p].at = "overwrite" /\ s \in Slugs /\ gui[p].src = s /\ doc \in WholeFile
      /\ raced \in BOOLEAN
  BY DEF write_one, FilesInv, FilesTypes, OpShape, Writing
<1>2. hosts' = hosts /\ ops' = ops /\ ops \in Nat /\ made' = made
  BY DEF write_one, documents, FilesInv, FilesTypes
<1>3. /\ gui' = [gui EXCEPT ![p] = Ready] /\ gui'[p] = Ready
      /\ \A q \in Guis \ {p} : gui'[q] = gui[q]
  BY <1>1 DEF write_one, Does
<1>4. Ready.at \notin Writing \cup {"remove", "overwrite", "migrate", "hosts"}
  BY ReadyIs DEF Writing
<1>5. CASE files' = files /\ raced' = raced
  <2>1. hosts' \in {Absent} \cup HostsFile
    BY <1>2 DEF FilesInv, FilesTypes
  <2>2. Ready.at # "write" /\ Ready.at # "hosts"
    BY ReadyIs
  <2> QED
    BY <1>2, <1>3, <1>4, <1>5, <2>1, <2>2, ReadyIs, QuietStep
<1>6. CASE files' = [files EXCEPT ![s] = doc] /\ Touches(p, s)
  <2>1. raced' = (raced \/ \E q \in Guis \ {p} : MeantBy(q, s) \/ HeldBy(q, s))
    BY <1>6, Zenon DEF Touches
  <2>2. /\ raced' \in BOOLEAN
        /\ ~raced' => ~raced /\ \A q \in Guis \ {p} : ~MeantBy(q, s) /\ ~HeldBy(q, s)
    BY <1>1, <2>1, Zenon
  <2>3. FilesAwait(p)'
    BY <1>3, <1>4, ReadyIs DEF FilesAwait, Writing
  <2>4. /\ doc \in FileState /\ files'[s] = doc /\ files'[s].is = "whole"
        /\ \A t \in Slugs \ {s} : files'[t] = files[t]
    BY <1>1, <1>6, FileStates
  <2>5. \A t \in Slugs : Safe(t) => Safe(t)'
    BY <1>3, ReadyIs DEF Safe
  <2>6. ASSUME ~raced', NEW t \in Slugs, read_one(t)
        PROVE  read_one(t)' /\ files'[t].id = files[t].id
    <3>1. CASE t # s
      BY <2>4, <2>6, <3>1 DEF read_one
    <3>2. CASE t = s
      <4>1. FilesAwait(p) /\ gui[p].at \in Writing /\ s # Nowhere
        BY <1>1, <2>2, <2>6, SlugFacts DEF FilesInv, Writing
      <4>2. files[s].id = doc.id
        BY <1>1, <4>1 DEF FilesAwait
      <4> QED
        BY <2>4, <3>2, <4>2 DEF read_one
    <3> QED
      BY <3>1, <3>2
  <2>7. ASSUME ~raced', NEW q \in Guis PROVE RemovalCovered(q)'
    <3> SUFFICES ASSUME gui'[q].at = "remove", gui'[q].doc.id \in made'
                 PROVE  \E t \in Slugs : read_one(t)' /\ files'[t].id = gui'[q].doc.id /\ Safe(t)'
      BY DEF RemovalCovered
    <3>1. gui'[q] = gui[q]
      BY <1>3, ReadyIs
    <3>2. PICK t \in Slugs : read_one(t) /\ files[t].id = gui[q].doc.id /\ Safe(t)
      BY <1>2, <2>2, <2>7, <3>1 DEF FilesInv, RemovalCovered
    <3> QED
      BY <2>5, <2>6, <2>7, <3>1, <3>2
  <2>8. ASSUME ~raced' PROVE NoDashboardLost'
    <3> SUFFICES ASSUME NEW i \in made'
                 PROVE  \E t \in Slugs : read_one(t)' /\ files'[t].id = i
      BY DEF NoDashboardLost, list_files
    <3>1. PICK t \in Slugs : read_one(t) /\ files[t].id = i
      BY <1>2, <2>2, <2>8 DEF FilesInv, NoDashboardLost, list_files
    <3> QED
      BY <2>6, <2>8, <3>1
  <2> HIDE DEF s, doc
  <2> QED
    BY <1>1, <1>2, <1>3, <1>4, <1>6, <2>2, <2>3, <2>4, <2>7, <2>8, ReadyIs, FileStep
<1> QED
  BY <1>5, <1>6 DEF write_one

LEMMA RemoveInv ==
  ASSUME FilesInv, NEW p \in Guis, NEW s \in Slugs, remove(p, s)
  PROVE  FilesInv'
<1>1. /\ files \in [Slugs -> FileState] /\ gui \in [Guis -> OpState]
      /\ gui[p].at = "idle" /\ raced \in BOOLEAN /\ gui[p] \in OpState
  BY DEF remove, Begins, FilesInv, FilesTypes
<1>2. hosts' = hosts /\ ops' \in Nat /\ made' = made \ {files[s].id} /\ gui' = gui
  BY DEF remove, Begins, documents, FilesInv, FilesTypes
<1>3. raced' = (raced \/ \E q \in Guis \ {p} : MeantBy(q, s) \/ HeldBy(q, s))
  BY Zenon DEF remove, Touches
<1>4. /\ raced' \in BOOLEAN
      /\ ~raced' => ~raced /\ \A q \in Guis \ {p} : ~MeantBy(q, s) /\ ~HeldBy(q, s)
  BY <1>1, <1>3, Zenon
<1>5. gui' = [gui EXCEPT ![p] = gui[p]]
  BY <1>1, <1>2
<1>6. /\ files' = [files EXCEPT ![s] = Absent] /\ Absent \in FileState
      /\ \A t \in Slugs \ {s} : files'[t] = files[t]
  BY <1>1, FileStates DEF remove
<1>7. FilesAwait(p)' /\ gui[p].at \notin Writing \cup {"remove", "overwrite", "migrate", "hosts"}
  BY <1>1, <1>2 DEF FilesAwait, Writing
<1>8. ASSUME ~raced' PROVE (\A q \in Guis : RemovalCovered(q)') /\ NoDashboardLost'
  <2>1. ASSUME NEW q \in Guis PROVE RemovalCovered(q)'
    <3> SUFFICES ASSUME gui'[q].at = "remove", gui'[q].doc.id \in made'
                 PROVE  \E t \in Slugs : read_one(t)' /\ files'[t].id = gui'[q].doc.id /\ Safe(t)'
      BY DEF RemovalCovered
    <3>1. PICK t \in Slugs : read_one(t) /\ files[t].id = gui[q].doc.id /\ Safe(t)
      BY <1>2, <1>4, <1>8 DEF FilesInv, RemovalCovered
    <3>2. t # s
      BY <1>2, <3>1
    <3>3. read_one(t)' /\ files'[t] = files[t] /\ Safe(t)'
      BY <1>2, <1>6, <3>1, <3>2 DEF read_one, Safe
    <3> QED
      BY <1>2, <3>1, <3>3
  <2>2. NoDashboardLost'
    <3> SUFFICES ASSUME NEW i \in made'
                 PROVE  \E t \in Slugs : read_one(t)' /\ files'[t].id = i
      BY DEF NoDashboardLost, list_files
    <3>1. PICK t \in Slugs : read_one(t) /\ files[t].id = i
      BY <1>2, <1>4, <1>8 DEF FilesInv, NoDashboardLost, list_files
    <3>2. t # s
      BY <1>2, <3>1
    <3> QED
      BY <1>6, <3>1, <3>2 DEF read_one
  <2> QED
    BY <2>1, <2>2
<1> QED
  BY <1>1, <1>2, <1>4, <1>5, <1>6, <1>7, <1>8, FileStep

LEMMA FilesInitInv == GuiFilesInit => FilesInv
<1> SUFFICES ASSUME GuiFilesInit PROVE FilesInv
  OBVIOUS
<1> DEFINE o == [Ready EXCEPT !.at = "start"]
<1>1. o \in OpState /\ o.at = "start"
  BY StageIs
<1> HIDE DEF o
<1>2. \A p \in Guis : gui[p] = o
  BY DEF GuiFilesInit, o
<1>3. gui \in [Guis -> OpState]
  BY <1>1 DEF GuiFilesInit, o
<1>4. FilesTypes
  BY <1>3, FileStates DEF GuiFilesInit, FilesTypes
<1>5. \A p \in Guis : OpShape(p) /\ FilesAwait(p) /\ RemovalCovered(p)
  BY <1>1, <1>2 DEF OpShape, FilesAwait, RemovalCovered, Writing
<1>6. NoDashboardLost
  BY DEF GuiFilesInit, NoDashboardLost
<1> QED
  BY <1>4, <1>5, <1>6 DEF FilesInv

LEMMA FilesStepInv == FilesInv /\ [GuiFilesNext]_fileVars => FilesInv'
<1> SUFFICES ASSUME FilesInv, [GuiFilesNext]_fileVars PROVE FilesInv'
  OBVIOUS
<1>1. CASE GuiFilesNext
  BY <1>1, QuietActions, AllocateInv, WriteReservedInv, WriteMigratedInv, RemoveOldInv,
     WriteOneInv, RemoveInv, Zenon DEF GuiFilesNext
<1>2. CASE UNCHANGED fileVars
  BY <1>2 DEF fileVars, FilesInv, FilesTypes, OpShape, FilesAwait, RemovalCovered, Safe,
              NoDashboardLost, list_files, read_one
<1> QED
  BY <1>1, <1>2

(***************************************************************************)
(* For any number of GUI processes, names and slugs, with writes that fail  *)
(* and processes killed between any two file operations, a dashboard goes   *)
(* only when a user removes it, unless two processes work on one file at    *)
(* one moment (dashboards_model.rs: reserve, write, then remove the old).   *)
(***************************************************************************)
THEOREM DashboardsAreKept == GuiFilesSpec => []NoDashboardLost
<1>1. FilesInv => NoDashboardLost
  BY DEF FilesInv, NoDashboardLost
<1> QED
  BY <1>1, FilesInitInv, FilesStepInv, PTL DEF GuiFilesSpec

-----------------------------------------------------------------------------
(* Sequences whose members need no common type.                             *)

IsSeq(s) == Len(s) \in Nat /\ s = [k \in 1 .. Len(s) |-> s[k]]

LEMMA SeqOver ==
  ASSUME NEW s, IsSeq(s), NEW X, \A k \in DOMAIN s : s[k] \in X
  PROVE  s \in Seq(X)
<1> DEFINE n == Len(s)
<1>1. n \in Nat /\ s = [k \in 1 .. n |-> s[k]] /\ DOMAIN s = 1 .. n
  BY DEF IsSeq
<1> HIDE DEF n
<1>2. s \in [1 .. n -> X]
  BY <1>1
<1> QED
  BY <1>1, <1>2

LEMMA SeqIsSeq ==
  ASSUME NEW X, NEW s \in Seq(X)
  PROVE  IsSeq(s)
BY DEF IsSeq

LEMMA AppendSeq ==
  ASSUME NEW s, IsSeq(s), NEW c
  PROVE  /\ IsSeq(Append(s, c)) /\ Len(Append(s, c)) = Len(s) + 1
         /\ DOMAIN s = 1 .. Len(s) /\ Len(s) \in Nat
         /\ DOMAIN Append(s, c) = 1 .. (Len(s) + 1)
         /\ Append(s, c)[Len(s) + 1] = c
         /\ \A k \in 1 .. Len(s) : Append(s, c)[k] = s[k]
<1> DEFINE X == {s[k] : k \in DOMAIN s} \cup {c}
           t == Append(s, c)
           n == Len(s)
<1>1. s \in Seq(X)
  BY SeqOver
<1> HIDE DEF X
<1>2. c \in X
  BY DEF X
<1>3. /\ n \in Nat /\ DOMAIN s = 1 .. n
      /\ t \in Seq(X) /\ DOMAIN t = 1 .. (n + 1) /\ Len(t) = n + 1
      /\ t[n + 1] = c /\ \A k \in 1 .. n : t[k] = s[k]
  BY <1>1, <1>2
<1> HIDE DEF t, n
<1>4. IsSeq(t)
  BY <1>3, SeqIsSeq
<1> QED
  BY <1>3, <1>4 DEF t, n

LEMMA TailSeq ==
  ASSUME NEW s, IsSeq(s), s # <<>>
  PROVE  /\ IsSeq(Tail(s)) /\ Len(s) \in Nat \ {0} /\ DOMAIN s = 1 .. Len(s)
         /\ Head(s) = s[1] /\ DOMAIN Tail(s) = 1 .. (Len(s) - 1)
         /\ \A k \in 1 .. (Len(s) - 1) : Tail(s)[k] = s[k + 1]
<1> DEFINE X == {s[k] : k \in DOMAIN s}
           t == Tail(s)
           n == Len(s)
<1>1. s \in Seq(X)
  BY SeqOver
<1> HIDE DEF X
<1>2. /\ n \in Nat \ {0} /\ DOMAIN s = 1 .. n
      /\ t \in Seq(X) /\ DOMAIN t = 1 .. (n - 1)
      /\ Head(s) = s[1] /\ \A k \in 1 .. (n - 1) : t[k] = s[k + 1]
  BY <1>1
<1> HIDE DEF t, n
<1>3. IsSeq(t)
  BY <1>2, SeqIsSeq
<1> QED
  BY <1>2, <1>3 DEF t, n

(* One member replaced. *)
LEMMA ReplacedSeq ==
  ASSUME NEW s, IsSeq(s), NEW k \in DOMAIN s, NEW e, NEW t, t = [s EXCEPT ![k] = e]
  PROVE  /\ IsSeq(t) /\ Len(t) = Len(s) /\ DOMAIN t = DOMAIN s
         /\ t[k] = e /\ \A j \in DOMAIN s : j # k => t[j] = s[j]
<1> DEFINE X == {s[j] : j \in DOMAIN s} \cup {e}
           n == Len(s)
<1>1. s \in Seq(X)
  BY SeqOver
<1> HIDE DEF X
<1>2. e \in X
  BY DEF X
<1>3. n \in Nat /\ DOMAIN s = 1 .. n /\ s \in [1 .. n -> X]
  BY <1>1
<1> HIDE DEF n
<1>4. t \in [1 .. n -> X] /\ DOMAIN t = 1 .. n
      /\ t[k] = e /\ \A j \in 1 .. n : j # k => t[j] = s[j]
  BY <1>2, <1>3
<1>5. t \in Seq(X) /\ Len(t) = n
  BY <1>3, <1>4
<1>6. IsSeq(t)
  BY <1>5, SeqIsSeq
<1>7. Len(t) = Len(s)
  BY <1>5 DEF n
<1>8. DOMAIN t = DOMAIN s
  BY <1>3, <1>4
<1>9. t[k] = e /\ \A j \in DOMAIN s : j # k => t[j] = s[j]
  BY <1>3, <1>4
<1>10. QED
  BY <1>6, <1>7, <1>8, <1>9

(* Sequences put together and cut. *)
Joins(u, s, t, l, n, e) ==
    /\ IsSeq(u) /\ l \in Nat /\ n \in Nat /\ e = l + n /\ Len(u) = e
    /\ DOMAIN s = 1 .. l /\ DOMAIN t = 1 .. n /\ DOMAIN u = 1 .. e
    /\ \A i \in 1 .. e : /\ i <= l => i \in 1 .. l /\ u[i] = s[i]
                         /\ i > l => i - l \in 1 .. n /\ u[i] = t[i - l]
LEMMA JoinedSeq ==
  ASSUME NEW s, IsSeq(s), NEW t, IsSeq(t), NEW l, l = Len(s), NEW n, n = Len(t),
         NEW e, e = l + n, NEW u, u = s \o t
  PROVE  Joins(u, s, t, l, n, e)
<1> DEFINE X == {s[k] : k \in DOMAIN s} \cup {t[k] : k \in DOMAIN t}
<1>1. s \in Seq(X) /\ t \in Seq(X)
  BY SeqOver
<1> HIDE DEF X
<1>3. /\ l \in Nat /\ n \in Nat /\ DOMAIN s = 1 .. l /\ DOMAIN t = 1 .. n
      /\ u \in Seq(X) /\ Len(u) = e /\ DOMAIN u = 1 .. e
  BY <1>1
<1>4. \A i \in 1 .. e : u[i] = IF i <= l THEN s[i] ELSE t[i - l]
  BY <1>1, ConcatProperties
<1>5. IsSeq(u)
  BY <1>3, SeqIsSeq
<1>6. ASSUME NEW i \in 1 .. e
      PROVE  /\ i <= l => i \in 1 .. l /\ u[i] = s[i]
             /\ i > l => i - l \in 1 .. n /\ u[i] = t[i - l]
  <2>1. /\ i <= l => i \in 1 .. l
        /\ i > l => i - l \in 1 .. n /\ ~(i <= l)
    BY <1>3
  <2> QED
    BY <1>4, <2>1
<1> QED
  BY <1>3, <1>5, <1>6 DEF Joins

Cut(u, s, d, n, l) ==
    /\ IsSeq(u) /\ l \in Nat /\ d \in Nat /\ n \in Nat /\ d + n <= l /\ Len(u) = n
    /\ DOMAIN s = 1 .. l /\ DOMAIN u = 1 .. n
    /\ \A i \in 1 .. n : d + i \in 1 .. l /\ u[i] = s[d + i]
LEMMA CutSeq ==
  ASSUME NEW s, IsSeq(s), NEW l, l = Len(s), NEW d \in Nat, NEW n \in Nat,
         NEW a, a = d + 1, NEW e, e = d + n, e <= l, NEW u, u = SubSeq(s, a, e)
  PROVE  Cut(u, s, d, n, l)
<1> DEFINE X == {s[k] : k \in DOMAIN s}
<1>1. s \in Seq(X)
  BY SeqOver
<1>2. l \in Nat /\ DOMAIN s = 1 .. l
  BY <1>1
<1>3. \A i \in a .. e : s[i] \in X
  BY <1>2
<1> HIDE DEF X
<1>4. /\ u \in Seq(X) /\ Len(u) = IF a <= e THEN e - a + 1 ELSE 0
      /\ \A i \in 1 .. e - a + 1 : u[i] = s[a + i - 1]
  BY <1>3, SubSeqProperties
<1>5. e - a + 1 = n /\ (IF a <= e THEN e - a + 1 ELSE 0) = n
  BY <1>2
<1>6. u \in Seq(X) /\ Len(u) = n
  BY <1>4, <1>5
<1>7. IsSeq(u) /\ DOMAIN u = 1 .. n
  <2>1. u \in Seq(X)
    BY <1>6
  <2>2. IsSeq(u)
    BY <2>1, SeqIsSeq
  <2> QED
    BY <1>6, <2>1, <2>2
<1>8. ASSUME NEW i \in 1 .. n PROVE d + i \in 1 .. l /\ u[i] = s[d + i]
  <2>1. a + i - 1 = d + i /\ d + i \in 1 .. l
    BY <1>2
  <2> QED
    BY <1>4, <1>5, <2>1
<1> QED
  BY <1>2, <1>6, <1>7, <1>8 DEF Cut

-----------------------------------------------------------------------------
(* GuiPump: the inductive invariant.                                        *)

HasFrame(s) == \E k \in DOMAIN s : s[k].kind = "frame"

PumpShape ==
    /\ pump = [at |-> pump.at, current_g |-> pump.current_g, last_alive |-> pump.last_alive,
               first |-> pump.first, frame |-> pump.frame]
    /\ tiles = [ids |-> tiles.ids, of |-> tiles.of, name |-> tiles.name, tile |-> tiles.tile,
                dirty |-> tiles.dirty, prev |-> tiles.prev, hold |-> tiles.hold]
    /\ queue = [pending |-> queue.pending, queued |-> queue.queued]
    /\ qt = [closures |-> qt.closures, at |-> qt.at]
    /\ shown = [tile |-> shown.tile, name |-> shown.name, net |-> shown.net,
                disk |-> shown.disk, connected |-> shown.connected, by |-> shown.by]
    /\ IsSeq(qt.closures)

(* Whoever has to look at the pending frame: a closure that is queued, the  *)
(* Qt thread before it clears the flag, the pump about to queue a closure.  *)
Answerable == HasFrame(qt.closures) \/ qt.at = "finish" \/ pump.at = "queue"

(* The flag is up only while somebody is answerable, and a frame is pending *)
(* only then, or while a thread is between its two looks at the flag.       *)
FlagHeld == queue.queued => Answerable
FrameWatched == queue.pending.made => Answerable \/ pump.at = "swap" \/ qt.at \in {"look", "claim"}

(* Every static value the pump has is in the frame f, or on the screen. *)
FrameIsCurrent(f) ==
    \A i \in tiles.ids \cap Statics :
        tiles.tile[i].ts # 0 => i \in DOMAIN f.delta /\ f.delta[i] = tiles.tile[i].ts
ScreenIsCurrent ==
    \A i \in tiles.ids \cap Statics : tiles.tile[i].ts # 0 => shown.tile[i] = tiles.tile[i].ts

FramesCarryStatics ==
    /\ pump.at = "store" => pump.frame.made /\ FrameIsCurrent(pump.frame)
    /\ pump.at # "store" /\ queue.pending.made => FrameIsCurrent(queue.pending)
    /\ pump.at # "store" /\ ~queue.pending.made /\ shown.by = "frame" => ScreenIsCurrent

PumpInv == PumpShape /\ FlagHeld /\ FrameWatched /\ FramesCarryStatics

-----------------------------------------------------------------------------
(* Facts about sequences of closures and about the tile state.              *)

LEMMA AppendClosure ==
  ASSUME NEW s, IsSeq(s), NEW c
  PROVE  /\ IsSeq(Append(s, c))
         /\ HasFrame(s) => HasFrame(Append(s, c))
         /\ c.kind = "frame" => HasFrame(Append(s, c))
<1> DEFINE t == Append(s, c)
           n == Len(s)
<1>1. /\ IsSeq(t) /\ n \in Nat /\ DOMAIN s = 1 .. n /\ DOMAIN t = 1 .. (n + 1)
      /\ t[n + 1] = c /\ \A k \in 1 .. n : t[k] = s[k]
  BY AppendSeq
<1> HIDE DEF t, n
<1>2. HasFrame(s) => HasFrame(t)
  BY <1>1 DEF HasFrame
<1>3. c.kind = "frame" => HasFrame(t)
  BY <1>1 DEF HasFrame
<1> QED
  BY <1>1, <1>2, <1>3 DEF t

LEMMA TailClosures ==
  ASSUME NEW s, IsSeq(s), s # <<>>
  PROVE  /\ IsSeq(Tail(s))
         /\ HasFrame(s) /\ Head(s).kind # "frame" => HasFrame(Tail(s))
<1> DEFINE t == Tail(s)
           n == Len(s)
<1>1. /\ IsSeq(t) /\ n \in Nat \ {0} /\ DOMAIN s = 1 .. n /\ DOMAIN t = 1 .. (n - 1)
      /\ Head(s) = s[1] /\ \A k \in 1 .. (n - 1) : t[k] = s[k + 1]
  BY TailSeq
<1> HIDE DEF t, n
<1>2. ASSUME HasFrame(s), Head(s).kind # "frame" PROVE HasFrame(t)
  <2>1. PICK k \in 1 .. n : s[k].kind = "frame"
    BY <1>1, <1>2 DEF HasFrame
  <2>2. k # 1 /\ k - 1 \in 1 .. (n - 1) /\ t[k - 1] = s[k]
    BY <1>1, <1>2, <2>1
  <2> QED
    BY <1>1, <2>1, <2>2 DEF HasFrame
<1> QED
  BY <1>1, <1>2 DEF t

(* What every step but a drain and a rebuild does to the tiles: at most rename them. *)
TilesKept == /\ tiles'.ids = tiles.ids /\ tiles'.tile = tiles.tile

(* The state a drain renders its frame from, and what it leaves behind. *)
LEMMA SamplesKeepShape ==
  ASSUME PumpShape, NEW samples, NEW st, st = apply_sample(tiles, samples)
  PROVE  /\ st.ids = tiles.ids
         /\ st = [ids |-> st.ids, of |-> st.of, name |-> st.name, tile |-> st.tile,
                  dirty |-> st.dirty, prev |-> st.prev, hold |-> st.hold]
<1>1. PICK T, D : st = [tiles EXCEPT !.tile = T, !.dirty = D]
  BY DEF apply_sample
<1> QED
  BY <1>1 DEF PumpShape

LEMMA DrainedTiles ==
  ASSUME NEW st, NEW after, NEW P, NEW H,
         st = [ids |-> st.ids, of |-> st.of, name |-> st.name, tile |-> st.tile,
               dirty |-> st.dirty, prev |-> st.prev, hold |-> st.hold],
         after = [st EXCEPT !.dirty = {}, !.hold = H, !.prev = P]
  PROVE  /\ after.ids = st.ids /\ after.tile = st.tile
         /\ after = [ids |-> after.ids, of |-> after.of, name |-> after.name, tile |-> after.tile,
                     dirty |-> after.dirty, prev |-> after.prev, hold |-> after.hold]
OBVIOUS

-----------------------------------------------------------------------------
(* One lemma per action of the pump and of the Qt thread.                   *)

(* Actions that leave the queue, the frames and the screen alone. *)
LEMMA PumpElsewhere ==
  ASSUME PumpInv, UNCHANGED <<queue, shown, qt>>,
         TilesKept \/ \A i \in tiles'.ids : tiles'.tile[i].ts = 0,
         tiles' = [ids |-> tiles'.ids, of |-> tiles'.of, name |-> tiles'.name, tile |-> tiles'.tile,
                   dirty |-> tiles'.dirty, prev |-> tiles'.prev, hold |-> tiles'.hold],
         \/ UNCHANGED pump
         \/ /\ pump.at \notin {"store", "queue", "swap"} /\ pump'.at # "store"
            /\ pump' = [at |-> pump'.at, current_g |-> pump'.current_g, last_alive |-> pump'.last_alive,
                        first |-> pump'.first, frame |-> pump'.frame]
  PROVE  PumpInv'
<1>1. PumpShape'
  BY DEF PumpInv, PumpShape
<1>2. FlagHeld' /\ FrameWatched'
  BY DEF PumpInv, FlagHeld, FrameWatched, Answerable
<1>3. FramesCarryStatics'
  BY DEF PumpInv, FramesCarryStatics, FrameIsCurrent, ScreenIsCurrent, TilesKept
<1> QED
  BY <1>1, <1>2, <1>3 DEF PumpInv

LEMMA PumpReceivesInv ==
  ASSUME PumpInv, PumpReceives PROVE PumpInv'
<1> DEFINE s == Head(bridge)
<1>1. TilesKept /\ UNCHANGED <<queue, shown, qt, tiles>>
  BY DEF PumpReceives, TilesKept
<1>2. /\ tiles' = [ids |-> tiles'.ids, of |-> tiles'.of, name |-> tiles'.name, tile |-> tiles'.tile,
                   dirty |-> tiles'.dirty, prev |-> tiles'.prev, hold |-> tiles'.hold]
  BY <1>1 DEF PumpInv, PumpShape
<1>3. pump.at = "recv"
  BY DEF PumpReceives
<1>4. \/ UNCHANGED pump
      \/ pump' = [pump EXCEPT !.at = "rebuild", !.first = s, !.current_g = s.g]
      \/ pump' = [pump EXCEPT !.at = "alive", !.first = s]
  BY DEF PumpReceives
<1> HIDE DEF s
<1>5. \/ UNCHANGED pump
      \/ /\ pump'.at # "store"
         /\ pump' = [at |-> pump'.at, current_g |-> pump'.current_g, last_alive |-> pump'.last_alive,
                     first |-> pump'.first, frame |-> pump'.frame]
  BY <1>4 DEF PumpInv, PumpShape
<1> QED
  BY <1>1, <1>2, <1>3, <1>5, PumpElsewhere

(* Closures that carry no frame are appended without harm. *)
LEMMA ClosureQueued ==
  ASSUME PumpInv, UNCHANGED <<queue, shown>>, NEW c, qt' = Queued(qt, c),
         TilesKept \/ \A i \in tiles'.ids : tiles'.tile[i].ts = 0,
         tiles' = [ids |-> tiles'.ids, of |-> tiles'.of, name |-> tiles'.name, tile |-> tiles'.tile,
                   dirty |-> tiles'.dirty, prev |-> tiles'.prev, hold |-> tiles'.hold],
         pump' = [at |-> pump'.at, current_g |-> pump'.current_g, last_alive |-> pump'.last_alive,
                  first |-> pump'.first, frame |-> pump'.frame],
         \/ UNCHANGED pump
         \/ pump.at \notin {"store", "queue", "swap"} /\ pump'.at # "store"
         \/ pump.at = "queue" /\ c.kind = "frame" /\ pump'.at # "store"
  PROVE  PumpInv'
<1>1. qt' = [closures |-> Append(qt.closures, c), at |-> qt.at]
  BY DEF Queued, PumpInv, PumpShape
<1> DEFINE cs == Append(qt.closures, c)
<1>2. /\ IsSeq(cs) /\ (HasFrame(qt.closures) => HasFrame(cs))
      /\ (c.kind = "frame" => HasFrame(cs))
  BY AppendClosure DEF PumpInv, PumpShape
<1> HIDE DEF cs
<1>3. qt'.closures = cs /\ qt'.at = qt.at /\ qt' = [closures |-> qt'.closures, at |-> qt'.at]
  BY <1>1 DEF cs
<1>4. PumpShape'
  BY <1>2, <1>3 DEF PumpInv, PumpShape
<1>5. Answerable => Answerable'
  BY <1>2, <1>3 DEF Answerable
<1>6. pump.at = "swap" => pump'.at = "swap"
  OBVIOUS
<1>7. FlagHeld' /\ FrameWatched'
  BY <1>3, <1>5, <1>6 DEF PumpInv, FlagHeld, FrameWatched
<1>8. FramesCarryStatics'
  BY DEF PumpInv, FramesCarryStatics, FrameIsCurrent, ScreenIsCurrent, TilesKept
<1> QED
  BY <1>4, <1>7, <1>8 DEF PumpInv

LEMMA PumpRebuildsInv ==
  ASSUME PumpInv, PumpRebuilds PROVE PumpInv'
<1>1. UNCHANGED <<queue, shown, qt>> /\ pump.at = "rebuild"
  BY DEF PumpRebuilds, RestOfPump
<1>2. \A i \in tiles'.ids : tiles'.tile[i].ts = 0
  BY DEF PumpRebuilds, build_sample_state, NoTile
<1>3. tiles' = [ids |-> tiles'.ids, of |-> tiles'.of, name |-> tiles'.name, tile |-> tiles'.tile,
               dirty |-> tiles'.dirty, prev |-> tiles'.prev, hold |-> tiles'.hold]
  BY DEF PumpRebuilds, build_sample_state
<1>4. /\ pump' = [at |-> pump'.at, current_g |-> pump'.current_g, last_alive |-> pump'.last_alive,
                  first |-> pump'.first, frame |-> pump'.frame]
      /\ pump'.at = "reset"
  BY DEF PumpRebuilds, PumpInv, PumpShape
<1> QED
  BY <1>1, <1>2, <1>3, <1>4, PumpElsewhere

LEMMA PumpQueuesResetInv ==
  ASSUME PumpInv, PumpQueuesReset PROVE PumpInv'
<1> DEFINE c == Closure("reset", json)
<1>1. /\ UNCHANGED <<queue, shown, tiles>> /\ TilesKept
      /\ qt' = Queued(qt, c) /\ pump.at = "reset"
  BY DEF PumpQueuesReset, RestOfPump, TilesKept
<1> HIDE DEF c
<1>2. tiles' = [ids |-> tiles'.ids, of |-> tiles'.of, name |-> tiles'.name, tile |-> tiles'.tile,
               dirty |-> tiles'.dirty, prev |-> tiles'.prev, hold |-> tiles'.hold]
  BY <1>1 DEF PumpInv, PumpShape
<1>3. /\ pump' = [at |-> pump'.at, current_g |-> pump'.current_g, last_alive |-> pump'.last_alive,
                  first |-> pump'.first, frame |-> pump'.frame]
      /\ pump'.at = "alive"
  BY DEF PumpQueuesReset, PumpInv, PumpShape
<1> QED
  BY <1>1, <1>2, <1>3, ClosureQueued

LEMMA PumpShowsConnectedInv ==
  ASSUME PumpInv, PumpShowsConnected PROVE PumpInv'
<1> DEFINE c == Closure("connected", TRUE)
<1>1. /\ UNCHANGED <<queue, shown, tiles>> /\ TilesKept
      /\ (qt' = qt \/ qt' = Queued(qt, c)) /\ pump.at = "alive"
  BY DEF PumpShowsConnected, RestOfPump, TilesKept
<1> HIDE DEF c
<1>2. tiles' = [ids |-> tiles'.ids, of |-> tiles'.of, name |-> tiles'.name, tile |-> tiles'.tile,
               dirty |-> tiles'.dirty, prev |-> tiles'.prev, hold |-> tiles'.hold]
  BY <1>1 DEF PumpInv, PumpShape
<1>3. pump' = [pump EXCEPT !.at = "drain", !.last_alive = TRUE]
  BY DEF PumpShowsConnected
<1>4. /\ pump' = [at |-> pump'.at, current_g |-> pump'.current_g, last_alive |-> pump'.last_alive,
                  first |-> pump'.first, frame |-> pump'.frame]
      /\ pump'.at = "drain"
  BY <1>3 DEF PumpInv, PumpShape
<1>5. CASE qt' = qt
  BY <1>1, <1>2, <1>4, <1>5, PumpElsewhere
<1>6. CASE qt' = Queued(qt, c)
  BY <1>1, <1>2, <1>4, <1>6, ClosureQueued
<1> QED
  BY <1>1, <1>5, <1>6

LEMMA PumpTimesOutInv ==
  ASSUME PumpInv, PumpTimesOut PROVE PumpInv'
<1> DEFINE c == Closure("connected", up)
<1>1. /\ UNCHANGED <<queue, shown, tiles>> /\ TilesKept
      /\ qt' = Queued(qt, c) /\ pump.at = "recv"
  BY DEF PumpTimesOut, RestOfPump, TilesKept
<1> HIDE DEF c
<1>2. tiles' = [ids |-> tiles'.ids, of |-> tiles'.of, name |-> tiles'.name, tile |-> tiles'.tile,
               dirty |-> tiles'.dirty, prev |-> tiles'.prev, hold |-> tiles'.hold]
  BY <1>1 DEF PumpInv, PumpShape
<1>3. pump' = [pump EXCEPT !.last_alive = up]
  BY DEF PumpTimesOut
<1>4. /\ pump' = [at |-> pump'.at, current_g |-> pump'.current_g, last_alive |-> pump'.last_alive,
                  first |-> pump'.first, frame |-> pump'.frame]
      /\ pump'.at = "recv"
  BY <1>1, <1>3 DEF PumpInv, PumpShape
<1> QED
  BY <1>1, <1>2, <1>4, ClosureQueued

LEMMA QueueDrainInv ==
  ASSUME PumpInv, queue_sample_ui_drain PROVE PumpInv'
<1> DEFINE c == Closure("frame", NoFrame)
<1>1. /\ UNCHANGED <<queue, shown, tiles>> /\ TilesKept
      /\ qt' = Queued(qt, c) /\ pump.at = "queue"
  BY DEF queue_sample_ui_drain, RestOfPump, TilesKept
<1>2. c.kind = "frame"
  BY DEF Closure
<1> HIDE DEF c
<1>3. tiles' = [ids |-> tiles'.ids, of |-> tiles'.of, name |-> tiles'.name, tile |-> tiles'.tile,
               dirty |-> tiles'.dirty, prev |-> tiles'.prev, hold |-> tiles'.hold]
  BY <1>1 DEF PumpInv, PumpShape
<1>4. /\ pump' = [at |-> pump'.at, current_g |-> pump'.current_g, last_alive |-> pump'.last_alive,
                  first |-> pump'.first, frame |-> pump'.frame]
      /\ pump'.at = "recv"
  BY DEF queue_sample_ui_drain, PumpInv, PumpShape
<1> QED
  BY <1>1, <1>2, <1>3, <1>4, ClosureQueued

LEMMA PumpDrainsInv ==
  ASSUME PumpInv, PumpDrains PROVE PumpInv'
<1> DEFINE st == drain_into_state.st
           delta == take_dirty_tiles(st)
           samples == [k \in Taken |-> AtHand[k]]
<1>1. st = apply_sample(tiles, samples)
  BY DEF drain_into_state
<1>2. /\ pump.at = "drain" /\ UNCHANGED <<queue, shown, qt>>
      /\ \E P, H : tiles' = [st EXCEPT !.dirty = {}, !.hold = H, !.prev = P]
      /\ \E g, n, d : pump' = [pump EXCEPT !.at = "store", !.current_g = g,
                                !.frame = [made |-> TRUE, delta |-> [i \in delta |-> st.tile[i].ts],
                                           net |-> n, disk |-> d]]
  BY DEF PumpDrains
<1>3. \A i \in st.ids \cap Statics : st.tile[i].ts # 0 => i \in delta
  BY DEF take_dirty_tiles
<1> HIDE DEF st, samples
<1>4. /\ st.ids = tiles.ids
      /\ st = [ids |-> st.ids, of |-> st.of, name |-> st.name, tile |-> st.tile,
               dirty |-> st.dirty, prev |-> st.prev, hold |-> st.hold]
  BY <1>1, SamplesKeepShape DEF PumpInv
<1>5. /\ tiles'.ids = st.ids /\ tiles'.tile = st.tile
      /\ tiles' = [ids |-> tiles'.ids, of |-> tiles'.of, name |-> tiles'.name, tile |-> tiles'.tile,
                   dirty |-> tiles'.dirty, prev |-> tiles'.prev, hold |-> tiles'.hold]
  BY <1>2, <1>4, DrainedTiles
<1> HIDE DEF delta
<1>6. /\ pump' = [at |-> pump'.at, current_g |-> pump'.current_g, last_alive |-> pump'.last_alive,
                  first |-> pump'.first, frame |-> pump'.frame]
      /\ pump'.at = "store" /\ pump'.frame.made /\ pump'.frame.delta = [i \in delta |-> st.tile[i].ts]
  <2>1. PICK g, n, d : pump' = [pump EXCEPT !.at = "store", !.current_g = g,
                                !.frame = [made |-> TRUE, delta |-> [i \in delta |-> st.tile[i].ts],
                                           net |-> n, disk |-> d]]
    BY <1>2
  <2> DEFINE f == [made |-> TRUE, delta |-> [i \in delta |-> st.tile[i].ts], net |-> n, disk |-> d]
  <2>2. f.made /\ f.delta = [i \in delta |-> st.tile[i].ts]
    OBVIOUS
  <2>3. pump' = [pump EXCEPT !.at = "store", !.current_g = g, !.frame = f]
    BY <2>1
  <2> HIDE DEF f
  <2> QED
    BY <2>2, <2>3 DEF PumpInv, PumpShape
<1>7. FrameIsCurrent(pump.frame)'
  BY <1>3, <1>5, <1>6 DEF FrameIsCurrent
<1>8. PumpShape'
  BY <1>2, <1>5, <1>6 DEF PumpInv, PumpShape
<1>9. FlagHeld' /\ FrameWatched'
  BY <1>2, <1>6 DEF PumpInv, FlagHeld, FrameWatched, Answerable
<1> QED
  BY <1>6, <1>7, <1>8, <1>9 DEF PumpInv, FramesCarryStatics

LEMMA StoreInv ==
  ASSUME PumpInv, store PROVE PumpInv'
<1>1. /\ queue' = [pending |-> pump.frame, queued |-> queue.queued]
      /\ pump' = [pump EXCEPT !.at = "swap", !.frame = NoFrame]
      /\ UNCHANGED <<tiles, qt, shown>> /\ pump.at = "store"
  BY DEF store, PumpInv, PumpShape
<1>2. /\ pump' = [at |-> pump'.at, current_g |-> pump'.current_g, last_alive |-> pump'.last_alive,
                  first |-> pump'.first, frame |-> pump'.frame]
      /\ pump'.at = "swap"
  BY <1>1 DEF PumpInv, PumpShape
<1>3. PumpShape'
  BY <1>1, <1>2 DEF PumpInv, PumpShape
<1>4. FlagHeld' /\ FrameWatched'
  BY <1>1, <1>2 DEF PumpInv, FlagHeld, FrameWatched, Answerable
<1>5. FrameIsCurrent(queue.pending)'
  BY <1>1 DEF PumpInv, FramesCarryStatics, FrameIsCurrent
<1>6. queue'.pending.made
  BY <1>1 DEF PumpInv, FramesCarryStatics
<1> QED
  BY <1>2, <1>3, <1>4, <1>5, <1>6 DEF PumpInv, FramesCarryStatics


LEMMA StoreClaimsInv ==
  ASSUME PumpInv, StoreClaims PROVE PumpInv'
<1>1. /\ queue' = [pending |-> queue.pending, queued |-> TRUE]
      /\ UNCHANGED <<tiles, qt, shown>> /\ pump.at = "swap"
  BY DEF StoreClaims, PumpInv, PumpShape
<1>2. /\ pump' = [at |-> pump'.at, current_g |-> pump'.current_g, last_alive |-> pump'.last_alive,
                  first |-> pump'.first, frame |-> pump'.frame]
      /\ pump'.at = IF queue.queued THEN "recv" ELSE "queue"
  BY DEF StoreClaims, PumpInv, PumpShape
<1>3. PumpShape'
  BY <1>1, <1>2 DEF PumpInv, PumpShape
<1>4. Answerable'
  BY <1>1, <1>2 DEF PumpInv, FlagHeld, Answerable
<1>5. FramesCarryStatics'
  BY <1>1, <1>2 DEF PumpInv, FramesCarryStatics, FrameIsCurrent, ScreenIsCurrent
<1> QED
  BY <1>3, <1>4, <1>5 DEF PumpInv, FlagHeld, FrameWatched

(* What the Qt thread shows after a closure, and what it has at hand then. *)
LEMMA ClosureRun ==
  ASSUME PumpInv, QtRuns, NEW c, c = Head(qt.closures)
  PROVE  /\ shown' = [tile |-> shown'.tile, name |-> shown'.name, net |-> shown'.net,
                      disk |-> shown'.disk, connected |-> shown'.connected, by |-> shown'.by]
         /\ \/ c.kind # "frame" /\ shown'.by = "tiles"
            \/ shown'.tile = shown.tile /\ shown'.by = shown.by
               /\ (c.kind # "frame" \/ ~queue.pending.made)
            \/ /\ c.kind = "frame" /\ queue.pending.made
               /\ \A i \in DOMAIN queue.pending.delta : shown'.tile[i] = queue.pending.delta[i]
<1>1. shown = [tile |-> shown.tile, name |-> shown.name, net |-> shown.net,
               disk |-> shown.disk, connected |-> shown.connected, by |-> shown.by]
  BY DEF PumpInv, PumpShape
<1>2. CASE c.kind = "connected"
  <2>1. shown' = [shown EXCEPT !.connected = c.what]
    BY <1>2 DEF QtRuns
  <2> QED
    BY <1>1, <1>2, <2>1
<1>3. CASE c.kind = "frame" /\ queue.pending.made
  <2>1. shown' = apply_sample_ui_update(queue.pending)
    BY <1>3 DEF QtRuns
  <2>2. PICK n, d :
          shown' = [shown EXCEPT !.tile = [i \in DOMAIN shown.tile \cup DOMAIN queue.pending.delta |->
                                             IF i \in DOMAIN queue.pending.delta THEN queue.pending.delta[i]
                                             ELSE shown.tile[i]],
                                 !.net = n, !.disk = d, !.by = "frame"]
    BY <1>1, <2>1 DEF apply_sample_ui_update
  <2> QED
    BY <1>1, <1>3, <2>2
<1>4. CASE c.kind = "frame" /\ ~queue.pending.made
  <2>1. shown' = shown
    BY <1>4 DEF QtRuns
  <2> QED
    BY <1>1, <1>4, <2>1
<1>5. CASE c.kind \notin {"connected", "frame"}
  <2>1. PICK T, m, n, d :
          shown' = [shown EXCEPT !.tile = T, !.name = m, !.by = "tiles", !.net = n, !.disk = d]
    BY <1>5 DEF QtRuns
  <2> QED
    BY <1>1, <1>5, <2>1
<1> QED
  BY <1>2, <1>3, <1>4, <1>5

LEMMA QtRunsInv ==
  ASSUME PumpInv, QtRuns PROVE PumpInv'
<1> DEFINE c == Head(qt.closures)
<1>1. /\ UNCHANGED <<pump, tiles>> /\ qt.at = "idle" /\ qt.closures # <<>>
      /\ queue' = IF c.kind = "frame" THEN [queue EXCEPT !.pending = NoFrame] ELSE queue
      /\ qt' = [closures |-> Tail(qt.closures), at |-> IF c.kind = "frame" THEN "finish" ELSE "idle"]
  BY DEF QtRuns
<1>2. /\ IsSeq(Tail(qt.closures))
      /\ HasFrame(qt.closures) /\ c.kind # "frame" => HasFrame(Tail(qt.closures))
  BY <1>1, TailClosures DEF PumpInv, PumpShape
<1>3. /\ shown' = [tile |-> shown'.tile, name |-> shown'.name, net |-> shown'.net,
                   disk |-> shown'.disk, connected |-> shown'.connected, by |-> shown'.by]
      /\ \/ c.kind # "frame" /\ shown'.by = "tiles"
         \/ shown'.tile = shown.tile /\ shown'.by = shown.by
            /\ (c.kind # "frame" \/ ~queue.pending.made)
         \/ /\ c.kind = "frame" /\ queue.pending.made
            /\ \A i \in DOMAIN queue.pending.delta : shown'.tile[i] = queue.pending.delta[i]
  BY ClosureRun
<1> HIDE DEF c
<1>4. /\ queue' = [pending |-> queue'.pending, queued |-> queue.queued]
      /\ (c.kind = "frame" => ~queue'.pending.made) /\ (c.kind # "frame" => queue' = queue)
  BY <1>1 DEF PumpInv, PumpShape, NoFrame
<1>5. PumpShape'
  BY <1>1, <1>2, <1>3, <1>4 DEF PumpInv, PumpShape
<1>6. Answerable => Answerable'
  BY <1>1, <1>2 DEF Answerable
<1>7. FlagHeld' /\ FrameWatched'
  BY <1>1, <1>4, <1>6 DEF PumpInv, FlagHeld, FrameWatched
<1>8. CASE c.kind = "frame"
  <2>1. pump.at # "store" => (shown'.by = "frame" => ScreenIsCurrent')
    BY <1>1, <1>3, <1>8 DEF PumpInv, FramesCarryStatics, FrameIsCurrent, ScreenIsCurrent
  <2> QED
    BY <1>1, <1>4, <1>5, <1>7, <1>8, <2>1 DEF PumpInv, FramesCarryStatics, FrameIsCurrent
<1>9. CASE c.kind # "frame"
  <2>1. FramesCarryStatics'
    BY <1>1, <1>3, <1>4, <1>9 DEF PumpInv, FramesCarryStatics, FrameIsCurrent, ScreenIsCurrent
  <2> QED
    BY <1>5, <1>7, <2>1 DEF PumpInv
<1> QED
  BY <1>8, <1>9

LEMMA FinishClearsInv ==
  ASSUME PumpInv, FinishClears PROVE PumpInv'
<1>1. /\ queue' = [pending |-> queue.pending, queued |-> FALSE]
      /\ qt' = [closures |-> qt.closures, at |-> "look"]
      /\ UNCHANGED <<tiles, pump, shown>>
  BY DEF FinishClears, PumpInv, PumpShape
<1>2. PumpShape'
  BY <1>1 DEF PumpInv, PumpShape
<1>3. FlagHeld' /\ FrameWatched'
  BY <1>1 DEF FlagHeld, FrameWatched
<1>4. FramesCarryStatics'
  BY <1>1 DEF PumpInv, FramesCarryStatics, FrameIsCurrent, ScreenIsCurrent
<1> QED
  BY <1>2, <1>3, <1>4 DEF PumpInv

LEMMA FinishLooksInv ==
  ASSUME PumpInv, FinishLooks PROVE PumpInv'
<1>1. /\ qt' = [closures |-> qt.closures, at |-> IF queue.pending.made THEN "claim" ELSE "idle"]
      /\ qt.at = "look" /\ UNCHANGED <<tiles, pump, shown, queue>>
  BY DEF FinishLooks, RestOfPump, PumpInv, PumpShape
<1>2. PumpShape'
  BY <1>1 DEF PumpInv, PumpShape
<1>3. FlagHeld' /\ FrameWatched'
  BY <1>1 DEF PumpInv, FlagHeld, FrameWatched, Answerable
<1>4. FramesCarryStatics'
  BY <1>1 DEF PumpInv, FramesCarryStatics, FrameIsCurrent, ScreenIsCurrent
<1> QED
  BY <1>2, <1>3, <1>4 DEF PumpInv

LEMMA FinishClaimsInv ==
  ASSUME PumpInv, FinishClaims PROVE PumpInv'
<1> DEFINE c == Closure("frame", NoFrame)
           cs == Append(qt.closures, c)
<1>1. c.kind = "frame"
  BY DEF Closure
<1>2. /\ queue' = [pending |-> queue.pending, queued |-> TRUE]
      /\ qt.at = "claim" /\ UNCHANGED <<tiles, pump, shown>>
  BY DEF FinishClaims, PumpInv, PumpShape
<1>3. CASE queue.queued
  <2>1. qt' = [closures |-> qt.closures, at |-> "idle"]
    BY <1>3 DEF FinishClaims, PumpInv, PumpShape
  <2>2. PumpShape' /\ FramesCarryStatics'
    BY <1>2, <2>1 DEF PumpInv, PumpShape, FramesCarryStatics, FrameIsCurrent, ScreenIsCurrent
  <2>3. Answerable'
    BY <1>2, <1>3, <2>1 DEF PumpInv, FlagHeld, Answerable
  <2> QED
    BY <2>2, <2>3 DEF PumpInv, FlagHeld, FrameWatched
<1>4. CASE ~queue.queued
  <2>1. PICK q : q = Queued(qt, c) /\ qt' = [q EXCEPT !.at = "idle"]
    BY <1>4 DEF FinishClaims
  <2>2. q = [closures |-> cs, at |-> qt.at]
    BY <2>1 DEF Queued, PumpInv, PumpShape
  <2>3. IsSeq(cs) /\ HasFrame(cs)
    BY <1>1, AppendClosure DEF PumpInv, PumpShape
  <2> HIDE DEF c, cs
  <2>4. qt' = [closures |-> cs, at |-> "idle"]
    BY <2>1, <2>2
  <2>5. PumpShape' /\ FramesCarryStatics'
    BY <1>2, <2>3, <2>4 DEF PumpInv, PumpShape, FramesCarryStatics, FrameIsCurrent, ScreenIsCurrent
  <2>6. Answerable'
    BY <2>3, <2>4 DEF Answerable
  <2> QED
    BY <2>5, <2>6 DEF PumpInv, FlagHeld, FrameWatched
<1> QED
  BY <1>3, <1>4

LEMMA RefresherRenamesInv ==
  ASSUME PumpInv, RefresherRenames PROVE PumpInv'
<1>1. UNCHANGED <<queue, shown, pump, qt>>
  BY DEF RefresherRenames, RestOfPump
<1>2. PICK m : tiles' = [tiles EXCEPT !.name = m]
  BY DEF RefresherRenames
<1>3. /\ TilesKept
      /\ tiles' = [ids |-> tiles'.ids, of |-> tiles'.of, name |-> tiles'.name, tile |-> tiles'.tile,
                   dirty |-> tiles'.dirty, prev |-> tiles'.prev, hold |-> tiles'.hold]
  BY <1>2 DEF TilesKept, PumpInv, PumpShape
<1> QED
  BY <1>1, <1>3, PumpElsewhere

LEMMA RefresherQueuesInv ==
  ASSUME PumpInv, RefresherQueues PROVE PumpInv'
<1> DEFINE c == Closure("tiles", refresher.json)
<1>1. UNCHANGED <<queue, shown, pump, tiles>> /\ TilesKept /\ qt' = Queued(qt, c)
  BY DEF RefresherQueues, RestOfPump, TilesKept
<1> HIDE DEF c
<1>2. /\ tiles' = [ids |-> tiles'.ids, of |-> tiles'.of, name |-> tiles'.name, tile |-> tiles'.tile,
                   dirty |-> tiles'.dirty, prev |-> tiles'.prev, hold |-> tiles'.hold]
      /\ pump' = [at |-> pump'.at, current_g |-> pump'.current_g, last_alive |-> pump'.last_alive,
                  first |-> pump'.first, frame |-> pump'.frame]
  BY <1>1 DEF PumpInv, PumpShape
<1> QED
  BY <1>1, <1>2, ClosureQueued

LEMMA PumpStepInv == PumpInv /\ [GuiPumpNext]_pumpVars => PumpInv'
<1> SUFFICES ASSUME PumpInv, [GuiPumpNext]_pumpVars PROVE PumpInv'
  OBVIOUS
<1>1. CASE UNCHANGED <<pump, tiles, queue, qt, shown>>
  BY <1>1, PumpElsewhere DEF TilesKept, PumpInv, PumpShape
<1>2. ASSUME NEW g, NEW id, NEW raw, Forward(g, id, raw) \/ RefresherReceives(g) PROVE PumpInv'
  BY <1>1, <1>2 DEF Forward, RefresherReceives, RestOfPump
<1>3. ASSUME NEW on, set_process_stream_enabled(on) PROVE PumpInv'
  BY <1>1, <1>3 DEF set_process_stream_enabled, RestOfPump
<1>4. CASE WorkspaceReconnects \/ ConnectionDies
  BY <1>1, <1>4 DEF WorkspaceReconnects, ConnectionDies
<1>5. CASE UNCHANGED pumpVars
  BY <1>1, <1>5 DEF pumpVars
<1>6. CASE GuiPumpNext
  BY <1>2, <1>3, <1>4, <1>6, PumpReceivesInv, PumpRebuildsInv, PumpQueuesResetInv,
     PumpShowsConnectedInv, PumpDrainsInv, StoreInv, StoreClaimsInv, QueueDrainInv, PumpTimesOutInv, QtRunsInv, FinishClearsInv,
     FinishLooksInv, FinishClaimsInv, RefresherRenamesInv, RefresherQueuesInv, Zenon DEF GuiPumpNext
<1> QED
  BY <1>5, <1>6

LEMMA PumpInitInv == GuiPumpInit => PumpInv
<1> SUFFICES ASSUME GuiPumpInit PROVE PumpInv
  OBVIOUS
<1>1. /\ pump.at = "recv" /\ ~queue.queued /\ ~queue.pending.made /\ shown.by = "tiles"
      /\ qt.closures = <<>>
  BY DEF GuiPumpInit, NoFrame
<1>2. IsSeq(qt.closures)
  <2>1. <<>> \in Seq({})
    OBVIOUS
  <2> QED
    BY <1>1, <2>1, SeqIsSeq
<1>3. PumpShape
  BY <1>2 DEF GuiPumpInit, PumpShape, build_sample_state
<1> QED
  BY <1>1, <1>3 DEF PumpInv, FlagHeld, FrameWatched, FramesCarryStatics

(***************************************************************************)
(* For any hosts, ids and numbers of samples: the queue of one frame loses  *)
(* no static value on its way to QML, though the pump overwrites frames and *)
(* the flag passes between the threads without a lock (overview_model.rs:   *)
(* CoalescedSampleUiQueue, take_dirty_tiles).                               *)
(***************************************************************************)
THEOREM StaticsAlwaysReachTheScreen == GuiPumpSpec => []StaticsReachTheScreen
<1>1. ASSUME PumpInv PROVE StaticsReachTheScreen
  <2> SUFFICES ASSUME Quiet, shown.by = "frame" PROVE ScreenIsCurrent
    BY DEF StaticsReachTheScreen, ScreenIsCurrent
  <2>1. qt.closures = <<>> /\ qt.at = "idle" /\ pump.at = "recv"
    BY DEF Quiet
  <2>2. ~HasFrame(qt.closures)
    BY <2>1 DEF HasFrame
  <2>3. ~queue.pending.made
    BY <1>1, <2>1, <2>2 DEF PumpInv, FrameWatched, Answerable
  <2> QED
    BY <1>1, <2>1, <2>3 DEF PumpInv, FramesCarryStatics
<1> QED
  BY <1>1, PumpInitInv, PumpStepInv, PTL DEF GuiPumpSpec

-----------------------------------------------------------------------------
(* GuiModels: the inductive invariant.                                      *)

Fields == {"rules", "test", "events", "points", "devices"}

CallShape(r) ==
    /\ r = [inv |-> r.inv, client |-> r.client, at |-> r.at, step |-> r.step, id |-> r.id,
            ok |-> r.ok, what |-> r.what]
    /\ r.inv \in Invocations /\ r.client \in 1 .. MaxClients /\ r.id \in Nat
    /\ r.ok \in BOOLEAN
    /\ r.step = 1 \/ (r.step = 2 /\ r.inv.op \in Changes)

PageShape(r) ==
    /\ r = [newest |-> r.newest, loading |-> r.loading, error |-> r.error, shown |-> r.shown]
    /\ r.newest \in Nat /\ r.loading \in BOOLEAN
    /\ r.shown = [f \in Fields |-> r.shown[f]]

ConnShape(r) ==
    /\ r = [up |-> r.up, next |-> r.next, inflight |-> r.inflight, wire |-> r.wire,
            answers |-> r.answers]
    /\ r.up \in BOOLEAN /\ r.next \in Nat
    /\ IsSeq(r.wire) /\ \A n \in DOMAIN r.wire : r.wire[n].id \in Nat
    /\ IsSeq(r.answers)
    /\ \A n \in DOMAIN r.answers : r.answers[n].id \in Nat /\ r.answers[n].ok \in BOOLEAN

ModelShape ==
    /\ IsSeq(calls) /\ \A k \in DOMAIN calls : CallShape(calls[k])
    /\ page = [m \in Models |-> page[m]] /\ \A m \in Models : PageShape(page[m])
    /\ conn = [c \in 1 .. MaxClients |-> conn[c]] /\ \A c \in 1 .. MaxClients : ConnShape(conn[c])
    /\ current \in 1 .. MaxClients
    /\ peer \in [1 .. MaxClients -> 1 .. MaxClients] /\ version \in [1 .. MaxClients -> Nat]

(* What the daemon of a client knows, which it never forgets. *)
Known(c) == version[peer[c]]
Learned ==
    /\ peer' = peer /\ version' \in [1 .. MaxClients -> Nat]
    /\ \A h \in 1 .. MaxClients : version[h] <= version'[h]

(* Clients not yet made are up. *)
ClientsInOrder == \A c \in 1 .. MaxClients : c > current => conn[c].up

(* What an answer to an invokable has to be; and one to the step call k is at. *)
Right(i, what) ==
    /\ i.op \in {"points", "test"} => what = i.arg
    /\ i.op \in Changes => what > 0
Fits(k, what) ==
    IF calls[k].step < Len(Plan(calls[k].inv.op)) THEN Known(calls[k].client) > 0
    ELSE Right(calls[k].inv, what)

Waits(k, c, id) == calls[k].client = c /\ calls[k].at = "awaiting" /\ calls[k].id = id

CallSound(k) ==
    /\ calls[k].step = 2 => Known(calls[k].client) > 0
    /\ calls[k].at = "awaiting" => calls[k].id < conn[calls[k].client].next
    /\ calls[k].at \in {"queued", "done"} /\ calls[k].ok => Right(calls[k].inv, calls[k].what)

(* A request or an answer belongs to the call that waits under its id. *)
RequestSound(c, r) ==
    /\ r.id < conn[c].next
    /\ \A k \in DOMAIN calls : Waits(k, c, r.id) =>
           r.inv = calls[k].inv /\ r.call = Plan(calls[k].inv.op)[calls[k].step]
AnswerSound(c, a) ==
    /\ a.id < conn[c].next
    /\ \A k \in DOMAIN calls : Waits(k, c, a.id) /\ a.ok => Fits(k, a.what)

ConnSound(c) ==
    /\ \A n \in DOMAIN conn[c].wire : RequestSound(c, conn[c].wire[n])
    /\ \A n \in DOMAIN conn[c].answers : AnswerSound(c, conn[c].answers[n])

(* The in-flight table of a client: who waits, each under an id of its own. *)
TableSound(c) ==
    /\ \A id \in conn[c].inflight : \E k \in DOMAIN calls : Waits(k, c, id)
    /\ \A k \in DOMAIN calls : calls[k].client = c /\ calls[k].at = "awaiting" =>
           calls[k].id \in conn[c].inflight
    /\ \A j, k \in DOMAIN calls : Waits(j, c, calls[k].id) /\ Waits(k, c, calls[k].id) => j = k

(* A page and its newest request. *)
PageSound(m) ==
    LET p == page[m]
        k == p.newest
    IN  /\ k # 0 => k \in DOMAIN calls /\ calls[k].inv.model = m
        /\ k # 0 /\ ~p.loading =>
              /\ calls[k].at = "done"
              /\ \/ ~calls[k].ok /\ (p.error \/ calls[k].inv.op = "test")
                 \/ /\ p.shown[Field(calls[k].inv.op)].from = k
                    /\ calls[k].inv.op \in Changes => p.shown[Field(calls[k].inv.op)].what > 0
        /\ m = "history" /\ p.shown["points"] # Blank =>
              k # 0 /\ p.shown["points"].what = calls[k].inv.arg

ModelsInv ==
    /\ ModelShape /\ ClientsInOrder
    /\ \A k \in DOMAIN calls : CallSound(k)
    /\ \A c \in 1 .. MaxClients : ConnSound(c) /\ TableSound(c)
    /\ \A m \in Models : PageSound(m)

-----------------------------------------------------------------------------
(* Facts about the operations, and what a step leaves alone.                *)

LEMMA OpFacts ==
  /\ \A i \in Invocations : /\ i.model \in Models /\ Field(i.op) \in Fields
                            /\ i.model = "history" => i.op = "points"
                            /\ Field(i.op) = "test" => i.op = "test"
                            /\ i.op = "test" => Field(i.op) = "test"
                            /\ i.op = "points" => Field(i.op) = "points"
                            /\ Field(i.op) = "points" => i.op = "points"
  /\ "points" \notin Changes /\ "test" \notin Changes
  /\ \A op \in Changes : Len(Plan(op)) = 2 /\ Plan(op)[1] = "change" /\ Plan(op)[2] = "read"
  /\ \A op : op \notin Changes => Len(Plan(op)) = 1 /\ Plan(op)[1] = "read"
<1>1. "points" \notin Changes /\ "test" \notin Changes
  BY DEF Changes
<1>2. \A op \in Changes : Len(Plan(op)) = 2 /\ Plan(op)[1] = "change" /\ Plan(op)[2] = "read"
  BY DEF Plan
<1>3. \A op : op \notin Changes => Len(Plan(op)) = 1 /\ Plan(op)[1] = "read"
  BY DEF Plan
<1>4. ASSUME NEW i \in Invocations
      PROVE  /\ i.model \in Models /\ Field(i.op) \in Fields
             /\ i.model = "history" => i.op = "points"
             /\ Field(i.op) = "test" => i.op = "test"
             /\ i.op = "test" => Field(i.op) = "test"
             /\ i.op = "points" => Field(i.op) = "points"
             /\ Field(i.op) = "points" => i.op = "points"
  <2>1. i.model \in Models /\ i.op \in Invokable[i.model]
    BY GuiModelsAssumption DEF Models
  <2>2. i.op \in {"list", "upsert", "delete", "test", "events", "points", "inventory", "nickname"}
    BY <2>1 DEF Invokable, Models
  <2>3. i.model = "history" => i.op = "points"
    BY <2>1 DEF Invokable
  <2> QED
    BY <2>1, <2>2, <2>3 DEF Field, Fields
<1> QED
  BY <1>1, <1>2, <1>3, <1>4

(* One call changes. *)
LEMMA OneCall ==
  ASSUME ModelShape, NEW k \in DOMAIN calls, NEW r, CallShape(r), calls' = [calls EXCEPT ![k] = r]
  PROVE  /\ IsSeq(calls)' /\ DOMAIN calls' = DOMAIN calls
         /\ \A j \in DOMAIN calls' : CallShape(calls'[j])
         /\ calls'[k] = r /\ \A j \in DOMAIN calls : j # k => calls'[j] = calls[j]
<1>1. /\ IsSeq(calls') /\ DOMAIN calls' = DOMAIN calls
      /\ calls'[k] = r /\ \A j \in DOMAIN calls : j # k => calls'[j] = calls[j]
  BY ReplacedSeq DEF ModelShape
<1>2. \A j \in DOMAIN calls' : CallShape(calls'[j])
  BY <1>1 DEF ModelShape
<1> QED
  BY <1>1, <1>2 DEF IsSeq

(* What was known stays known. *)
LEMMA StillKnown ==
  ASSUME ModelsInv, Learned \/ UNCHANGED <<peer, version>>, NEW c \in 1 .. MaxClients
  PROVE  /\ Known(c) \in Nat /\ Known(c)' \in Nat /\ Known(c) <= Known(c)'
         /\ peer' \in [1 .. MaxClients -> 1 .. MaxClients]
         /\ version' \in [1 .. MaxClients -> Nat]
<1>1. /\ peer \in [1 .. MaxClients -> 1 .. MaxClients]
      /\ version \in [1 .. MaxClients -> Nat]
  BY DEF ModelsInv, ModelShape
<1>2. /\ peer' = peer /\ version' \in [1 .. MaxClients -> Nat]
      /\ \A h \in 1 .. MaxClients : version[h] <= version'[h]
  <2>1. CASE Learned
    BY <2>1 DEF Learned
  <2>2. CASE UNCHANGED <<peer, version>>
    <3>1. peer' = peer /\ version' = version
      BY <2>2
    <3> QED
      BY <1>1, <3>1
  <2> QED
    BY <2>1, <2>2
<1> QED
  BY <1>1, <1>2 DEF Known

(* A client whose waiters, table and socket stay as they are. *)
LEMMA ConnKept ==
  ASSUME ModelsInv, NEW c \in 1 .. MaxClients,
         conn'[c].wire = conn[c].wire, conn'[c].answers = conn[c].answers,
         conn'[c].inflight = conn[c].inflight,
         conn'[c].next \in Nat, conn[c].next <= conn'[c].next,
         Learned \/ UNCHANGED <<peer, version>>,
         \A k \in DOMAIN calls' : calls'[k].client = c /\ calls'[k].at = "awaiting" =>
             k \in DOMAIN calls /\ calls'[k] = calls[k],
         \A k \in DOMAIN calls : calls[k].client = c /\ calls[k].at = "awaiting" =>
             k \in DOMAIN calls' /\ calls'[k] = calls[k]
  PROVE  ConnSound(c)' /\ TableSound(c)'
<1>1. /\ ConnSound(c) /\ TableSound(c) /\ conn[c].next \in Nat
      /\ Known(c) \in Nat /\ Known(c)' \in Nat /\ Known(c) <= Known(c)'
      /\ \A n \in DOMAIN conn[c].wire : conn[c].wire[n].id \in Nat
      /\ \A n \in DOMAIN conn[c].answers : conn[c].answers[n].id \in Nat
  BY StillKnown DEF ModelsInv, ModelShape, ConnShape
<1>2. \A id : \A k \in DOMAIN calls' : Waits(k, c, id)' => k \in DOMAIN calls /\ Waits(k, c, id) /\ calls'[k] = calls[k]
  BY DEF Waits
<1>3. \A id : \A k \in DOMAIN calls : Waits(k, c, id) => k \in DOMAIN calls' /\ Waits(k, c, id)' /\ calls'[k] = calls[k]
  BY DEF Waits
<1>4. ASSUME NEW n \in DOMAIN conn[c].wire PROVE RequestSound(c, conn[c].wire[n])'
  <2>1. RequestSound(c, conn[c].wire[n])
    BY <1>1 DEF ConnSound
  <2> QED
    BY <1>1, <1>2, <2>1 DEF RequestSound
<1>5. ASSUME NEW n \in DOMAIN conn[c].answers PROVE AnswerSound(c, conn[c].answers[n])'
  <2>1. AnswerSound(c, conn[c].answers[n])
    BY <1>1 DEF ConnSound
  <2> QED
    BY <1>1, <1>2, <2>1 DEF AnswerSound, Fits, Waits
<1>6. TableSound(c)'
  BY <1>1, <1>2, <1>3 DEF TableSound, Waits
<1> QED
  BY <1>4, <1>5, <1>6 DEF ConnSound

(* Pages stay as they are while their newest request has not been applied. *)
LEMMA PagesKept ==
  ASSUME ModelsInv, page' = page,
         \A k \in DOMAIN calls : k \in DOMAIN calls' /\ calls'[k].inv = calls[k].inv
                                 /\ (calls[k].at = "done" => calls'[k] = calls[k])
  PROVE  \A m \in Models : PageSound(m)'
<1> SUFFICES ASSUME NEW m \in Models PROVE PageSound(m)'
  OBVIOUS
<1>1. PageSound(m)
  BY DEF ModelsInv
<1> QED
  BY <1>1 DEF PageSound

-----------------------------------------------------------------------------
(* One lemma per action.                                                    *)

PagesFit == /\ page = [m \in Models |-> page[m]]
            /\ \A m \in Models : PageShape(page[m]) /\ PageSound(m)

LEMMA PagesStillFit ==
  ASSUME ModelsInv, page' = page,
         \A k \in DOMAIN calls : k \in DOMAIN calls' /\ calls'[k].inv = calls[k].inv
                                 /\ (calls[k].at = "done" => calls'[k] = calls[k])
  PROVE  PagesFit'
<1>1. \A m \in Models : PageSound(m)'
  BY PagesKept
<1> QED
  BY <1>1 DEF PagesFit, ModelsInv, ModelShape

(* A worker moves on without an answer. *)
LEMMA CallMoves ==
  ASSUME ModelsInv, NEW k \in DOMAIN calls, NEW r, CallShape(r), calls' = [calls EXCEPT ![k] = r],
         calls[k].at # "awaiting", r.at # "awaiting", r.step = calls[k].step,
         r.client = calls[k].client,
         r.at \in {"queued", "done"} /\ r.ok => Right(r.inv, r.what),
         conn' = [c \in 1 .. MaxClients |-> conn'[c]],
         \A c \in 1 .. MaxClients : /\ ConnShape(conn'[c]) /\ conn[c].next <= conn'[c].next
                                    /\ conn'[c].wire = conn[c].wire
                                    /\ conn'[c].answers = conn[c].answers
                                    /\ conn'[c].inflight = conn[c].inflight
                                    /\ conn'[c].up = conn[c].up,
         UNCHANGED <<current, peer, version>>, PagesFit'
  PROVE  ModelsInv'
<1> USE DEF ModelsInv
<1>1. /\ IsSeq(calls)' /\ DOMAIN calls' = DOMAIN calls
      /\ \A j \in DOMAIN calls' : CallShape(calls'[j])
      /\ calls'[k] = r /\ \A j \in DOMAIN calls : j # k => calls'[j] = calls[j]
  BY OneCall
<1>2. ModelShape'
  BY <1>1 DEF ModelShape, PagesFit
<1>3. ClientsInOrder'
  BY DEF ClientsInOrder, ModelShape
<1>4. ASSUME NEW c \in 1 .. MaxClients PROVE ConnSound(c)' /\ TableSound(c)'
  <2>1. conn'[c].next \in Nat
    BY DEF ConnShape
  <2>2. /\ \A j \in DOMAIN calls' : calls'[j].client = c /\ calls'[j].at = "awaiting" =>
               j \in DOMAIN calls /\ calls'[j] = calls[j]
        /\ \A j \in DOMAIN calls : calls[j].client = c /\ calls[j].at = "awaiting" =>
               j \in DOMAIN calls' /\ calls'[j] = calls[j]
    BY <1>1
  <2> QED
    BY <2>1, <2>2, ConnKept
<1>5. ASSUME NEW j \in DOMAIN calls' PROVE CallSound(j)'
  <2>1. CallSound(j) /\ CallSound(k) /\ CallShape(calls[j])
    BY <1>1 DEF ModelShape
  <2>2. /\ conn[calls[j].client].next <= conn'[calls[j].client].next
        /\ conn[calls[j].client].next \in Nat /\ conn'[calls[j].client].next \in Nat
        /\ calls[j].id \in Nat
    BY <2>1 DEF CallShape, ModelShape, ConnShape
  <2>3. CASE j = k
    BY <1>1, <2>1, <2>3 DEF CallSound, Known
  <2>4. CASE j # k
    <3>1. calls'[j] = calls[j] /\ Known(calls[j].client)' = Known(calls[j].client)
      BY <1>1, <2>4 DEF Known
    <3> QED
      BY <2>1, <2>2, <3>1 DEF CallSound
  <2> QED
    BY <2>3, <2>4
<1> QED
  BY <1>2, <1>3, <1>4, <1>5 DEF PagesFit

LEMMA ConnSame ==
  ASSUME ModelsInv, conn' = conn
  PROVE  /\ conn' = [c \in 1 .. MaxClients |-> conn'[c]]
         /\ \A c \in 1 .. MaxClients : /\ ConnShape(conn'[c]) /\ conn[c].next <= conn'[c].next
                                       /\ conn'[c].wire = conn[c].wire
                                       /\ conn'[c].answers = conn[c].answers
                                       /\ conn'[c].inflight = conn[c].inflight
                                       /\ conn'[c].up = conn[c].up
<1>1. \A c \in 1 .. MaxClients : conn[c].next \in Nat
  BY DEF ModelsInv, ModelShape, ConnShape
<1> QED
  BY <1>1 DEF ModelsInv, ModelShape

LEMMA AcquireInv ==
  ASSUME ModelsInv, NEW k \in DOMAIN calls, acquire_rpc_slot(k) PROVE ModelsInv'
<1>1. PICK r : r = [calls[k] EXCEPT !.at = "sending"] /\ calls' = [calls EXCEPT ![k] = r]
  BY DEF acquire_rpc_slot
<1>2. CallShape(calls[k]) /\ calls[k].at = "waiting" /\ UNCHANGED <<page, conn, current, peer, version>>
  BY DEF ModelsInv, ModelShape, acquire_rpc_slot
<1>3. /\ CallShape(r) /\ r.at = "sending" /\ r.step = calls[k].step /\ r.inv = calls[k].inv
      /\ r.client = calls[k].client
  BY <1>1, <1>2 DEF CallShape
<1>4. PagesFit'
  BY <1>1, <1>2, <1>3, OneCall, PagesStillFit DEF ModelsInv
<1> QED
  BY <1>1, <1>2, <1>3, <1>4, ConnSame, CallMoves

(* The write of a request fails: its id is spent. *)
LEMMA RequestUnsentInv ==
  ASSUME ModelsInv, NEW k \in DOMAIN calls, request_rpc(k), ~conn[calls[k].client].up
  PROVE  ModelsInv'
<1> DEFINE c == calls[k].client
<1>1. PICK r : r = [calls[k] EXCEPT !.at = "queued", !.ok = FALSE, !.what = "send"]
               /\ calls' = [calls EXCEPT ![k] = r]
  BY DEF request_rpc, Returned
<1>2. /\ CallShape(calls[k]) /\ calls[k].at = "sending" /\ UNCHANGED <<page, current, peer, version>>
      /\ c \in 1 .. MaxClients /\ conn' = [conn EXCEPT ![c].next = @ + 1]
  BY DEF ModelsInv, ModelShape, request_rpc, CallShape
<1>3. /\ CallShape(r) /\ r.at = "queued" /\ ~r.ok
      /\ r.step = calls[k].step /\ r.inv = calls[k].inv /\ r.client = calls[k].client
  BY <1>1, <1>2 DEF CallShape
<1>4. PagesFit'
  BY <1>1, <1>2, <1>3, OneCall, PagesStillFit DEF ModelsInv
<1> HIDE DEF c
<1>5. PICK q : q = [conn[c] EXCEPT !.next = @ + 1] /\ conn' = [conn EXCEPT ![c] = q]
  BY <1>2 DEF ModelsInv, ModelShape
<1>6. \A d \in 1 .. MaxClients : ConnShape(conn[d]) /\ conn[d].next \in Nat
  BY DEF ModelsInv, ModelShape, ConnShape
<1>7. /\ ConnShape(q) /\ q.next = conn[c].next + 1 /\ q.wire = conn[c].wire
      /\ q.answers = conn[c].answers /\ q.inflight = conn[c].inflight /\ q.up = conn[c].up
  <2> DEFINE p == conn[c]
  <2>1. ConnShape(p) /\ q = [p EXCEPT !.next = @ + 1]
    BY <1>2, <1>5, <1>6
  <2> HIDE DEF p
  <2>2. p = [up |-> p.up, next |-> p.next, inflight |-> p.inflight, wire |-> p.wire,
             answers |-> p.answers]
    BY <2>1 DEF ConnShape
  <2>3. q = [up |-> p.up, next |-> p.next + 1, inflight |-> p.inflight, wire |-> p.wire,
             answers |-> p.answers]
    BY <2>1, <2>2
  <2> QED
    BY <2>1, <2>3 DEF ConnShape, p
<1>8. /\ conn' = [d \in 1 .. MaxClients |-> conn'[d]]
      /\ conn'[c] = q /\ \A d \in 1 .. MaxClients : d # c => conn'[d] = conn[d]
  BY <1>2, <1>5 DEF ModelsInv, ModelShape
<1>9. ASSUME NEW d \in 1 .. MaxClients
      PROVE  /\ ConnShape(conn'[d]) /\ conn[d].next <= conn'[d].next
             /\ conn'[d].wire = conn[d].wire /\ conn'[d].answers = conn[d].answers
             /\ conn'[d].inflight = conn[d].inflight /\ conn'[d].up = conn[d].up
  BY <1>6, <1>7, <1>8
<1> QED
  BY <1>1, <1>2, <1>3, <1>4, <1>8, <1>9, CallMoves
(* Call k and its client change. *)
LEMMA CallAndConn ==
  ASSUME ModelsInv, NEW k \in DOMAIN calls, NEW r, CallShape(r), calls' = [calls EXCEPT ![k] = r],
         NEW c, c = calls[k].client, r.client = c, r.inv = calls[k].inv, calls[k].at # "done",
         NEW q, ConnShape(q), conn' = [conn EXCEPT ![c] = q], q.up = conn[c].up,
         conn[c].next <= q.next, UNCHANGED <<page, current, peer, version>>,
         CallSound(k)', ConnSound(c)', TableSound(c)'
  PROVE  ModelsInv'
<1>1. /\ IsSeq(calls)' /\ DOMAIN calls' = DOMAIN calls
      /\ \A j \in DOMAIN calls' : CallShape(calls'[j])
      /\ calls'[k] = r /\ \A j \in DOMAIN calls : j # k => calls'[j] = calls[j]
  BY OneCall DEF ModelsInv
<1>2. /\ conn' = [d \in 1 .. MaxClients |-> conn'[d]] /\ c \in 1 .. MaxClients
      /\ conn'[c] = q /\ \A d \in 1 .. MaxClients : d # c => conn'[d] = conn[d]
  BY DEF ModelsInv, ModelShape, CallShape
<1>3. PagesFit'
  BY <1>1, PagesStillFit
<1>4. ModelShape'
  BY <1>1, <1>2, <1>3 DEF ModelsInv, ModelShape, PagesFit
<1>5. ClientsInOrder'
  BY <1>2 DEF ModelsInv, ClientsInOrder
<1>6. ASSUME NEW d \in 1 .. MaxClients, d # c PROVE ConnSound(d)' /\ TableSound(d)'
  <2>1. conn'[d] = conn[d] /\ conn[d].next \in Nat
    BY <1>2, <1>6 DEF ModelsInv, ModelShape, ConnShape
  <2>2. /\ \A j \in DOMAIN calls' : calls'[j].client = d /\ calls'[j].at = "awaiting" =>
               j \in DOMAIN calls /\ calls'[j] = calls[j]
        /\ \A j \in DOMAIN calls : calls[j].client = d /\ calls[j].at = "awaiting" =>
               j \in DOMAIN calls' /\ calls'[j] = calls[j]
    BY <1>1, <1>6
  <2>3. conn[d].next <= conn'[d].next
    BY <2>1
  <2> QED
    BY <2>1, <2>2, <2>3, ConnKept
<1>7. ASSUME NEW j \in DOMAIN calls', j # k PROVE CallSound(j)'
  <2>1. CallSound(j) /\ CallShape(calls[j]) /\ calls'[j] = calls[j]
    BY <1>1, <1>7 DEF ModelsInv, ModelShape
  <2>2. /\ conn[calls[j].client].next <= conn'[calls[j].client].next
        /\ conn[calls[j].client].next \in Nat /\ conn'[calls[j].client].next \in Nat
        /\ calls[j].id \in Nat
    BY <1>2, <2>1 DEF CallShape, ModelsInv, ModelShape, ConnShape
  <2> QED
    BY <2>1, <2>2 DEF CallSound, Known
<1> QED
  BY <1>1, <1>2, <1>3, <1>4, <1>5, <1>6, <1>7 DEF ModelsInv, PagesFit

(* The waiter is in the table before its request is on the wire. *)
LEMMA RequestSentInv ==
  ASSUME ModelsInv, NEW k \in DOMAIN calls, request_rpc(k), conn[calls[k].client].up
  PROVE  ModelsInv'
<1>0. PICK c, p, id, rq :
        /\ c = calls[k].client /\ p = conn[c] /\ id = p.next
        /\ rq = [id |-> id, inv |-> calls[k].inv, call |-> Plan(calls[k].inv.op)[calls[k].step]]
  OBVIOUS
<1>1. PICK r, q : /\ r = [calls[k] EXCEPT !.at = "awaiting", !.id = id]
                  /\ calls' = [calls EXCEPT ![k] = r]
                  /\ q = [p EXCEPT !.next = @ + 1, !.inflight = @ \cup {id}, !.wire = Append(@, rq)]
                  /\ conn' = [conn EXCEPT ![c] = q]
  <2>1. PICK r : r = [calls[k] EXCEPT !.at = "awaiting", !.id = id] /\ calls' = [calls EXCEPT ![k] = r]
    BY <1>0 DEF request_rpc
  <2>2. c \in DOMAIN conn
    BY <1>0 DEF ModelsInv, ModelShape, CallShape
  <2>3. conn' = [conn EXCEPT ![c] = [conn[c] EXCEPT !.next = @ + 1, !.inflight = @ \cup {id},
                                                    !.wire = Append(@, rq)]]
    BY <1>0 DEF request_rpc
  <2>4. PICK q : q = [conn[c] EXCEPT !.next = @ + 1, !.inflight = @ \cup {id}, !.wire = Append(@, rq)]
    OBVIOUS
  <2>5. conn' = [conn EXCEPT ![c] = q]
    BY <2>3, <2>4, Zenon
  <2> QED
    BY <1>0, <2>1, <2>4, <2>5, Zenon
<1>2. /\ CallShape(calls[k]) /\ CallSound(k) /\ calls[k].at = "sending"
      /\ UNCHANGED <<page, current, peer, version>>
      /\ c \in 1 .. MaxClients /\ ConnShape(p) /\ id \in Nat
      /\ ConnSound(c) /\ TableSound(c)
  <2>1. ModelShape /\ CallShape(calls[k]) /\ CallSound(k)
    BY DEF ModelsInv, ModelShape
  <2>2. calls[k].at = "sending" /\ UNCHANGED <<page, current, peer, version>>
    BY DEF request_rpc
  <2>3. c \in 1 .. MaxClients
    BY <1>0, <2>1 DEF CallShape
  <2>4. ConnShape(p)
    BY <1>0, <2>1, <2>3 DEF ModelShape
  <2>5. id \in Nat
    BY <1>0, <2>4 DEF ConnShape
  <2>6. ConnSound(c) /\ TableSound(c)
    BY <2>3 DEF ModelsInv
  <2> QED
    BY <2>1, <2>2, <2>3, <2>4, <2>5, <2>6
<1>3. rq.id = id /\ rq.inv = calls[k].inv /\ rq.call = Plan(calls[k].inv.op)[calls[k].step]
  BY <1>0
<1>4. /\ CallShape(r) /\ r.at = "awaiting" /\ r.id = id /\ r.client = c
      /\ r.step = calls[k].step /\ r.inv = calls[k].inv
  BY <1>0, <1>1, <1>2 DEF CallShape
<1>5. p = [up |-> p.up, next |-> p.next, inflight |-> p.inflight, wire |-> p.wire,
           answers |-> p.answers] /\ p.next = id
  BY <1>0, <1>2 DEF ConnShape
<1>6. q = [up |-> p.up, next |-> id + 1, inflight |-> p.inflight \cup {id},
           wire |-> Append(p.wire, rq), answers |-> p.answers]
  BY <1>1, <1>5
<1>60. PICK w, n : w = Append(p.wire, rq) /\ n = Len(p.wire)
  OBVIOUS
<1>7. /\ IsSeq(w) /\ DOMAIN p.wire = 1 .. n /\ n \in Nat /\ DOMAIN w = 1 .. (n + 1)
      /\ w[n + 1] = rq /\ \A m \in 1 .. n : w[m] = p.wire[m]
  BY <1>2, <1>60, AppendSeq DEF ConnShape
<1>8. q = [up |-> p.up, next |-> id + 1, inflight |-> p.inflight \cup {id},
           wire |-> w, answers |-> p.answers]
  BY <1>6, <1>60
<1>9. /\ q.up = p.up /\ q.next = id + 1 /\ q.inflight = p.inflight \cup {id} /\ q.wire = w
      /\ q.answers = p.answers
  BY <1>8
<1>10. ASSUME NEW m \in DOMAIN w
       PROVE  w[m] = rq \/ (m \in DOMAIN p.wire /\ w[m] = p.wire[m])
  <2>1. m = n + 1 \/ m \in 1 .. n
    BY <1>7
  <2> QED
    BY <1>7, <2>1, Zenon
<1>11. ConnShape(q)
  <2>1. \A m \in DOMAIN w : w[m].id \in Nat
    BY <1>2, <1>3, <1>10 DEF ConnShape
  <2> QED
    BY <1>2, <1>7, <1>8, <1>9, <2>1 DEF ConnShape
<1>12. /\ DOMAIN calls' = DOMAIN calls
       /\ calls'[k] = r /\ \A j \in DOMAIN calls : j # k => calls'[j] = calls[j]
  BY <1>1, <1>4, OneCall DEF ModelsInv
<1>13. conn'[c] = q /\ conn[c] = p /\ c = calls[k].client /\ version' = version
  BY <1>0, <1>1, <1>2 DEF ModelsInv, ModelShape
<1>14. \A i : \A j \in DOMAIN calls : j # k => (Waits(j, c, i)' <=> Waits(j, c, i))
  BY <1>12 DEF Waits
<1>15. \A i : ~Waits(k, c, i) /\ (Waits(k, c, i)' <=> i = id)
  BY <1>2, <1>4, <1>12 DEF Waits
<1>16. \A i : \A j \in DOMAIN calls : Waits(j, c, i) => i \in Nat /\ i < id
  <2> SUFFICES ASSUME NEW j \in DOMAIN calls, NEW i, Waits(j, c, i) PROVE i \in Nat /\ i < id
    OBVIOUS
  <2>1. CallSound(j) /\ CallShape(calls[j])
    BY DEF ModelsInv, ModelShape
  <2> QED
    BY <1>0, <1>13, <2>1 DEF CallSound, CallShape, Waits
<1>17. CallSound(k)'
  BY <1>2, <1>4, <1>9, <1>12, <1>13 DEF CallSound, Known
<1>18. ASSUME NEW m \in DOMAIN w PROVE RequestSound(c, w[m])'
  <2>1. CASE w[m] = rq
    <3>1. \A j \in DOMAIN calls' : Waits(j, c, id)' => j = k
      BY <1>2, <1>12, <1>14, <1>16
    <3> QED
      BY <1>2, <1>3, <1>4, <1>9, <1>12, <1>13, <2>1, <3>1 DEF RequestSound
  <2>2. CASE m \in DOMAIN p.wire /\ w[m] = p.wire[m]
    <3>1. RequestSound(c, p.wire[m]) /\ p.wire[m].id \in Nat
      BY <1>2, <1>13, <2>2 DEF ConnSound, ConnShape
    <3>2. p.wire[m].id < id
      BY <3>1, <1>13, <1>5 DEF RequestSound
    <3>3. \A j \in DOMAIN calls' : Waits(j, c, p.wire[m].id)' => j # k /\ Waits(j, c, p.wire[m].id)
      BY <1>2, <1>12, <1>14, <1>15, <3>1, <3>2
    <3> QED
      BY <1>2, <1>9, <1>12, <1>13, <2>2, <3>1, <3>2, <3>3 DEF RequestSound
  <2> QED
    BY <1>10, <2>1, <2>2
<1>19. ASSUME NEW m \in DOMAIN p.answers PROVE AnswerSound(c, p.answers[m])'
  <2>0. PICK a : a = p.answers[m]
    OBVIOUS
  <2>1. AnswerSound(c, a) /\ a.id \in Nat
    BY <1>2, <1>13, <2>0 DEF ConnSound, ConnShape
  <2>2. a.id < id
    BY <2>1, <1>13, <1>5 DEF AnswerSound
  <2>3. \A j \in DOMAIN calls' : Waits(j, c, a.id)' => j # k /\ Waits(j, c, a.id)
    BY <1>2, <1>12, <1>14, <1>15, <2>1, <2>2
  <2>4. AnswerSound(c, a)'
    BY <1>2, <1>9, <1>12, <1>13, <2>1, <2>2, <2>3 DEF AnswerSound, Fits, Known
  <2> QED
    BY <2>0, <2>4
<1>20. ConnSound(c)'
  BY <1>9, <1>13, <1>18, <1>19 DEF ConnSound
<1>21. TableSound(c)'
  <2>1. ASSUME NEW i \in conn'[c].inflight PROVE \E j \in DOMAIN calls' : Waits(j, c, i)'
    <3>1. CASE i = id
      BY <1>12, <1>15, <3>1
    <3>2. CASE i \in p.inflight
      BY <1>2, <1>12, <1>13, <1>14, <1>15, <3>2 DEF TableSound
    <3> QED
      BY <1>9, <1>13, <2>1, <3>1, <3>2
  <2>2. ASSUME NEW j \in DOMAIN calls', calls'[j].client = c, calls'[j].at = "awaiting"
        PROVE  calls'[j].id \in conn'[c].inflight
    BY <1>2, <1>4, <1>9, <1>12, <1>13, <2>2 DEF TableSound
  <2>3. ASSUME NEW i \in DOMAIN calls', NEW j \in DOMAIN calls',
               Waits(i, c, calls[j].id)', Waits(j, c, calls[j].id)'
        PROVE  i = j
    <3>1. CASE i = k \/ j = k
      BY <1>2, <1>4, <1>12, <1>14, <1>15, <1>16, <2>3, <3>1
    <3>2. CASE i # k /\ j # k
      BY <1>2, <1>12, <1>14, <2>3, <3>2 DEF TableSound
    <3> QED
      BY <3>1, <3>2
  <2> QED
    BY <2>1, <2>2, <2>3 DEF TableSound
<1> QED
  <2>1. p.next <= q.next
    BY <1>2, <1>5, <1>9
  <2> QED
    BY <1>1, <1>2, <1>4, <1>9, <1>11, <1>13, <1>17, <1>20, <1>21, <2>1, CallAndConn
(* A call stops waiting: its id leaves the table with it. *)
LEMMA WaiterLeaves ==
  ASSUME ModelsInv, NEW k \in DOMAIN calls, calls[k].at = "awaiting",
         NEW r, CallShape(r), r.at # "awaiting", r.inv = calls[k].inv, r.client = calls[k].client,
         calls' = [calls EXCEPT ![k] = r],
         NEW c, c = calls[k].client,
         NEW q, ConnShape(q), conn' = [conn EXCEPT ![c] = q], q.up = conn[c].up,
         q.next = conn[c].next, q.inflight = conn[c].inflight \ {calls[k].id},
         q.wire = conn[c].wire,
         \A n \in DOMAIN q.answers : \E m \in DOMAIN conn[c].answers :
             q.answers[n] = conn[c].answers[m],
         UNCHANGED <<page, current, peer, version>>, CallSound(k)'
  PROVE  ModelsInv'
<1>1. /\ DOMAIN calls' = DOMAIN calls
      /\ calls'[k] = r /\ \A j \in DOMAIN calls : j # k => calls'[j] = calls[j]
  BY OneCall DEF ModelsInv
<1>2. /\ c \in 1 .. MaxClients /\ conn'[c] = q /\ conn[c].next \in Nat
      /\ ConnSound(c) /\ TableSound(c)
  BY DEF ModelsInv, ModelShape, CallShape, ConnShape
<1>3. \A i : \A j \in DOMAIN calls' : Waits(j, c, i)' <=> Waits(j, c, i) /\ j # k
  BY <1>1 DEF Waits
<1>4. ASSUME NEW n \in DOMAIN q.wire PROVE RequestSound(c, q.wire[n])'
  <2>1. PICK x : x = q.wire[n]
    OBVIOUS
  <2>2. RequestSound(c, x)
    BY <1>2, <2>1 DEF ConnSound
  <2>3. RequestSound(c, x)'
    BY <1>1, <1>2, <1>3, <2>2 DEF RequestSound
  <2> QED
    BY <2>1, <2>3
<1>5. ASSUME NEW n \in DOMAIN q.answers PROVE AnswerSound(c, q.answers[n])'
  <2>1. PICK x : x = q.answers[n]
    OBVIOUS
  <2>2. AnswerSound(c, x)
    BY <1>2, <2>1 DEF ConnSound
  <2>3. AnswerSound(c, x)'
    BY <1>1, <1>2, <1>3, <2>2 DEF AnswerSound, Fits, Known
  <2> QED
    BY <2>1, <2>3
<1>6. ConnSound(c)'
  BY <1>2, <1>4, <1>5 DEF ConnSound
<1>7. TableSound(c)'
  <2>1. \A j \in DOMAIN calls : j # k /\ calls[j].client = c /\ calls[j].at = "awaiting" =>
            calls[j].id # calls[k].id
    BY <1>2 DEF TableSound, Waits
  <2>2. ASSUME NEW i \in conn'[c].inflight PROVE \E j \in DOMAIN calls' : Waits(j, c, i)'
    <3>1. i \in conn[c].inflight /\ i # calls[k].id
      BY <1>2, <2>2
    <3>2. PICK j \in DOMAIN calls : Waits(j, c, i)
      BY <1>2, <3>1 DEF TableSound
    <3>3. j # k
      BY <3>1, <3>2 DEF Waits
    <3> QED
      BY <1>1, <1>3, <3>2, <3>3
  <2>3. ASSUME NEW j \in DOMAIN calls', calls'[j].client = c, calls'[j].at = "awaiting"
        PROVE  calls'[j].id \in conn'[c].inflight
    <3>1. j # k /\ calls'[j] = calls[j]
      BY <1>1, <2>3
    <3> QED
      BY <1>1, <1>2, <2>1, <2>3, <3>1 DEF TableSound
  <2>4. ASSUME NEW i \in DOMAIN calls', NEW j \in DOMAIN calls',
               Waits(i, c, calls[j].id)', Waits(j, c, calls[j].id)'
        PROVE  i = j
    <3>1. j # k /\ i # k /\ calls'[j].id = calls[j].id
      BY <1>1, <1>3, <2>4
    <3> QED
      BY <1>1, <1>2, <1>3, <2>4, <3>1 DEF TableSound
  <2> QED
    BY <2>2, <2>3, <2>4 DEF TableSound
<1>8. conn[c].next <= q.next
  BY <1>2
<1> QED
  BY <1>6, <1>7, <1>8, CallAndConn

LEMMA TimesOutInv ==
  ASSUME ModelsInv, NEW k \in DOMAIN calls, request_times_out(k) PROVE ModelsInv'
<1>1. PICK c, p : c = calls[k].client /\ p = conn[c]
  OBVIOUS
<1>2. PICK r : r = [calls[k] EXCEPT !.at = "queued", !.ok = FALSE, !.what = "timeout"]
               /\ calls' = [calls EXCEPT ![k] = r]
  BY DEF request_times_out, Returned
<1>3. /\ CallShape(calls[k]) /\ CallSound(k) /\ calls[k].at = "awaiting"
      /\ UNCHANGED <<page, current, peer, version>>
      /\ c \in 1 .. MaxClients /\ ConnShape(p)
      /\ conn' = [conn EXCEPT ![c].inflight = @ \ {calls[k].id}]
  BY <1>1 DEF ModelsInv, ModelShape, request_times_out, CallShape
<1>4. PICK q : q = [p EXCEPT !.inflight = p.inflight \ {calls[k].id}] /\ conn' = [conn EXCEPT ![c] = q]
  <2>1. PICK q : q = [conn[c] EXCEPT !.inflight = conn[c].inflight \ {calls[k].id}]
    OBVIOUS
  <2>2. c \in DOMAIN conn
    BY <1>3 DEF ModelsInv, ModelShape
  <2>3. conn' = [conn EXCEPT ![c] = q]
    BY <1>3, <2>1, <2>2
  <2> QED
    BY <1>1, <2>1, <2>3
<1>5. /\ CallShape(r) /\ r.at = "queued" /\ ~r.ok
      /\ r.client = calls[k].client /\ r.step = calls[k].step /\ r.inv = calls[k].inv
  BY <1>2, <1>3 DEF CallShape
<1>6. p = [up |-> p.up, next |-> p.next, inflight |-> p.inflight, wire |-> p.wire,
           answers |-> p.answers]
  BY <1>3 DEF ConnShape
<1>7. /\ q = [up |-> q.up, next |-> q.next, inflight |-> q.inflight, wire |-> q.wire,
              answers |-> q.answers]
      /\ q.up = p.up /\ q.next = p.next /\ q.wire = p.wire /\ q.answers = p.answers
      /\ q.inflight = p.inflight \ {calls[k].id}
  BY <1>4, <1>6
<1>8. ConnShape(q)
  BY <1>3, <1>7 DEF ConnShape
<1>9. calls'[k] = r
  BY <1>2, <1>5, OneCall DEF ModelsInv
<1>10. CallSound(k)'
  BY <1>3, <1>5, <1>9 DEF CallSound, Known
<1>11. \A n \in DOMAIN q.answers : \E m \in DOMAIN conn[c].answers : q.answers[n] = conn[c].answers[m]
  BY <1>1, <1>7
<1>12. /\ q.up = conn[c].up /\ q.next = conn[c].next /\ q.wire = conn[c].wire
       /\ q.inflight = conn[c].inflight \ {calls[k].id}
  BY <1>1, <1>7
<1>13. /\ calls' = [calls EXCEPT ![k] = r] /\ conn' = [conn EXCEPT ![c] = q]
       /\ r.at # "awaiting" /\ CallShape(r) /\ r.inv = calls[k].inv /\ r.client = calls[k].client
       /\ calls[k].at = "awaiting" /\ c = calls[k].client
       /\ UNCHANGED <<page, current, peer, version>>
  BY <1>1, <1>2, <1>3, <1>4, <1>5
<1> QED
  BY <1>8, <1>10, <1>11, <1>12, <1>13, WaiterLeaves

(* The calls stay, a socket changes. *)
LEMMA ConnOnly ==
  ASSUME ModelsInv, UNCHANGED <<calls, page, current>>, Learned \/ UNCHANGED <<peer, version>>,
         NEW c \in 1 .. MaxClients, NEW q, ConnShape(q), conn' = [conn EXCEPT ![c] = q],
         q.next = conn[c].next, q.inflight = conn[c].inflight,
         q.up = conn[c].up \/ c <= current,
         ConnSound(c)'
  PROVE  ModelsInv'
<1>1. /\ conn' = [d \in 1 .. MaxClients |-> conn'[d]]
      /\ conn'[c] = q /\ \A d \in 1 .. MaxClients : d # c => conn'[d] = conn[d]
  BY DEF ModelsInv, ModelShape
<1>2. PagesFit'
  BY PagesStillFit
<1>3. ModelShape'
  BY <1>1, <1>2, StillKnown DEF ModelsInv, ModelShape, PagesFit, IsSeq
<1>4. ClientsInOrder'
  <2> SUFFICES ASSUME NEW d \in 1 .. MaxClients, d > current PROVE conn'[d].up
    BY DEF ClientsInOrder
  <2>1. conn[d].up
    BY DEF ModelsInv, ClientsInOrder
  <2>2. ~ (d <= current)
    BY DEF ModelsInv, ModelShape
  <2> QED
    BY <1>1, <2>1, <2>2
<1>5. ASSUME NEW d \in 1 .. MaxClients, d # c PROVE ConnSound(d)' /\ TableSound(d)'
  <2>1. conn'[d] = conn[d] /\ conn[d].next \in Nat
    BY <1>1, <1>5 DEF ModelsInv, ModelShape, ConnShape
  <2>2. conn[d].next <= conn'[d].next
    BY <2>1
  <2> QED
    BY <2>1, <2>2, ConnKept
<1>6. TableSound(c)'
  BY <1>1 DEF ModelsInv, TableSound, Waits
<1>7. ASSUME NEW j \in DOMAIN calls' PROVE CallSound(j)'
  <2>1. CallSound(j) /\ CallShape(calls[j])
    BY DEF ModelsInv, ModelShape
  <2>2. conn'[calls[j].client].next = conn[calls[j].client].next
    BY <1>1, <2>1 DEF CallShape
  <2>3. /\ Known(calls[j].client) \in Nat /\ Known(calls[j].client)' \in Nat
        /\ Known(calls[j].client) <= Known(calls[j].client)'
    BY <2>1, StillKnown DEF CallShape
  <2> QED
    BY <2>1, <2>2, <2>3 DEF CallSound
<1> QED
  BY <1>2, <1>3, <1>4, <1>5, <1>6, <1>7 DEF ModelsInv, PagesFit
(* What is left of the answers after the first one is taken. *)
LEMMA AnswerTaken ==
  ASSUME NEW p, ConnShape(p), p.answers # <<>>, NEW q,
         q = [up |-> q.up, next |-> q.next, inflight |-> q.inflight, wire |-> q.wire,
              answers |-> q.answers],
         q.up = p.up, q.next = p.next, q.wire = p.wire, q.answers = Tail(p.answers)
  PROVE  /\ ConnShape(q)
         /\ \A n \in DOMAIN q.answers : \E m \in DOMAIN p.answers : q.answers[n] = p.answers[m]
         /\ \E m \in DOMAIN p.answers : Head(p.answers) = p.answers[m]
<1>1. PICK t, n : t = Tail(p.answers) /\ n = Len(p.answers)
  OBVIOUS
<1>2. /\ IsSeq(t) /\ n \in Nat \ {0} /\ DOMAIN p.answers = 1 .. n
      /\ Head(p.answers) = p.answers[1] /\ DOMAIN t = 1 .. (n - 1)
      /\ \A m \in 1 .. (n - 1) : t[m] = p.answers[m + 1]
  BY <1>1, TailSeq DEF ConnShape
<1>4. q.answers = t
  BY <1>1
<1>5. ASSUME NEW m \in DOMAIN t PROVE m + 1 \in DOMAIN p.answers /\ t[m] = p.answers[m + 1]
  BY <1>2
<1>6. \A m \in DOMAIN t : t[m].id \in Nat /\ t[m].ok \in BOOLEAN
  BY <1>5 DEF ConnShape
<1>7. ConnShape(q)
  BY <1>2, <1>4, <1>6 DEF ConnShape
<1>8. 1 \in DOMAIN p.answers
  BY <1>2
<1> QED
  BY <1>2, <1>4, <1>5, <1>7, <1>8

LEMMA DispatchInv ==
  ASSUME ModelsInv, NEW c \in 1 .. MaxClients, dispatch(c) PROVE ModelsInv'
<1>1. PICK ans, waiters :
        /\ ans = Head(conn[c].answers)
        /\ waiters = {k \in DOMAIN calls : /\ calls[k].client = c /\ calls[k].at = "awaiting"
                                           /\ calls[k].id = ans.id}
  OBVIOUS
<1>2. PICK q : q = [conn[c] EXCEPT !.answers = Tail(@), !.inflight = @ \ {ans.id}]
  OBVIOUS
<1>3. /\ conn' = [conn EXCEPT ![c] = q]
      /\ calls' = IF ans.id \in conn[c].inflight THEN Continues(CHOOSE k \in waiters : TRUE, ans)
                  ELSE calls
      /\ UNCHANGED <<page, current, peer, version>> /\ conn[c].answers # <<>>
  BY <1>1, <1>2 DEF dispatch
<1>4. ConnShape(conn[c]) /\ ConnSound(c) /\ TableSound(c)
  BY DEF ModelsInv, ModelShape
<1>5. /\ ConnShape(q) /\ q.up = conn[c].up /\ q.next = conn[c].next /\ q.wire = conn[c].wire
      /\ q.inflight = conn[c].inflight \ {ans.id}
      /\ \A n \in DOMAIN q.answers : \E m \in DOMAIN conn[c].answers :
             q.answers[n] = conn[c].answers[m]
      /\ \E m \in DOMAIN conn[c].answers : ans = conn[c].answers[m]
  <2>1. PICK p : p = conn[c]
    OBVIOUS
  <2>2. /\ ConnShape(p) /\ p.answers # <<>> /\ ans = Head(p.answers)
        /\ q = [p EXCEPT !.answers = Tail(@), !.inflight = @ \ {ans.id}]
    BY <1>1, <1>2, <1>3, <1>4, <2>1
  <2>3. /\ q = [up |-> q.up, next |-> q.next, inflight |-> q.inflight, wire |-> q.wire,
                answers |-> q.answers]
        /\ q.up = p.up /\ q.next = p.next /\ q.wire = p.wire /\ q.answers = Tail(p.answers)
        /\ q.inflight = p.inflight \ {ans.id}
    BY <2>2 DEF ConnShape
  <2>4. /\ ConnShape(q)
        /\ \A n \in DOMAIN q.answers : \E m \in DOMAIN p.answers : q.answers[n] = p.answers[m]
        /\ \E m \in DOMAIN p.answers : Head(p.answers) = p.answers[m]
    <3>1. ConnShape(p) /\ p.answers # <<>>
      BY <2>2
    <3> QED
      BY <2>3, <3>1, AnswerTaken
  <2> QED
    BY <2>1, <2>2, <2>3, <2>4
<1>6. AnswerSound(c, ans)
  BY <1>4, <1>5 DEF ConnSound
<1>7. CASE ans.id \notin conn[c].inflight
  <2>1. calls' = calls /\ q.inflight = conn[c].inflight
    BY <1>3, <1>5, <1>7
  <2>2. conn'[c] = q
    BY <1>3 DEF ModelsInv, ModelShape
  <2>3. ASSUME NEW n \in DOMAIN q.wire PROVE RequestSound(c, q.wire[n])'
    <3>1. PICK x : x = q.wire[n]
      OBVIOUS
    <3>2. RequestSound(c, x)
      BY <1>4, <1>5, <3>1 DEF ConnSound
    <3> QED
      <4>1. conn'[c].next = conn[c].next /\ calls' = calls
        BY <1>5, <2>1, <2>2
      <4>2. x.id < conn'[c].next
        BY <3>2, <4>1 DEF RequestSound
      <4>3. \A k \in DOMAIN calls : Waits(k, c, x.id) =>
               x.inv = calls[k].inv /\ x.call = Plan(calls[k].inv.op)[calls[k].step]
        BY <3>2, Zenon DEF RequestSound
      <4> QED
        BY <3>1, <4>1, <4>2, <4>3, Zenon DEF RequestSound, Waits
  <2>4. ASSUME NEW n \in DOMAIN q.answers PROVE AnswerSound(c, q.answers[n])'
    <3>1. PICK x : x = q.answers[n]
      OBVIOUS
    <3>2. AnswerSound(c, x)
      BY <1>4, <1>5, <3>1 DEF ConnSound
    <3> QED
      BY <1>3, <1>5, <2>1, <2>2, <3>1, <3>2 DEF AnswerSound, Waits, Fits, Known
  <2>5. ConnSound(c)'
    BY <2>2, <2>3, <2>4 DEF ConnSound
  <2> QED
    BY <1>3, <1>5, <2>1, <2>5, ConnOnly
<1>8. CASE ans.id \in conn[c].inflight
  <2>1. PICK k : k = CHOOSE j \in waiters : TRUE
    OBVIOUS
  <2>2. \E j \in DOMAIN calls : Waits(j, c, ans.id)
    BY <1>4, <1>8 DEF TableSound
  <2>3. waiters # {}
    BY <1>1, <2>2 DEF Waits
  <2>4. k \in waiters
    BY <2>1, <2>3
  <2>5. k \in DOMAIN calls /\ calls[k].client = c /\ calls[k].at = "awaiting" /\ calls[k].id = ans.id
    BY <1>1, <2>4
  <2>6. CallShape(calls[k]) /\ CallSound(k) /\ (ans.ok => Fits(k, ans.what))
    BY <1>6, <2>5 DEF ModelsInv, ModelShape, AnswerSound, Waits
  <2>7. calls' = Continues(k, ans)
    BY <1>3, <1>8, <2>1
  <2>8. ASSUME NEW r, CallShape(r), r.at # "awaiting", r.inv = calls[k].inv, r.client = c,
               calls' = [calls EXCEPT ![k] = r],
               r.step = 2 => Known(c) > 0,
               r.at \in {"queued", "done"} /\ r.ok => Right(r.inv, r.what)
        PROVE  ModelsInv'
    <3>1. calls'[k] = r
      BY <2>5, <2>8, OneCall DEF ModelsInv
    <3>2. CallSound(k)'
      BY <1>3, <2>8, <3>1 DEF CallSound, Known
    <3> QED
      BY <1>3, <1>5, <2>5, <2>8, <3>2, WaiterLeaves
  <2>9. CASE ans.ok /\ calls[k].step < Len(Plan(calls[k].inv.op))
    <3>1. PICK r : r = [calls[k] EXCEPT !.at = "sending", !.step = @ + 1]
      OBVIOUS
    <3>2. calls' = [calls EXCEPT ![k] = r]
      BY <2>7, <2>9, <3>1 DEF Continues
    <3>3. calls[k].step = 1 /\ calls[k].inv.op \in Changes
      <4>1. calls[k].step = 1 \/ (calls[k].step = 2 /\ calls[k].inv.op \in Changes)
        BY <2>6 DEF CallShape
      <4>2. calls[k].inv.op \notin Changes => Len(Plan(calls[k].inv.op)) = 1
        BY OpFacts
      <4>3. calls[k].inv.op \in Changes => Len(Plan(calls[k].inv.op)) = 2
        BY OpFacts
      <4> QED
        BY <2>9, <4>1, <4>2, <4>3
    <3>4. /\ r = [inv |-> r.inv, client |-> r.client, at |-> r.at, step |-> r.step, id |-> r.id,
                  ok |-> r.ok, what |-> r.what]
          /\ r.at = "sending" /\ r.step = 2 /\ r.inv = calls[k].inv /\ r.client = calls[k].client
          /\ r.id = calls[k].id /\ r.ok = calls[k].ok
      <4>1. PICK x, y : x = calls[k] /\ y = x.step + 1
        OBVIOUS
      <4>2. /\ x = [inv |-> x.inv, client |-> x.client, at |-> x.at, step |-> x.step, id |-> x.id,
                    ok |-> x.ok, what |-> x.what]
            /\ x.step = 1
        BY <2>6, <3>3, <4>1 DEF CallShape
      <4>3. r = [x EXCEPT !.at = "sending", !.step = y]
        BY <3>1, <4>1
      <4>4. r = [inv |-> x.inv, client |-> x.client, at |-> "sending", step |-> y, id |-> x.id,
                 ok |-> x.ok, what |-> x.what]
        BY <4>2, <4>3
      <4> QED
        BY <4>1, <4>2, <4>4
    <3>5. CallShape(r)
      BY <2>6, <3>3, <3>4 DEF CallShape
    <3>6. Known(c) > 0
      BY <2>5, <2>6, <2>9 DEF Fits
    <3> QED
      BY <2>5, <2>8, <3>2, <3>4, <3>5, <3>6
  <2>10. CASE ~(ans.ok /\ calls[k].step < Len(Plan(calls[k].inv.op)))
    <3>1. PICK r : r = [calls[k] EXCEPT !.at = "queued", !.ok = ans.ok, !.what = ans.what]
      OBVIOUS
    <3>2. calls' = [calls EXCEPT ![k] = r]
      BY <2>7, <2>10, <3>1 DEF Continues, Returned
    <3>3. /\ r = [inv |-> r.inv, client |-> r.client, at |-> r.at, step |-> r.step, id |-> r.id,
                  ok |-> r.ok, what |-> r.what]
          /\ r.at = "queued" /\ r.step = calls[k].step /\ r.inv = calls[k].inv
          /\ r.client = calls[k].client
          /\ r.id = calls[k].id /\ r.ok = ans.ok /\ r.what = ans.what
      BY <2>6, <3>1 DEF CallShape
    <3>4. ans.ok \in BOOLEAN
      BY <1>4, <1>5 DEF ConnShape
    <3>5. CallShape(r)
      BY <2>6, <3>3, <3>4 DEF CallShape
    <3>6. r.ok => Right(r.inv, r.what)
      BY <2>6, <2>10, <3>3 DEF Fits
    <3>7. r.step = 2 => Known(c) > 0
      BY <2>5, <2>6, <3>3 DEF CallSound
    <3> QED
      BY <2>5, <2>8, <3>2, <3>3, <3>5, <3>6, <3>7
  <2> QED
    BY <2>9, <2>10
<1> QED
  BY <1>7, <1>8

(* The daemon answers the first request on the wire. *)
LEMMA ServeInv ==
  ASSUME ModelsInv, NEW c \in 1 .. MaxClients, NEW ok \in BOOLEAN, Serve(c, ok) PROVE ModelsInv'
<1>1. PICK p, r : p = conn[c] /\ r = Head(p.wire)
  OBVIOUS
<1>2. PICK what : what = IF r.inv.op \in {"points", "test"} THEN r.inv.arg ELSE Known(c)
  OBVIOUS
<1>3. PICK a : a = [id |-> r.id, ok |-> ok, what |-> what]
  OBVIOUS
<1>4. PICK t, s : t = Tail(p.wire) /\ s = Append(p.answers, a)
  OBVIOUS
<1>5. PICK q : q = [p EXCEPT !.wire = t, !.answers = s]
  OBVIOUS
<1>6. /\ conn' = [conn EXCEPT ![c] = q] /\ UNCHANGED <<calls, page, current>> /\ p.wire # <<>>
      /\ Learned /\ Known(c) \in Nat /\ Known(c)' \in Nat /\ Known(c) <= Known(c)'
      /\ ok /\ r.call = "change" => Known(c)' = Known(c) + 1
  <2>1. conn' = [conn EXCEPT ![c] = [conn[c] EXCEPT !.wire = Tail(conn[c].wire),
                                                    !.answers = Append(conn[c].answers, a)]]
    BY <1>1, <1>2, <1>3 DEF Serve, Known
  <2>2. conn' = [conn EXCEPT ![c] = q]
    BY <1>1, <1>4, <1>5, <2>1
  <2>3. UNCHANGED <<calls, page, current, peer>> /\ p.wire # <<>>
    BY <1>1 DEF Serve
  <2>4. /\ version' = IF ok /\ r.call = "change" THEN [version EXCEPT ![peer[c]] = @ + 1]
                      ELSE version
        /\ peer[c] \in 1 .. MaxClients /\ version \in [1 .. MaxClients -> Nat]
    BY <1>1 DEF Serve, ModelsInv, ModelShape
  <2>5. Learned
    BY <2>3, <2>4 DEF Learned
  <2>6. ok /\ r.call = "change" => Known(c)' = Known(c) + 1
    BY <2>3, <2>4 DEF Known
  <2> QED
    BY <2>2, <2>3, <2>5, <2>6, StillKnown
<1>7. /\ ConnShape(p) /\ ConnSound(c)
      /\ a.id = r.id /\ a.ok = ok /\ a.what = what
  BY <1>1, <1>3 DEF ModelsInv, ModelShape
<1>8. /\ q = [up |-> q.up, next |-> q.next, inflight |-> q.inflight, wire |-> q.wire,
              answers |-> q.answers]
      /\ q.up = p.up /\ q.next = p.next /\ q.inflight = p.inflight /\ q.wire = t /\ q.answers = s
  BY <1>5, <1>7 DEF ConnShape
<1>9. /\ IsSeq(t) /\ r \in {p.wire[n] : n \in DOMAIN p.wire}
      /\ \A n \in DOMAIN t : \E m \in DOMAIN p.wire : t[n] = p.wire[m]
  <2>1. PICK l : l = Len(p.wire)
    OBVIOUS
  <2>2. /\ IsSeq(t) /\ l \in Nat \ {0} /\ DOMAIN p.wire = 1 .. l
        /\ r = p.wire[1] /\ DOMAIN t = 1 .. (l - 1)
        /\ \A m \in 1 .. (l - 1) : t[m] = p.wire[m + 1]
    BY <1>1, <1>4, <1>6, <1>7, <2>1, TailSeq DEF ConnShape
  <2>3. ASSUME NEW m \in DOMAIN t PROVE m + 1 \in DOMAIN p.wire /\ t[m] = p.wire[m + 1]
    BY <2>2
  <2>4. 1 \in DOMAIN p.wire
    BY <2>2
  <2> QED
    BY <2>2, <2>3, <2>4
<1>10. /\ IsSeq(s)
       /\ \A n \in DOMAIN s : s[n] = a \/ \E m \in DOMAIN p.answers : s[n] = p.answers[m]
  <2>1. PICK l : l = Len(p.answers)
    OBVIOUS
  <2>2. /\ IsSeq(s) /\ l \in Nat /\ DOMAIN p.answers = 1 .. l
        /\ DOMAIN s = 1 .. (l + 1) /\ s[l + 1] = a
        /\ \A m \in 1 .. l : s[m] = p.answers[m]
    BY <1>4, <1>7, <2>1, AppendSeq DEF ConnShape
  <2>3. ASSUME NEW n \in DOMAIN s PROVE n = l + 1 \/ n \in 1 .. l
    BY <2>2
  <2> QED
    BY <2>2, <2>3
<1>11. RequestSound(c, r) /\ r.id \in Nat
  BY <1>1, <1>7, <1>9 DEF ConnSound, ConnShape
<1>12. ConnShape(q)
  <2>1. \A n \in DOMAIN t : t[n].id \in Nat
    BY <1>7, <1>9 DEF ConnShape
  <2>2. \A n \in DOMAIN s : s[n].id \in Nat /\ s[n].ok \in BOOLEAN
    BY <1>7, <1>10, <1>11 DEF ConnShape
  <2> QED
    BY <1>7, <1>8, <1>9, <1>10, <2>1, <2>2 DEF ConnShape
<1>13. conn'[c] = q /\ (\A i : \A k \in DOMAIN calls : Waits(k, c, i)' <=> Waits(k, c, i))
  BY <1>6 DEF ModelsInv, ModelShape, Waits
<1>14. ASSUME NEW n \in DOMAIN t PROVE RequestSound(c, t[n])'
  <2>1. PICK x : x = t[n]
    OBVIOUS
  <2>2. RequestSound(c, x)
    BY <1>1, <1>7, <1>9, <2>1 DEF ConnSound
  <2>3. RequestSound(c, x)'
    BY <1>1, <1>6, <1>8, <1>13, <2>2 DEF RequestSound
  <2> QED
    BY <2>1, <2>3
<1>15. AnswerSound(c, a)'
  <2>1. a.id < conn'[c].next
    BY <1>1, <1>7, <1>8, <1>11, <1>13 DEF RequestSound
  <2>2. ASSUME NEW k \in DOMAIN calls, Waits(k, c, r.id), ok
        PROVE  Fits(k, what)'
    <3>1. PICK x : x = calls[k]
      OBVIOUS
    <3>2. /\ CallShape(x) /\ x.inv \in Invocations /\ (x.step = 2 => Known(c) > 0) /\ x.client = c
          /\ r.inv = x.inv /\ r.call = Plan(x.inv.op)[x.step] /\ calls'[k] = x
      BY <1>6, <1>11, <2>2, <3>1 DEF ModelsInv, ModelShape, CallSound, RequestSound, CallShape, Waits
    <3>3. CASE x.inv.op \in Changes
      <4>1. Len(Plan(x.inv.op)) = 2 /\ Plan(x.inv.op)[1] = "change"
            /\ x.inv.op \notin {"points", "test"}
        BY <3>3, OpFacts
      <4>2. CASE x.step = 1
        <5>1. Known(c)' > 0
          BY <1>6, <1>7, <2>2, <3>2, <4>1, <4>2
        <5> QED
          BY <3>2, <4>1, <4>2, <5>1 DEF Fits
      <4>3. CASE x.step = 2
        <5>1. what > 0
          BY <1>2, <3>2, <4>1, <4>3
        <5> QED
          BY <3>2, <4>1, <4>3, <5>1 DEF Fits, Right
      <4> QED
        BY <3>2, <4>2, <4>3 DEF CallShape
    <3>4. CASE x.inv.op \notin Changes
      <4>1. Len(Plan(x.inv.op)) = 1 /\ x.step = 1
        BY <3>2, <3>4, OpFacts DEF CallShape
      <4>2. Right(x.inv, what)
        BY <1>2, <3>2, <3>4 DEF Right
      <4> QED
        BY <3>2, <4>1, <4>2 DEF Fits
    <3> QED
      BY <3>3, <3>4
  <2> QED
    BY <1>6, <1>7, <1>13, <2>1, <2>2 DEF AnswerSound
<1>16. ASSUME NEW n \in DOMAIN s PROVE AnswerSound(c, s[n])'
  <2>1. CASE s[n] = a
    <3>1. PICK x : x = s[n]
      OBVIOUS
    <3> QED
      BY <1>15, <2>1, <3>1
  <2>2. CASE s[n] # a
    <3>1. PICK x : x = s[n]
      OBVIOUS
    <3>2. AnswerSound(c, x)
      BY <1>1, <1>7, <1>10, <2>2, <3>1 DEF ConnSound
    <3>3. Known(c) > 0 => Known(c)' > 0
      BY <1>6
    <3>4. AnswerSound(c, x)'
      BY <1>1, <1>6, <1>8, <1>13, <3>2, <3>3 DEF AnswerSound, Fits, Waits
    <3> QED
      BY <3>1, <3>4
  <2> QED
    BY <2>1, <2>2
<1>17. ConnSound(c)'
  BY <1>8, <1>13, <1>14, <1>16 DEF ConnSound
<1>18. /\ Learned
       /\ q.next = conn[c].next /\ q.inflight = conn[c].inflight /\ q.up = conn[c].up
  BY <1>1, <1>6, <1>8
<1> QED
  BY <1>6, <1>12, <1>17, <1>18, ConnOnly
(* A connection is lost with what is on its way: its waiters stay. *)
LEMMA ClientLostInv ==
  ASSUME ModelsInv, NEW c \in 1 .. MaxClients, ClientLost(c) PROVE ModelsInv'
<1>1. PICK p : p = conn[c]
  OBVIOUS
<1>2. PICK q : q = [p EXCEPT !.up = FALSE, !.wire = <<>>, !.answers = <<>>]
  OBVIOUS
<1>3. /\ conn' = [conn EXCEPT ![c] = q] /\ UNCHANGED <<calls, page, current, peer, version>>
      /\ c <= current /\ ConnShape(p)
  BY <1>1, <1>2, GuiModelsAssumption DEF ClientLost, ModelsInv, ModelShape
<1>4. /\ q = [up |-> q.up, next |-> q.next, inflight |-> q.inflight, wire |-> q.wire,
              answers |-> q.answers]
      /\ q.up = FALSE /\ q.next = p.next /\ q.inflight = p.inflight /\ q.wire = <<>>
      /\ q.answers = <<>>
  BY <1>2, <1>3 DEF ConnShape
<1>5. IsSeq(<<>>) /\ DOMAIN <<>> = {}
  BY DEF IsSeq
<1>6. ConnShape(q)
  BY <1>3, <1>4, <1>5 DEF ConnShape
<1>7. conn'[c] = q
  BY <1>3 DEF ModelsInv, ModelShape
<1>8. ConnSound(c)'
  BY <1>4, <1>5, <1>7 DEF ConnSound
<1>9. /\ q.next = conn[c].next /\ q.inflight = conn[c].inflight
      /\ q.up = conn[c].up \/ c <= current
  BY <1>1, <1>3, <1>4
<1> QED
  BY <1>3, <1>6, <1>8, <1>9, ConnOnly

LEMMA ClientReplacedInv ==
  ASSUME ModelsInv, ClientReplaced PROVE ModelsInv'
<1>1. UNCHANGED <<calls, page, conn, peer, version>> /\ current' = current + 1
      /\ current < MaxClients
  BY DEF ClientReplaced
<1>2. current \in 1 .. MaxClients /\ MaxClients \in Nat
  BY GuiModelsAssumption DEF ModelsInv, ModelShape
<1>3. current' \in 1 .. MaxClients
  BY <1>1, <1>2
<1>4. ModelShape'
  BY <1>1, <1>3 DEF ModelsInv, ModelShape, IsSeq
<1>5. ClientsInOrder'
  BY <1>1, <1>2 DEF ModelsInv, ClientsInOrder
<1>6. ASSUME NEW c \in 1 .. MaxClients PROVE ConnSound(c)' /\ TableSound(c)'
  <2>1. conn'[c] = conn[c] /\ conn[c].next \in Nat
    BY <1>1 DEF ModelsInv, ModelShape, ConnShape
  <2>2. conn[c].next <= conn'[c].next
    BY <2>1
  <2> QED
    BY <1>1, <2>1, <2>2, ConnKept
<1>7. \A k \in DOMAIN calls' : CallSound(k)'
  BY <1>1 DEF ModelsInv, CallSound, Known
<1>8. \A m \in Models : PageSound(m)'
  BY <1>1, PagesKept
<1> QED
  BY <1>4, <1>5, <1>6, <1>7, <1>8 DEF ModelsInv
(* A new request becomes its page's newest: nothing of an older sensor is shown. *)
LEMMA InvokeInv ==
  ASSUME ModelsInv, NEW i \in Invocations, Invoke(i) PROVE ModelsInv'
<1>1. PICK m, p, n, k : m = i.model /\ p = page[m] /\ n = Len(calls) /\ k = n + 1
  OBVIOUS
<1>2. PICK s : s = Cleared(i, p.shown)
  OBVIOUS
<1>3. PICK r : r = [inv |-> i, client |-> current, at |-> "waiting", step |-> 1,
                    id |-> 0, ok |-> TRUE, what |-> "none"]
  OBVIOUS
<1>4. PICK g : g = [p EXCEPT !.newest = k, !.loading = TRUE, !.error = FALSE, !.shown = s]
  OBVIOUS
<1>5. /\ calls' = Append(calls, r) /\ UNCHANGED <<conn, current, peer, version>>
      /\ page' = [page EXCEPT ![m] = g]
  BY <1>1, <1>2, <1>3, <1>4 DEF Invoke
<1>6. /\ IsSeq(calls) /\ m \in Models /\ PageShape(p) /\ current \in 1 .. MaxClients
      /\ p.shown = [f \in Fields |-> p.shown[f]]
  BY <1>1, OpFacts DEF ModelsInv, ModelShape, PageShape
<1>7. /\ IsSeq(calls') /\ n \in Nat /\ DOMAIN calls = 1 .. n /\ DOMAIN calls' = 1 .. (n + 1)
      /\ calls'[n + 1] = r /\ \A j \in 1 .. n : calls'[j] = calls[j]
  BY <1>1, <1>5, <1>6, AppendSeq
<1>8. /\ k \in DOMAIN calls' /\ calls'[k] = r /\ k \in Nat \ {0}
      /\ \A j \in DOMAIN calls : j \in DOMAIN calls' /\ calls'[j] = calls[j]
      /\ \A j \in DOMAIN calls' : j # k => j \in DOMAIN calls
  BY <1>1, <1>7
<1>9. /\ r.inv = i /\ r.client = current /\ r.at = "waiting" /\ r.step = 1 /\ r.id = 0
      /\ CallShape(r)
  BY <1>3, <1>6 DEF CallShape
<1>10. s = [f \in Fields |-> s[f]] /\ (m = "history" => s["points"] = Blank)
  <2>1. Field(i.op) \in Fields
    BY OpFacts
  <2>2. m = "history" => i.op = "points" /\ Field(i.op) = "points"
    BY <1>1, OpFacts
  <2>3. PICK f, x : f = Field(i.op) /\ x = p.shown
    OBVIOUS
  <2>4. s = IF i.op \in {"points", "test"} THEN [x EXCEPT ![f] = Blank] ELSE x
    BY <1>2, <2>3 DEF Cleared
  <2>5. x = [e \in Fields |-> x[e]] /\ f \in Fields
    BY <1>6, <2>1, <2>3
  <2>6. s = [e \in Fields |-> s[e]]
    BY <2>4, <2>5
  <2>7. m = "history" => s["points"] = Blank
    BY <2>2, <2>3, <2>4, <2>5
  <2> QED
    BY <2>6, <2>7
<1>11. /\ g = [newest |-> g.newest, loading |-> g.loading, error |-> g.error, shown |-> g.shown]
       /\ g.newest = k /\ g.loading = TRUE /\ g.shown = s
  BY <1>4, <1>6 DEF PageShape
<1>12. PageShape(g)
  BY <1>8, <1>10, <1>11 DEF PageShape
<1>13. /\ page' = [o \in Models |-> page'[o]] /\ page'[m] = g
       /\ \A o \in Models : o # m => page'[o] = page[o]
  BY <1>5, <1>6 DEF ModelsInv, ModelShape
<1>14. ModelShape'
  <2>1. \A j \in DOMAIN calls' : CallShape(calls'[j])
    BY <1>8, <1>9 DEF ModelsInv, ModelShape
  <2>2. \A o \in Models : PageShape(page'[o])
    BY <1>12, <1>13 DEF ModelsInv, ModelShape
  <2>3. IsSeq(calls)'
    BY <1>7 DEF IsSeq
  <2> QED
    BY <1>5, <1>13, <2>1, <2>2, <2>3 DEF ModelsInv, ModelShape
<1>15. ClientsInOrder'
  BY <1>5 DEF ModelsInv, ClientsInOrder
<1>16. ASSUME NEW c \in 1 .. MaxClients PROVE ConnSound(c)' /\ TableSound(c)'
  <2>1. conn'[c] = conn[c] /\ conn[c].next \in Nat
    BY <1>5 DEF ModelsInv, ModelShape, ConnShape
  <2>2. conn[c].next <= conn'[c].next
    BY <2>1
  <2>3. /\ \A j \in DOMAIN calls' : calls'[j].client = c /\ calls'[j].at = "awaiting" =>
               j \in DOMAIN calls /\ calls'[j] = calls[j]
        /\ \A j \in DOMAIN calls : calls[j].client = c /\ calls[j].at = "awaiting" =>
               j \in DOMAIN calls' /\ calls'[j] = calls[j]
    BY <1>8, <1>9
  <2> QED
    BY <1>5, <2>1, <2>2, <2>3, ConnKept
<1>17. ASSUME NEW j \in DOMAIN calls' PROVE CallSound(j)'
  <2>1. CASE j = k
    BY <1>8, <1>9, <2>1 DEF CallSound
  <2>2. CASE j # k
    BY <1>5, <1>8, <2>2 DEF ModelsInv, CallSound, Known
  <2> QED
    BY <2>1, <2>2
<1>18. ASSUME NEW o \in Models PROVE PageSound(o)'
  <2>1. CASE o = m
    BY <1>1, <1>8, <1>9, <1>10, <1>11, <1>13, <2>1 DEF PageSound
  <2>2. CASE o # m
    <3>1. PageSound(o) /\ page'[o] = page[o]
      BY <1>13, <2>2 DEF ModelsInv
    <3> QED
      BY <1>8, <3>1 DEF PageSound
  <2> QED
    BY <2>1, <2>2
<1> QED
  BY <1>14, <1>15, <1>16, <1>17, <1>18 DEF ModelsInv

(* A result is applied by the page only when its request is still the newest. *)
LEMMA ApplyInv ==
  ASSUME ModelsInv, NEW k \in DOMAIN calls, Apply(k) PROVE ModelsInv'
<1>1. PICK m, p, x, f : /\ x = calls[k] /\ m = x.inv.model /\ p = page[m] /\ f = Field(x.inv.op)
  OBVIOUS
<1>2. PICK r : r = [x EXCEPT !.at = "done"] /\ calls' = [calls EXCEPT ![k] = r]
  BY <1>1 DEF Apply
<1>3. /\ CallShape(x) /\ x.at = "queued" /\ UNCHANGED <<conn, current, peer, version>> /\ CallSound(k)
      /\ x.inv \in Invocations /\ m \in Models /\ f \in Fields
  BY <1>1, OpFacts DEF Apply, ModelsInv, ModelShape, CallShape
<1>4. /\ CallShape(r) /\ r.at = "done" /\ r.step = x.step /\ r.client = x.client /\ r.inv = x.inv /\ r.ok = x.ok
      /\ r.what = x.what
  BY <1>2, <1>3 DEF CallShape
<1>5. /\ DOMAIN calls' = DOMAIN calls /\ calls'[k] = r
      /\ \A j \in DOMAIN calls : j # k => calls'[j] = calls[j]
  BY <1>2, <1>4, OneCall DEF ModelsInv
<1>6. x.ok => Right(x.inv, x.what)
  BY <1>1, <1>3 DEF CallSound
<1>7. PagesFit'
  <2>1. CASE ~is_current(k)
    <3>1. page' = page
      BY <2>1 DEF Apply
    <3>2. \A j \in DOMAIN calls : j \in DOMAIN calls' /\ calls'[j].inv = calls[j].inv
                                  /\ (calls[j].at = "done" => calls'[j] = calls[j])
      BY <1>1, <1>3, <1>4, <1>5
    <3> QED
      BY <3>1, <3>2, PagesStillFit
  <2>2. CASE is_current(k)
    <3>1. PICK s : s = IF x.ok \/ f = "test" THEN [p.shown EXCEPT ![f] = [from |-> k, what |-> x.what]]
                       ELSE p.shown
      OBVIOUS
    <3>2. PICK g : g = [p EXCEPT !.loading = FALSE, !.error = ~x.ok /\ f # "test", !.shown = s]
      OBVIOUS
    <3>3. page' = [page EXCEPT ![m] = g] /\ p.newest = k
      BY <1>1, <2>2, <3>1, <3>2 DEF Apply, is_current
    <3>4. PageShape(p) /\ PageSound(m) /\ page = [o \in Models |-> page[o]]
      BY <1>1, <1>3 DEF ModelsInv, ModelShape
    <3>5. /\ g = [newest |-> g.newest, loading |-> g.loading, error |-> g.error, shown |-> g.shown]
          /\ g.newest = k /\ g.loading = FALSE /\ g.error = (~x.ok /\ f # "test") /\ g.shown = s
      BY <3>2, <3>3, <3>4 DEF PageShape
    <3>6. s = [e \in Fields |-> s[e]]
      <4>1. PICK y, v : y = p.shown /\ v = [from |-> k, what |-> x.what]
        OBVIOUS
      <4>2. s = IF x.ok \/ f = "test" THEN [y EXCEPT ![f] = v] ELSE y
        BY <3>1, <4>1
      <4>3. y = [e \in Fields |-> y[e]]
        BY <3>4, <4>1 DEF PageShape
      <4> QED
        BY <4>2, <4>3
    <3>7. x.ok \/ f = "test" => s[f].from = k /\ s[f].what = x.what
      BY <1>3, <3>1, <3>4 DEF PageShape
    <3>8. ~(x.ok \/ f = "test") => s = p.shown
      BY <3>1
    <3>9. PageShape(g)
      BY <3>3, <3>4, <3>5, <3>6 DEF PageShape
    <3>10. /\ page' = [o \in Models |-> page'[o]] /\ page'[m] = g
           /\ \A o \in Models : o # m => page'[o] = page[o]
      BY <1>3, <3>3, <3>4
    <3>11. PageSound(m)'
      <4>1. k \in DOMAIN calls' /\ calls'[k].inv.model = m /\ calls'[k].at = "done"
        BY <1>1, <1>4, <1>5
      <4>2. \/ ~r.ok /\ (g.error \/ r.inv.op = "test")
            \/ /\ g.shown[Field(r.inv.op)].from = k
               /\ r.inv.op \in Changes => g.shown[Field(r.inv.op)].what > 0
        <5>1. CASE x.ok
          BY <1>1, <1>4, <1>6, <3>5, <3>7, <5>1 DEF Right
        <5>2. CASE ~x.ok
          BY <1>1, <1>3, <1>4, <3>5, <5>2, OpFacts
        <5> QED
          BY <5>1, <5>2
      <4>3. ASSUME m = "history", g.shown["points"] # Blank
            PROVE  k # 0 /\ g.shown["points"].what = r.inv.arg
        <5>1. x.inv.op = "points" /\ f = "points" /\ f # "test"
          BY <1>1, <1>3, <4>3, OpFacts
        <5>2. CASE x.ok
          <6>1. g.shown["points"].what = x.inv.arg
            BY <1>6, <3>5, <3>7, <5>1, <5>2 DEF Right
          <6>2. k # 0
            BY DEF ModelsInv, ModelShape, IsSeq
          <6> QED
            BY <1>4, <6>1, <6>2
        <5>3. CASE ~x.ok
          BY <1>1, <1>4, <3>3, <3>4, <3>5, <3>8, <4>3, <5>1, <5>3 DEF PageSound
        <5> QED
          BY <5>2, <5>3
      <4> QED
        BY <1>5, <3>5, <3>10, <4>1, <4>2, <4>3 DEF PageSound
    <3>12. ASSUME NEW o \in Models, o # m PROVE PageShape(page'[o]) /\ PageSound(o)'
      <4>1. PageShape(page[o]) /\ PageSound(o) /\ page'[o] = page[o]
        BY <3>10, <3>12 DEF ModelsInv, ModelShape
      <4>2. page[o].newest # 0 => page[o].newest \in DOMAIN calls /\ page[o].newest # k
        BY <1>1, <3>12, <4>1 DEF PageSound
      <4> QED
        BY <1>5, <4>1, <4>2 DEF PageSound
    <3> QED
      BY <3>9, <3>10, <3>11, <3>12 DEF PagesFit
  <2> QED
    BY <2>1, <2>2
<1>8. /\ conn' = [c \in 1 .. MaxClients |-> conn'[c]]
      /\ \A c \in 1 .. MaxClients : /\ ConnShape(conn'[c]) /\ conn[c].next <= conn'[c].next
                                    /\ conn'[c].wire = conn[c].wire
                                    /\ conn'[c].answers = conn[c].answers
                                    /\ conn'[c].inflight = conn[c].inflight
                                    /\ conn'[c].up = conn[c].up
  BY <1>3, ConnSame
<1>9. /\ calls[k].at # "awaiting" /\ r.at # "awaiting" /\ r.step = calls[k].step
      /\ r.client = calls[k].client
      /\ r.at \in {"queued", "done"} /\ r.ok => Right(r.inv, r.what)
  BY <1>1, <1>3, <1>4, <1>6
<1> QED
  BY <1>2, <1>3, <1>4, <1>7, <1>8, <1>9, CallMoves
LEMMA ModelsInitInv == GuiModelsInit => ModelsInv
<1> SUFFICES ASSUME GuiModelsInit PROVE ModelsInv
  OBVIOUS
<1>1. IsSeq(<<>>) /\ DOMAIN <<>> = {}
  BY DEF IsSeq
<1>2. /\ calls = <<>> /\ current = 1 /\ current \in 1 .. MaxClients
      /\ peer \in [1 .. MaxClients -> 1 .. MaxClients] /\ version \in [1 .. MaxClients -> Nat]
  BY GuiModelsAssumption DEF GuiModelsInit
<1>3. /\ page = [m \in Models |-> page[m]]
      /\ \A m \in Models : PageShape(page[m]) /\ page[m].newest = 0 /\ page[m].shown["points"] = Blank
  BY DEF GuiModelsInit, PageShape, Fields
<1>4. conn = [c \in 1 .. MaxClients |-> [up |-> TRUE, next |-> 1, inflight |-> {},
                                         wire |-> <<>>, answers |-> <<>>]]
  BY DEF GuiModelsInit
<1>5. /\ conn = [c \in 1 .. MaxClients |-> conn[c]]
      /\ \A c \in 1 .. MaxClients :
            ConnShape(conn[c]) /\ conn[c].up /\ conn[c].inflight = {} /\ conn[c].wire = <<>>
            /\ conn[c].answers = <<>>
  BY <1>1, <1>4 DEF ConnShape
<1>6. ModelShape
  BY <1>1, <1>2, <1>3, <1>5 DEF ModelShape
<1>7. ClientsInOrder
  BY <1>5 DEF ClientsInOrder
<1>8. \A k \in DOMAIN calls : CallSound(k)
  BY <1>1, <1>2
<1>9. \A c \in 1 .. MaxClients : ConnSound(c) /\ TableSound(c)
  BY <1>1, <1>2, <1>5 DEF ConnSound, TableSound
<1>10. \A m \in Models : PageSound(m)
  BY <1>3 DEF PageSound
<1> QED
  BY <1>6, <1>7, <1>8, <1>9, <1>10 DEF ModelsInv

LEMMA ModelsStepInv == ModelsInv /\ [GuiModelsNext]_modelVars => ModelsInv'
<1> SUFFICES ASSUME ModelsInv, [GuiModelsNext]_modelVars PROVE ModelsInv'
  OBVIOUS
<1>1. ASSUME NEW i \in Invocations, Invoke(i) PROVE ModelsInv'
  BY <1>1, InvokeInv
<1>2. ASSUME NEW k \in DOMAIN calls,
             acquire_rpc_slot(k) \/ request_rpc(k) \/ request_times_out(k) \/ Apply(k)
      PROVE  ModelsInv'
  BY <1>2, AcquireInv, RequestSentInv, RequestUnsentInv, TimesOutInv, ApplyInv
<1>3. ASSUME NEW c \in 1 .. MaxClients,
             dispatch(c) \/ ClientLost(c) \/ \E ok \in BOOLEAN : Serve(c, ok)
      PROVE  ModelsInv'
  BY <1>3, DispatchInv, ServeInv, ClientLostInv
<1>4. CASE ClientReplaced
  BY <1>4, ClientReplacedInv
<1>5. CASE UNCHANGED modelVars
  <2>1. UNCHANGED <<calls, page, conn, current, peer, version>>
    BY <1>5 DEF modelVars
  <2>2. ModelShape'
    BY <2>1 DEF ModelsInv, ModelShape, IsSeq
  <2>3. ClientsInOrder'
    BY <2>1 DEF ModelsInv, ClientsInOrder
  <2>4. ASSUME NEW c \in 1 .. MaxClients PROVE ConnSound(c)' /\ TableSound(c)'
    <3>1. conn'[c] = conn[c] /\ conn[c].next \in Nat
      BY <2>1 DEF ModelsInv, ModelShape, ConnShape
    <3>2. conn[c].next <= conn'[c].next
      BY <3>1
    <3> QED
      BY <2>1, <3>1, <3>2, ConnKept
  <2>5. \A k \in DOMAIN calls' : CallSound(k)'
    BY <2>1 DEF ModelsInv, CallSound, Known
  <2>6. \A m \in Models : PageSound(m)'
    BY <2>1, PagesKept
  <2> QED
    BY <2>2, <2>3, <2>4, <2>5, <2>6 DEF ModelsInv
<1> QED
  BY <1>1, <1>2, <1>3, <1>4, <1>5 DEF GuiModelsNext

(* GuiModels: a page shows the answer to the question it asked, whatever    *)
(* order workers, time-outs, late answers and replaced clients come in.     *)
THEOREM AnswersAlwaysMatch == GuiModelsSpec => []AnswersMatchTheirQuestions
<1>1. ModelsInv => AnswersMatchTheirQuestions
  <2> SUFFICES ASSUME ModelsInv PROVE AnswersMatchTheirQuestions
    OBVIOUS
  <2>1. \A m \in Models : PageSound(m)
    BY DEF ModelsInv
  <2>2. PageSound("history")
    BY <2>1 DEF Models
  <2>3. ASSUME NEW c \in 1 .. MaxClients
        PROVE  conn[c].inflight = {calls[k].id : k \in {j \in DOMAIN calls :
                                      calls[j].client = c /\ calls[j].at = "awaiting"}}
    BY DEF ModelsInv, TableSound, Waits
  <2> QED
    BY <2>1, <2>2, <2>3 DEF AnswersMatchTheirQuestions, PageSound
<1> QED
  BY <1>1, ModelsInitInv, ModelsStepInv, PTL DEF GuiModelsSpec
-----------------------------------------------------------------------------
(* Wire: the inductive invariant.                                           *)

Streaming == {"read", "watch"}
Commands == {"list", "read", "watch", "rpc"}

CliShape ==
    /\ cli = [cmd |-> cli.cmd, sensors |-> cli.sensors, count |-> cli.count, at |-> cli.at,
              id |-> cli.id, printed |-> cli.printed, todo |-> cli.todo]
    /\ cli.cmd \in Commands /\ cli.count \in Nat /\ cli.id \in Nat \ {0}
    /\ IsSeq(cli.sensors) /\ IsSeq(cli.printed) /\ IsSeq(cli.todo)
    /\ \A i \in DOMAIN cli.sensors : cli.sensors[i] # "rpc"

(* The command asks for its sensors one by one, in order. *)
Asks(c) ==
    /\ Len(c.todo) = Len(c.sensors) + 1 - c.id
    /\ \A j \in DOMAIN c.todo : c.todo[j] = c.sensors[c.id + j - 1]
    /\ \A i \in DOMAIN c.sensors : i < c.id => c.sensors[i] \in Advertised

CommandSound ==
    /\ cli.at = "misled" => torn
    /\ cli.cmd \in Streaming => Asks(cli)
    /\ cli.at \in {"welcome", "rpc", "stream"} /\ cli.cmd \in Streaming => Len(cli.printed) < cli.count
    /\ cli.at = "start" => cli.printed = <<>>
    /\ cli.at = "ok" /\ cli.cmd \in Streaming => Len(cli.printed) = cli.count
    /\ cli.at = "list" => cli.cmd = "list"
    /\ cli.at = "rpc" => cli.cmd # "list" /\ cli.todo # <<>>
    /\ cli.cmd = "rpc" => cli.todo # <<>>
    /\ cli.at = "stream" => cli.cmd \in Streaming /\ cli.todo = <<>>
    /\ \A i \in DOMAIN cli.printed : cli.printed[i] \in Wanted(cli) \cap Advertised

(* What the command has said to the daemon. *)
ClientSays(m) ==
    /\ m.t \in {"Hello", "ListSensors", "Request", "Subscribe", "Unsubscribe", "Goodbye"}
    /\ m.t = "Request" /\ cli.cmd \in Streaming =>
          m.arg \in DOMAIN cli.sensors /\ m.op = cli.sensors[m.arg]
InboxSound == IsSeq(inbox) /\ \A n \in DOMAIN inbox : ClientSays(inbox[n])

(* What the daemon says. *)
DaemonSays(m) ==
    /\ m.t = "Response" /\ m.ok /\ cli.cmd \in Streaming =>
          m.arg \in DOMAIN cli.sensors /\ cli.sensors[m.arg] \in Advertised
    /\ m.t = "Sample" => m.arg \in Advertised

(* Bytes that are whole frames, one after the other, and the end of a frame. *)
IsByte(b) == b = [byte |-> b.byte, of |-> b.of] /\ b.byte \in 0 .. MsgLen(b.of)
Follows(a, b) == IF a.byte < MsgLen(a.of) THEN b.byte = a.byte + 1 /\ b.of = a.of
                 ELSE b.byte = 0
WholeFrames(s) ==
    /\ \A i \in DOMAIN s : IsByte(s[i])
    /\ \A i \in DOMAIN s : i > 1 => Follows(s[i - 1], s[i])
    /\ Len(s) > 0 => s[1].byte = 0 /\ s[Len(s)].byte = MsgLen(s[Len(s)].of)
IsRest(l) ==
    \A j \in DOMAIN l : l[j] = [byte |-> MsgLen(l[1].of) + j - Len(l), of |-> l[1].of]

BytesSound ==
    /\ IsSeq(pipe) /\ \A n \in DOMAIN pipe : DaemonSays(pipe[n].of)
    /\ write = [by |-> write.by, left |-> write.left] /\ (write.left = <<>> => write = NoWrite)
    /\ IsSeq(write.left) /\ \A n \in DOMAIN write.left : DaemonSays(write.left[n].of)
    /\ IsRest(write.left)
    /\ torn \in BOOLEAN /\ (~torn => WholeFrames(pipe \o write.left))

WireInv ==
    /\ CliShape /\ CommandSound /\ InboxSound /\ BytesSound
    /\ subscribed \subseteq Advertised

-----------------------------------------------------------------------------
(* Facts about frames.                                                      *)

LEMMA MsgLens == \A m : MsgLen(m) \in {2, 3}
BY DEF MsgLen

LEMMA Encoded ==
  ASSUME NEW m, NEW f, f = EncodeFrame(m)
  PROVE  /\ IsSeq(f) /\ Len(f) = MsgLen(m) + 1 /\ DOMAIN f = 1 .. (MsgLen(m) + 1)
         /\ \A i \in 1 .. (MsgLen(m) + 1) : f[i] = [byte |-> i - 1, of |-> m]
<1>1. PICK n, X : n = MsgLen(m) + 1 /\ X = {[byte |-> i, of |-> m] : i \in Nat}
  OBVIOUS
<1>2. n \in Nat /\ f = [i \in 1 .. n |-> [byte |-> i - 1, of |-> m]]
  BY <1>1, MsgLens DEF EncodeFrame
<1>3. \A i \in 1 .. n : i - 1 \in Nat
  BY <1>2
<1>4. f \in [1 .. n -> X]
  BY <1>1, <1>2, <1>3
<1>5. f \in Seq(X) /\ Len(f) = n
  BY <1>2, <1>4
<1>6. IsSeq(f)
  BY <1>5, SeqIsSeq
<1> QED
  BY <1>1, <1>2, <1>5, <1>6

(* A frame behind whole frames. *)
LEMMA FrameAdded ==
  ASSUME NEW s, IsSeq(s), WholeFrames(s), NEW m, NEW f, f = EncodeFrame(m), NEW u, u = s \o f
  PROVE  IsSeq(u) /\ WholeFrames(u)
<1>1. PICK l, k, n, e : l = Len(s) /\ k = MsgLen(m) /\ n = k + 1 /\ e = l + n
  OBVIOUS
<1>2. /\ IsSeq(f) /\ Len(f) = n /\ k \in {2, 3} /\ n = k + 1
      /\ \A i \in 1 .. n : f[i] = [byte |-> i - 1, of |-> m]
  BY <1>1, Encoded, MsgLens
<1>3. /\ IsSeq(u) /\ l \in Nat /\ n \in Nat /\ Len(u) = e /\ DOMAIN s = 1 .. l
      /\ DOMAIN u = 1 .. e /\ e = l + n
      /\ \A i \in 1 .. e : /\ i <= l => i \in 1 .. l /\ u[i] = s[i]
                           /\ i > l => i - l \in 1 .. n /\ u[i] = f[i - l]
  <2>1. IsSeq(s) /\ IsSeq(f) /\ u = s \o f /\ l = Len(s) /\ n = Len(f) /\ e = l + n
    BY <1>1, <1>2
  <2>2. Joins(u, s, f, l, n, e)
    BY <2>1, JoinedSeq
  <2> QED
    BY <2>2 DEF Joins
<1>4. ASSUME NEW i \in 1 .. e, i > l
      PROVE  /\ u[i] = [byte |-> i - l - 1, of |-> m] /\ u[i].byte = i - l - 1 /\ u[i].of = m
             /\ i - l - 1 \in 0 .. k
  <2>1. PICK j : j = i - l
    OBVIOUS
  <2>2. u[i] = f[j] /\ j \in 1 .. n /\ j - 1 = i - l - 1 /\ j - 1 \in 0 .. k
    BY <1>2, <1>3, <1>4, <2>1
  <2> QED
    BY <1>2, <2>2
<1>5. /\ \A i \in 1 .. l : IsByte(s[i])
      /\ \A i \in 1 .. l : i > 1 => Follows(s[i - 1], s[i])
      /\ l > 0 => s[1].byte = 0 /\ s[l].byte = MsgLen(s[l].of)
  BY <1>1, <1>3 DEF WholeFrames
<1>7. ASSUME NEW i \in 1 .. e PROVE IsByte(u[i])
  <2>1. CASE i <= l
    BY <1>3, <1>5, <2>1
  <2>2. CASE i > l
    BY <1>1, <1>4, <2>2 DEF IsByte
  <2> QED
    BY <1>3, <2>1, <2>2
<1>8. ASSUME NEW i \in 1 .. e, i > 1 PROVE Follows(u[i - 1], u[i])
  <2>0. PICK h : h = i - 1
    OBVIOUS
  <2>1. h \in 1 .. e /\ i = h + 1
    BY <1>3, <1>8, <2>0
  <2>2. CASE i <= l
    <3>1. i \in 1 .. l /\ h <= l
      BY <1>3, <2>1, <2>2
    <3>2. u[h] = s[h] /\ u[i] = s[i]
      BY <1>3, <2>1, <2>2, <3>1
    <3> QED
      BY <1>5, <1>8, <2>0, <3>1, <3>2
  <2>3. CASE i = l + 1
    <3>1. h = l /\ h <= l /\ i > l /\ l > 0 /\ l \in 1 .. l /\ i - l - 1 = 0
      BY <1>3, <2>1, <2>3
    <3>2. u[h] = s[l] /\ u[i].byte = 0
      BY <1>3, <1>4, <2>1, <3>1
    <3>3. PICK x : x = MsgLen(s[l].of)
      OBVIOUS
    <3>4. x \in {2, 3} /\ s[l].byte = x
      BY <1>5, <3>1, <3>3, MsgLens
    <3>5. ~(u[h].byte < MsgLen(u[h].of))
      BY <3>2, <3>3, <3>4
    <3> QED
      BY <2>0, <3>2, <3>5 DEF Follows
  <2>4. CASE i > l + 1
    <3>1. h > l /\ i > l /\ h - l - 1 < k /\ i - l - 1 = (h - l - 1) + 1
      BY <1>2, <1>3, <2>1, <2>4
    <3>2. /\ u[i].byte = i - l - 1 /\ u[i].of = m
          /\ u[h].byte = h - l - 1 /\ u[h].of = m
      BY <1>4, <2>1, <3>1
    <3> QED
      BY <1>1, <2>0, <3>1, <3>2 DEF Follows
  <2>5. i <= l \/ i = l + 1 \/ i > l + 1
    BY <1>3
  <2> QED
    BY <2>2, <2>3, <2>4, <2>5
<1>9. u[1].byte = 0
  <2>1. 1 \in 1 .. e
    BY <1>2, <1>3
  <2>2. CASE l = 0
    <3>1. 1 > l /\ 1 - l - 1 = 0
      BY <2>2
    <3> QED
      BY <1>4, <2>1, <3>1
  <2>3. CASE l # 0
    <3>1. 1 <= l /\ l > 0
      BY <1>3, <2>3
    <3> QED
      BY <1>3, <1>5, <2>1, <3>1
  <2> QED
    BY <2>2, <2>3
<1>10. u[e].byte = MsgLen(u[e].of)
  <2>1. e \in 1 .. e /\ e > l /\ e - l - 1 = k
    BY <1>2, <1>3
  <2>2. u[e].byte = e - l - 1 /\ u[e].of = m
    BY <1>4, <2>1
  <2> QED
    BY <1>1, <2>1, <2>2
<1> QED
  BY <1>3, <1>7, <1>8, <1>9, <1>10 DEF WholeFrames

(* What is in front of a frame not begun. *)
LEMMA FrameRemoved ==
  ASSUME NEW s, IsSeq(s), NEW f, IsSeq(f), IsRest(f), f # <<>>, Len(f) >= MsgLen(f[1].of) + 1,
         WholeFrames(s \o f)
  PROVE  WholeFrames(s)
<1>1. PICK u, l, n, e, k : /\ u = s \o f /\ l = Len(s) /\ n = Len(f) /\ e = l + n
                           /\ k = MsgLen(f[1].of)
  OBVIOUS
<1>2. Joins(u, s, f, l, n, e)
  BY <1>1, JoinedSeq
<1>3. /\ l \in Nat /\ n \in Nat /\ DOMAIN s = 1 .. l /\ DOMAIN f = 1 .. n /\ e = l + n
      /\ DOMAIN u = 1 .. e /\ n # 0
      /\ \A i \in 1 .. e : /\ i <= l => i \in 1 .. l /\ u[i] = s[i]
                           /\ i > l => i - l \in 1 .. n /\ u[i] = f[i - l]
  <2>1. n # 0
    BY <1>1, <1>2 DEF IsSeq, Joins
  <2> QED
    BY <1>2, <2>1 DEF Joins
<1>4. k \in {2, 3} /\ n >= k + 1
  BY <1>1, MsgLens
<1>5. /\ \A i \in 1 .. e : IsByte(u[i])
      /\ \A i \in 1 .. e : i > 1 => Follows(u[i - 1], u[i])
      /\ u[1].byte = 0
  <2>1. Len(u) > 0
    BY <1>2, <1>3 DEF Joins
  <2> QED
    BY <1>1, <1>3, <2>1 DEF WholeFrames
<1>6. \A i \in 1 .. l : i \in 1 .. e /\ i <= l /\ u[i] = s[i]
  BY <1>3
<1>7. f[1] = [byte |-> k + 1 - n, of |-> f[1].of] /\ f[1].byte = k + 1 - n
  <2>1. 1 \in DOMAIN f
    BY <1>3
  <2> QED
    BY <1>1, <2>1 DEF IsRest
<1>8. ASSUME l > 0 PROVE s[l].byte = MsgLen(s[l].of) /\ s[1].byte = 0
  <2>1. PICK h, x : h = l + 1 /\ x = MsgLen(s[l].of)
    OBVIOUS
  <2>2. /\ h \in 1 .. e /\ h > l /\ h - l = 1 /\ h - 1 = l /\ h > 1 /\ l \in 1 .. l
        /\ 1 \in 1 .. l /\ x \in {2, 3}
    BY <1>3, <1>8, <2>1, MsgLens
  <2>3. u[h] = f[1] /\ u[l] = s[l] /\ u[1] = s[1]
    BY <1>3, <1>6, <2>2
  <2>4. IsByte(u[h]) /\ Follows(u[l], u[h]) /\ IsByte(u[l])
    BY <1>5, <1>6, <2>2
  <2>5. s[l].byte \in 0 .. x
    BY <2>1, <2>3, <2>4 DEF IsByte
  <2>6. f[1].byte <= 0
    BY <1>3, <1>4, <1>7
  <2>7. ~(s[l].byte < x)
    BY <2>1, <2>3, <2>4, <2>5, <2>6 DEF Follows
  <2>8. s[l].byte = x
    BY <2>2, <2>5, <2>7
  <2> QED
    BY <1>5, <2>1, <2>3, <2>8
<1>9. ASSUME NEW i \in 1 .. l, i > 1 PROVE Follows(s[i - 1], s[i])
  <2>1. i - 1 \in 1 .. l
    BY <1>3, <1>9
  <2> QED
    BY <1>5, <1>6, <1>9, <2>1
<1> QED
  BY <1>1, <1>3, <1>5, <1>6, <1>8, <1>9 DEF WholeFrames

(* What follows the end of a frame. *)
LEMMA FrameSkipped ==
  ASSUME NEW u, WholeFrames(u), NEW k, NEW n, NEW l, NEW v, Cut(v, u, k, n, l), Len(u) = l,
         k \in 1 .. l, l = k + n, u[k].byte = MsgLen(u[k].of)
  PROVE  WholeFrames(v)
<1>1. /\ l \in Nat /\ k \in Nat /\ n \in Nat /\ Len(v) = n /\ DOMAIN u = 1 .. l
      /\ DOMAIN v = 1 .. n /\ \A i \in 1 .. n : k + i \in 1 .. l /\ v[i] = u[k + i]
  BY DEF Cut
<1>2. /\ \A i \in 1 .. l : IsByte(u[i])
      /\ \A i \in 1 .. l : i > 1 => Follows(u[i - 1], u[i])
      /\ u[l].byte = MsgLen(u[l].of)
  <2>1. Len(u) > 0
    BY <1>1
  <2> QED
    BY <1>1, <2>1 DEF WholeFrames
<1>3. \A i \in 1 .. n : IsByte(v[i])
  BY <1>1, <1>2
<1>4. ASSUME NEW i \in 1 .. n PROVE Follows(u[k + i - 1], v[i])
  <2>1. PICK j : j = k + i
    OBVIOUS
  <2>2. j \in 1 .. l /\ j > 1 /\ v[i] = u[j]
    BY <1>1, <2>1
  <2> QED
    BY <1>2, <2>1, <2>2
<1>5. ASSUME NEW i \in 1 .. n, i > 1 PROVE Follows(v[i - 1], v[i])
  <2>1. PICK h : h = i - 1
    OBVIOUS
  <2>2. h \in 1 .. n /\ k + i - 1 = k + h
    BY <1>1, <1>5, <2>1
  <2> QED
    BY <1>1, <1>4, <2>1, <2>2
<1>6. ASSUME n > 0 PROVE v[1].byte = 0 /\ v[n].byte = MsgLen(v[n].of)
  <2>1. 1 \in 1 .. n /\ n \in 1 .. n /\ k + 1 - 1 = k /\ k + n = l
    BY <1>1, <1>6
  <2>2. v[n] = u[l] /\ Follows(u[k], v[1])
    BY <1>1, <1>4, <2>1
  <2>3. PICK x : x = MsgLen(u[k].of)
    OBVIOUS
  <2>4. ~(u[k].byte < x)
    BY <2>3, MsgLens
  <2> QED
    BY <1>2, <2>2, <2>3, <2>4 DEF Follows
<1> QED
  BY <1>1, <1>3, <1>5, <1>6 DEF WholeFrames

(* The frame at the front. *)
LEMMA FrameAtFront ==
  ASSUME NEW u, IsSeq(u), WholeFrames(u), NEW m, m = u[1].of, Len(u) >= MsgLen(m) + 1,
         NEW i \in 1 .. (MsgLen(m) + 1)
  PROVE  u[i] = [byte |-> i - 1, of |-> m]
<1>1. PICK k, l : k = MsgLen(m) /\ l = Len(u)
  OBVIOUS
<1>2. k \in {2, 3} /\ l \in Nat /\ DOMAIN u = 1 .. l /\ l >= k + 1 /\ i \in 1 .. (k + 1)
  BY <1>1, MsgLens DEF IsSeq
<1>3. /\ \A j \in 1 .. l : IsByte(u[j])
      /\ \A j \in 1 .. l : j > 1 => Follows(u[j - 1], u[j])
      /\ u[1].byte = 0
  <2>1. Len(u) > 0
    BY <1>1, <1>2
  <2> QED
    BY <1>1, <1>2, <2>1 DEF WholeFrames
<1>4. ASSUME NEW j \in 1 .. l PROVE u[j] = [byte |-> u[j].byte, of |-> u[j].of]
  BY <1>3 DEF IsByte
<1>5. ASSUME NEW j \in 1 .. k, u[j].byte = j - 1, u[j].of = m
      PROVE  u[j + 1].byte = j /\ u[j + 1].of = m
  <2>1. PICK h : h = j + 1
    OBVIOUS
  <2>2. h \in 1 .. l /\ h > 1 /\ h - 1 = j /\ (j - 1) + 1 = j /\ j - 1 < k
    BY <1>2, <2>1
  <2>3. Follows(u[j], u[h])
    BY <1>3, <2>2
  <2> QED
    BY <1>1, <1>5, <2>1, <2>2, <2>3 DEF Follows
<1>6. u[1].byte = 1 - 1 /\ u[1].of = m
  BY <1>3
<1>7. u[2].byte = 1 /\ u[2].of = m
  <2>1. 1 \in 1 .. k /\ 1 + 1 = 2
    BY <1>2
  <2> QED
    BY <1>5, <1>6, <2>1
<1>8. u[3].byte = 2 /\ u[3].of = m
  <2>1. 2 \in 1 .. k /\ 2 + 1 = 3 /\ 2 - 1 = 1
    BY <1>2
  <2> QED
    BY <1>5, <1>7, <2>1
<1>9. k = 3 => u[4].byte = 3 /\ u[4].of = m
  <2>1. k = 3 => 3 \in 1 .. k /\ 3 + 1 = 4 /\ 3 - 1 = 2
    BY <1>2
  <2> QED
    BY <1>5, <1>8, <2>1
<1>10. u[i].byte = i - 1 /\ u[i].of = m
  <2>1. i \in {1, 2, 3} \/ (k = 3 /\ i = 4)
    BY <1>2
  <2> QED
    BY <1>6, <1>7, <1>8, <1>9, <2>1
<1>11. i \in 1 .. l
  BY <1>2
<1> QED
  BY <1>4, <1>10, <1>11
-----------------------------------------------------------------------------
(* Wire: the bytes, step by step.                                           *)

SameCommand == cli'.cmd = cli.cmd /\ cli'.sensors = cli.sensors

LEMMA StillSaid ==
  ASSUME SameCommand
  PROVE  \A m : (DaemonSays(m) => DaemonSays(m)') /\ (ClientSays(m) => ClientSays(m)')
BY DEF SameCommand, DaemonSays, ClientSays

LEMMA BytesKept ==
  ASSUME BytesSound, UNCHANGED <<pipe, write, torn>>, SameCommand
  PROVE  BytesSound'
<1>1. PICK p, w : p = pipe /\ w = write
  OBVIOUS
<1>2. p = pipe' /\ w = write' /\ torn' = torn
  BY <1>1
<1>3. /\ IsSeq(p) /\ \A n \in DOMAIN p : DaemonSays(p[n].of)'
      /\ w = [by |-> w.by, left |-> w.left] /\ (w.left = <<>> => w = NoWrite)
      /\ IsSeq(w.left) /\ \A n \in DOMAIN w.left : DaemonSays(w.left[n].of)'
      /\ IsRest(w.left)
      /\ torn \in BOOLEAN /\ (~torn => WholeFrames(p \o w.left))
  <2>1. \A m : DaemonSays(m) => DaemonSays(m)'
    BY StillSaid
  <2> QED
    BY <1>1, <2>1 DEF BytesSound
<1> QED
  BY <1>2, <1>3 DEF BytesSound

(* What BytesSound asks of a pipe and a write. *)
LEMMA BytesAre ==
  ASSUME NEW p, NEW b, NEW l, pipe' = p, write' = [by |-> b, left |-> l],
         IsSeq(p), \A n \in DOMAIN p : DaemonSays(p[n].of)',
         IsSeq(l), \A n \in DOMAIN l : DaemonSays(l[n].of)', IsRest(l), l = <<>> => b = "none",
         torn' \in BOOLEAN, ~torn' => WholeFrames(p \o l)
  PROVE  BytesSound'
<1>1. PICK w : w = write'
  OBVIOUS
<1>2. w.by = b /\ w.left = l /\ w = [by |-> b, left |-> l]
  BY <1>1
<1>3. w.left = <<>> => w = NoWrite
  BY <1>2 DEF NoWrite
<1>4. IsRest(w.left) /\ (~torn' => WholeFrames(p \o w.left))
  BY <1>2
<1> QED
  BY <1>1, <1>2, <1>3, <1>4 DEF BytesSound

LEMMA NothingLeft ==
  /\ NoWrite = [by |-> "none", left |-> <<>>] /\ IsSeq(<<>>) /\ IsRest(<<>>) /\ DOMAIN <<>> = {}
  /\ \A s : IsSeq(s) => s \o <<>> = s
<1>1. NoWrite = [by |-> "none", left |-> <<>>] /\ IsSeq(<<>>) /\ IsRest(<<>>) /\ DOMAIN <<>> = {}
  BY DEF NoWrite, IsSeq, IsRest
<1>2. ASSUME NEW s, IsSeq(s) PROVE s \o <<>> = s
  <2> DEFINE X == {s[k] : k \in DOMAIN s}
  <2>1. s \in Seq(X)
    BY <1>2, SeqOver
  <2> HIDE DEF X
  <2> QED
    BY <2>1, ConcatEmptySeq
<1> QED
  BY <1>1, <1>2

LEMMA FrameBegun ==
  ASSUME BytesSound, NEW m, DaemonSays(m), NEW b, write_frame(b, m), UNCHANGED <<pipe, torn>>,
         SameCommand
  PROVE  BytesSound'
<1>1. PICK p, f : p = pipe /\ f = EncodeFrame(m)
  OBVIOUS
<1>2. write = NoWrite /\ write' = [by |-> b, left |-> f] /\ pipe' = p
  BY <1>1 DEF write_frame
<1>3. PICK k, n : k = MsgLen(m) /\ n = k + 1
  OBVIOUS
<1>4. /\ IsSeq(f) /\ Len(f) = n /\ DOMAIN f = 1 .. n /\ k \in {2, 3}
      /\ \A i \in 1 .. n : f[i] = [byte |-> i - 1, of |-> m]
  BY <1>1, <1>3, Encoded, MsgLens
<1>5. \A i \in 1 .. n : f[i].of = m
  BY <1>4
<1>6. f # <<>>
  <2>1. 1 \in 1 .. n
    BY <1>3, <1>4
  <2> QED
    BY <1>4, <2>1
<1>7. IsRest(f)
  <2>1. f[1].of = m
    BY <1>3, <1>4
  <2>2. \A j \in 1 .. n : k + j - n = j - 1
    BY <1>3, <1>4
  <2> QED
    BY <1>3, <1>4, <2>1, <2>2 DEF IsRest
<1>8. /\ IsSeq(p) /\ \A i \in DOMAIN p : DaemonSays(p[i].of)'
      /\ \A i \in DOMAIN f : DaemonSays(f[i].of)'
  BY <1>1, <1>4, <1>5, StillSaid DEF BytesSound
<1>9. ~torn' => WholeFrames(p \o f)
  <2>1. p \o <<>> = p
    BY <1>8, NothingLeft
  <2>2. ~torn => WholeFrames(p)
    BY <1>1, <1>2, <2>1, NothingLeft DEF BytesSound
  <2> QED
    BY <1>1, <1>8, <2>2, FrameAdded
<1>10. torn' \in BOOLEAN
  BY DEF BytesSound
<1> QED
  BY <1>2, <1>4, <1>6, <1>7, <1>8, <1>9, <1>10, BytesAre

(* A write that goes on moves bytes and changes none. *)
LEMMA WriteGoesOn ==
  ASSUME BytesSound, WriteProgresses PROVE BytesSound'
<1>1. PICK p, b, l, room : p = pipe /\ b = write.by /\ l = write.left /\ room = PipeCap - Len(p)
  OBVIOUS
<1>2. PICK e, n : e = Len(l) /\ n = IF room < e THEN room ELSE e
  OBVIOUS
<1>3. PICK x, y : x = SubSeq(l, 1, n) /\ y = SubSeq(l, n + 1, e)
  OBVIOUS
<1>4. /\ IsSeq(p) /\ IsSeq(l) /\ IsRest(l) /\ torn \in BOOLEAN
      /\ write = [by |-> b, left |-> l] /\ (~torn => WholeFrames(p \o l))
      /\ \A i \in DOMAIN p : DaemonSays(p[i].of)
      /\ \A i \in DOMAIN l : DaemonSays(l[i].of)
  BY <1>1 DEF BytesSound
<1>5. /\ n > 0 /\ pipe' = p \o x /\ UNCHANGED <<cli, torn>>
      /\ write' = IF n = e THEN NoWrite ELSE [by |-> b, left |-> y]
  <2>1. PICK w : w = write
    OBVIOUS
  <2>2. w = [by |-> b, left |-> l]
    BY <1>4, <2>1
  <2>3. [w EXCEPT !.left = y] = [by |-> b, left |-> y]
    BY <2>2
  <2>4. write' = IF n = e THEN NoWrite ELSE [w EXCEPT !.left = y]
    BY <1>1, <1>2, <1>3, <2>1 DEF WriteProgresses
  <2> QED
    BY <1>1, <1>2, <1>3, <2>3, <2>4 DEF WriteProgresses
<1>6. e \in Nat /\ n \in 1 .. e /\ DOMAIN l = 1 .. e
  <2>1. e \in Nat /\ Len(p) \in Nat /\ DOMAIN l = 1 .. e
    BY <1>2, <1>4 DEF IsSeq
  <2>2. room \in Int
    BY <1>1, <2>1, WireAssumption
  <2> QED
    BY <1>2, <1>5, <2>1, <2>2
<1>7. PICK c, d : c = n + 1 /\ d = e - n
  OBVIOUS
<1>8. Cut(x, l, 0, n, e)
  <2>1. 1 = 0 + 1 /\ n = 0 + n /\ n <= e /\ n \in Nat /\ 0 \in Nat
    BY <1>6
  <2> QED
    BY <1>2, <1>3, <1>4, <2>1, CutSeq
<1>9. Cut(y, l, n, d, e)
  <2>1. e = n + d /\ e <= e /\ n \in Nat /\ d \in Nat
    BY <1>6, <1>7
  <2>2. y = SubSeq(l, c, e)
    BY <1>3, <1>7
  <2> QED
    BY <1>2, <1>4, <1>7, <2>1, <2>2, CutSeq
<1>10. /\ IsSeq(x) /\ DOMAIN x = 1 .. n /\ \A i \in 1 .. n : i \in 1 .. e /\ x[i] = l[i]
  BY <1>8 DEF Cut
<1>11. IsSeq(y) /\ Len(y) = d /\ DOMAIN y = 1 .. d /\ \A i \in 1 .. d : n + i \in 1 .. e /\ y[i] = l[n + i]
  BY <1>9 DEF Cut
<1>12. PICK q : q = p \o x
  OBVIOUS
<1>13. IsSeq(q) /\ \A i \in DOMAIN q : DaemonSays(q[i].of)
  <2>1. PICK j, k : j = Len(p) /\ k = j + n
    OBVIOUS
  <2>2. Len(x) = n
    BY <1>8 DEF Cut
  <2>3. Joins(q, p, x, j, n, k)
    BY <1>4, <1>10, <1>12, <2>1, <2>2, JoinedSeq
  <2>4. ASSUME NEW i \in DOMAIN q PROVE DaemonSays(q[i].of)
    <3>1. i \in 1 .. k /\ j \in Nat /\ k \in Nat /\ (i <= j \/ i > j)
      BY <2>3 DEF Joins
    <3>2. CASE i <= j
      BY <1>4, <2>3, <3>1, <3>2 DEF Joins
    <3>3. CASE i > j
      <4>1. PICK h : h = i - j
        OBVIOUS
      <4>2. h \in 1 .. n /\ q[i] = x[h]
        BY <2>3, <3>1, <3>3, <4>1 DEF Joins
      <4>3. q[i] = l[h] /\ h \in DOMAIN l
        BY <1>6, <1>10, <4>2
      <4> QED
        BY <1>4, <4>3
    <3> QED
      BY <3>1, <3>2, <3>3
  <2> QED
    BY <2>3, <2>4 DEF Joins
<1>14. q \o y = p \o l
  <2> DEFINE X == {p[i] : i \in DOMAIN p} \cup {l[i] : i \in DOMAIN l}
  <2>1. p \in Seq(X) /\ l \in Seq(X)
    BY <1>4, SeqOver
  <2>2. \A i \in DOMAIN x : x[i] \in X
    BY <1>6, <1>10
  <2>3. \A i \in DOMAIN y : y[i] \in X
    BY <1>6, <1>11
  <2> HIDE DEF X
  <2>4. x \in Seq(X) /\ y \in Seq(X)
    BY <1>10, <1>11, <2>2, <2>3, SeqOver
  <2>5. x \o y = l
    <3>1. x \o y = SubSeq(l, 1, e)
      <4>1. 1 \in 1 .. e + 1 /\ n \in 1 - 1 .. e /\ e \in n .. e
        BY <1>6
      <4> QED
        BY <1>2, <1>3, <2>1, <4>1, ConcatAdjacentSubSeq
    <3> QED
      BY <1>2, <2>1, <3>1, SubSeqFull
  <2>6. (p \o x) \o y = p \o (x \o y)
    BY <2>1, <2>4, ConcatAssociative
  <2> QED
    BY <1>12, <2>5, <2>6
<1>15. IsRest(y)
  <2> SUFFICES ASSUME NEW i \in DOMAIN y PROVE y[i] = [byte |-> MsgLen(y[1].of) + i - Len(y), of |-> y[1].of]
    BY DEF IsRest
  <2>1. PICK m, k, j : m = l[1].of /\ k = MsgLen(m) /\ j = n + i
    OBVIOUS
  <2>2. i \in 1 .. d /\ j \in 1 .. e /\ y[i] = l[j] /\ k \in Int
    BY <1>11, <2>1, MsgLens
  <2>3. y[i] = [byte |-> k + j - e, of |-> m]
    BY <1>2, <1>4, <1>6, <2>1, <2>2 DEF IsRest
  <2>4. k + j - e = k + i - d
    BY <1>6, <1>7, <2>1, <2>2
  <2>5. y[1].of = m
    <3>1. PICK h : h = n + 1
      OBVIOUS
    <3>2. 1 \in 1 .. d /\ h \in 1 .. e
      BY <1>6, <1>7, <2>2, <3>1
    <3>3. y[1] = l[h]
      BY <1>11, <3>1, <3>2
    <3>4. h \in DOMAIN l
      BY <1>4, <1>6, <3>2
    <3>5. l[h] = [byte |-> MsgLen(l[1].of) + h - Len(l), of |-> l[1].of]
      BY <1>4, <3>4 DEF IsRest
    <3>6. l[h].of = m
      BY <2>1, <3>5
    <3> QED
      BY <3>3, <3>6
  <2> QED
    BY <1>11, <2>1, <2>3, <2>4, <2>5
<1>16. SameCommand
  BY <1>5 DEF SameCommand
<1>17. \A i \in DOMAIN q : DaemonSays(q[i].of)'
  BY <1>13, <1>16, StillSaid
<1>18. CASE n = e
  <2>1. d = 0 /\ DOMAIN y = {}
    BY <1>6, <1>7, <1>11, <1>18
  <2>2. y = <<>>
    BY <1>11, <2>1 DEF IsSeq
  <2>3. ~torn' => WholeFrames(q \o <<>>)
    BY <1>4, <1>5, <1>14, <2>2
  <2>4. write' = [by |-> "none", left |-> <<>>] /\ pipe' = q /\ torn' \in BOOLEAN
    BY <1>4, <1>5, <1>12, <1>18, NothingLeft
  <2>5. IsSeq(<<>>) /\ IsRest(<<>>) /\ \A i \in DOMAIN <<>> : DaemonSays(<<>>[i].of)'
    BY NothingLeft
  <2> QED
    BY <1>13, <1>17, <2>3, <2>4, <2>5, BytesAre
<1>19. CASE n # e
  <2>1. d > 0 /\ y # <<>>
    BY <1>6, <1>7, <1>11, <1>19
  <2>2. write' = [by |-> b, left |-> y] /\ pipe' = q /\ torn' \in BOOLEAN
    BY <1>4, <1>5, <1>12, <1>19
  <2>3. \A i \in DOMAIN y : DaemonSays(y[i].of)'
    BY <1>4, <1>6, <1>11, <1>16, StillSaid
  <2>4. ~torn' => WholeFrames(q \o y)
    BY <1>4, <1>5, <1>14
  <2> QED
    BY <1>11, <1>13, <1>15, <1>17, <2>1, <2>2, <2>3, <2>4, BytesAre
<1> QED
  BY <1>18, <1>19
(* A write given up leaves whole frames, unless part of its own was written. *)
LEMMA WriteGivenUp ==
  ASSUME BytesSound, SocketWriteTimesOut PROVE BytesSound'
<1>1. PICK p, l, m : p = pipe /\ l = write.left /\ m = l[1].of
  OBVIOUS
<1>2. /\ write # NoWrite /\ torn' = (torn \/ Len(l) < Len(EncodeFrame(m))) /\ write' = NoWrite
      /\ UNCHANGED <<cli, pipe>>
  BY <1>1 DEF SocketWriteTimesOut, WriteFails
<1>3. /\ IsSeq(p) /\ IsSeq(l) /\ IsRest(l) /\ l # <<>> /\ torn \in BOOLEAN
      /\ ~torn => WholeFrames(p \o l)
      /\ \A i \in DOMAIN p : DaemonSays(p[i].of)
  BY <1>1, <1>2 DEF BytesSound
<1>4. ASSUME ~torn' PROVE WholeFrames(p \o <<>>)
  <2>1. PICK n, k : n = Len(l) /\ k = MsgLen(m)
    OBVIOUS
  <2>2. Len(EncodeFrame(m)) = k + 1
    BY <2>1, Encoded
  <2>3. ~torn /\ ~(n < k + 1) /\ n \in Nat /\ k \in {2, 3}
    BY <1>2, <1>3, <1>4, <2>1, <2>2, MsgLens DEF IsSeq
  <2>4. n >= k + 1
    BY <2>3
  <2>5. WholeFrames(p)
    BY <1>1, <1>3, <2>1, <2>3, <2>4, FrameRemoved
  <2> QED
    BY <1>3, <2>5, NothingLeft
<1>5. SameCommand
  BY <1>2 DEF SameCommand
<1>6. \A i \in DOMAIN p : DaemonSays(p[i].of)'
  BY <1>3, <1>5, StillSaid
<1>7. pipe' = p /\ write' = [by |-> "none", left |-> <<>>] /\ torn' \in BOOLEAN
  BY <1>1, <1>2, NothingLeft
<1>8. IsSeq(<<>>) /\ IsRest(<<>>) /\ \A i \in DOMAIN <<>> : DaemonSays(<<>>[i].of)'
  BY NothingLeft
<1> QED
  BY <1>3, <1>4, <1>6, <1>7, <1>8, BytesAre

(* The command takes the frame at the front. *)
LEMMA FrameTaken ==
  ASSUME BytesSound, Arrived, Aligned, Consume(FrameSize), UNCHANGED <<write, torn>>, SameCommand
  PROVE  BytesSound' /\ DaemonSays(pipe[1].of)
<1>1. PICK p, b, l, m : p = pipe /\ b = write.by /\ l = write.left /\ m = p[1].of
  OBVIOUS
<1>2. PICK k, e, n : k = MsgLen(m) + 1 /\ e = Len(p) /\ n = e - k
  OBVIOUS
<1>3. PICK q, c : q = SubSeq(p, c, e) /\ c = k + 1
  OBVIOUS
<1>4. /\ IsSeq(p) /\ IsSeq(l) /\ IsRest(l) /\ torn \in BOOLEAN
      /\ write = [by |-> b, left |-> l] /\ (~torn => WholeFrames(p \o l))
      /\ \A i \in DOMAIN p : DaemonSays(p[i].of)
      /\ \A i \in DOMAIN l : DaemonSays(l[i].of)
      /\ l = <<>> => b = "none"
  BY <1>1 DEF BytesSound, NoWrite
<1>5. /\ pipe' = q /\ e >= k /\ SubSeq(p, 1, k) = EncodeFrame(m) /\ UNCHANGED <<write, torn>>
  BY <1>1, <1>2, <1>3 DEF Consume, FrameSize, Arrived, Aligned
<1>6. k \in {3, 4} /\ e \in Nat /\ n \in Nat /\ e = k + n /\ k - 1 = MsgLen(m)
  <2>1. MsgLen(m) \in {2, 3} /\ e \in Nat
    BY <1>2, <1>4, MsgLens DEF IsSeq
  <2> QED
    BY <1>2, <1>5, <2>1
<1>7. Cut(q, p, k, n, e)
  <2>1. k \in Nat /\ e <= e
    BY <1>6
  <2> QED
    BY <1>2, <1>3, <1>4, <1>6, <2>1, CutSeq
<1>8. /\ IsSeq(q) /\ Len(q) = n /\ DOMAIN q = 1 .. n /\ DOMAIN p = 1 .. e
      /\ \A i \in 1 .. n : k + i \in 1 .. e /\ q[i] = p[k + i]
  BY <1>7 DEF Cut
<1>9. p[k].byte = k - 1 /\ p[k].of = m
  <2>1. PICK x, f : x = SubSeq(p, 1, k) /\ f = EncodeFrame(m)
    OBVIOUS
  <2>2. Cut(x, p, 0, k, e)
    <3>1. 1 = 0 + 1 /\ k = 0 + k /\ k <= e /\ k \in Nat /\ 0 \in Nat
      BY <1>5, <1>6
    <3> QED
      BY <1>2, <1>4, <2>1, <3>1, CutSeq
  <2>3. k \in 1 .. k /\ 0 + k = k
    BY <1>6
  <2>4. x[k] = p[k]
    BY <2>2, <2>3 DEF Cut
  <2>5. k \in 1 .. (MsgLen(m) + 1)
    BY <1>2, <2>3
  <2>6. f[k] = [byte |-> k - 1, of |-> m]
    BY <2>1, <2>5, Encoded
  <2>7. x = f
    BY <1>5, <2>1
  <2>8. p[k] = [byte |-> k - 1, of |-> m]
    BY <2>4, <2>6, <2>7
  <2> QED
    BY <2>8
<1>10. DaemonSays(pipe[1].of)
  <2>1. 1 \in DOMAIN p
    BY <1>5, <1>6, <1>8
  <2> QED
    BY <1>1, <1>4, <2>1
<1>11. \A i \in DOMAIN q : DaemonSays(q[i].of)'
  BY <1>4, <1>8, StillSaid
<1>12. \A i \in DOMAIN l : DaemonSays(l[i].of)'
  BY <1>4, StillSaid
<1>13. ASSUME ~torn PROVE WholeFrames(q \o l)
  <2>1. PICK u, v, h, d, g : /\ u = p \o l /\ v = q \o l /\ h = Len(l) /\ d = e + h /\ g = n + h
    OBVIOUS
  <2>2. Joins(u, p, l, e, h, d)
    BY <1>2, <1>4, <2>1, JoinedSeq
  <2>3. Joins(v, q, l, n, h, g)
    BY <1>4, <1>8, <2>1, JoinedSeq
  <2>4. /\ h \in Nat /\ g = n + h /\ d = e + h /\ d = k + g /\ g \in Nat /\ d \in Nat
        /\ DOMAIN u = 1 .. d /\ Len(u) = d /\ DOMAIN v = 1 .. g /\ Len(v) = g /\ IsSeq(v)
    <3>1. /\ h \in Nat /\ DOMAIN u = 1 .. d /\ Len(u) = d /\ DOMAIN v = 1 .. g /\ Len(v) = g
          /\ IsSeq(v) /\ g = n + h /\ d = e + h
      BY <2>2, <2>3 DEF Joins
    <3> QED
      BY <1>6, <3>1
  <2>5. ASSUME NEW i \in 1 .. g PROVE k + i \in 1 .. d /\ v[i] = u[k + i]
    <3>1. PICK j : j = k + i
      OBVIOUS
    <3>2. j \in 1 .. d /\ (i <= n <=> j <= e) /\ (i > n <=> j > e) /\ (i <= n \/ i > n) /\ i - n = j - e
      BY <1>6, <2>4, <3>1
    <3>3. CASE i <= n
      <4>1. i \in 1 .. n /\ v[i] = q[i]
        BY <2>3, <3>3 DEF Joins
      <4>2. u[j] = p[j]
        BY <2>2, <3>2, <3>3 DEF Joins
      <4> QED
        BY <1>8, <3>1, <3>2, <4>1, <4>2
    <3>4. CASE i > n
      <4>1. v[i] = l[i - n]
        BY <2>3, <3>4 DEF Joins
      <4>2. u[j] = l[j - e]
        BY <2>2, <3>2, <3>4 DEF Joins
      <4> QED
        BY <3>1, <3>2, <4>1, <4>2
    <3> QED
      BY <3>2, <3>3, <3>4
  <2>6. Cut(v, u, k, g, d)
    <3>1. k \in Nat /\ k + g <= d
      BY <1>6, <2>4
    <3> QED
      BY <2>4, <2>5, <3>1 DEF Cut
  <2>7. u[k].byte = MsgLen(u[k].of) /\ k \in 1 .. d
    <3>1. k \in 1 .. d /\ k <= e
      BY <1>5, <1>6, <2>4
    <3>2. u[k] = p[k]
      BY <2>2, <3>1 DEF Joins
    <3> QED
      BY <1>6, <1>9, <3>1, <3>2
  <2>8. WholeFrames(u)
    BY <1>4, <1>13, <2>1
  <2>9. WholeFrames(v)
    BY <2>4, <2>6, <2>7, <2>8, FrameSkipped
  <2> QED
    BY <2>1, <2>9
<1>14. BytesSound'
  <2>1. write' = [by |-> b, left |-> l] /\ torn' \in BOOLEAN /\ (~torn' => WholeFrames(q \o l))
    BY <1>4, <1>5, <1>13
  <2> QED
    BY <1>4, <1>5, <1>8, <1>11, <1>12, <2>1, BytesAre
<1> QED
  BY <1>10, <1>14

(* What has arrived begins with a frame, unless a write was given up half way. *)
LEMMA NeverMisled ==
  ASSUME BytesSound, ~torn, Arrived PROVE Aligned
<1>1. PICK p, l, m : p = pipe /\ l = write.left /\ m = p[1].of
  OBVIOUS
<1>2. PICK k, e, h, d, u : /\ k = MsgLen(m) + 1 /\ e = Len(p) /\ h = Len(l) /\ d = e + h
                           /\ u = p \o l
  OBVIOUS
<1>3. IsSeq(p) /\ IsSeq(l) /\ WholeFrames(u) /\ p # <<>>
  BY <1>1, <1>2 DEF BytesSound, Arrived
<1>4. Joins(u, p, l, e, h, d)
  BY <1>2, <1>3, JoinedSeq
<1>5. /\ e \in Nat /\ h \in Nat /\ d = e + h /\ DOMAIN p = 1 .. e /\ DOMAIN u = 1 .. d /\ e # 0
      /\ IsSeq(u) /\ Len(u) = d
      /\ \A i \in 1 .. d : i <= e => u[i] = p[i]
  <2>1. e # 0
    BY <1>2, <1>3 DEF IsSeq
  <2> QED
    BY <1>4, <2>1 DEF Joins
<1>6. u[1] = p[1] /\ u[1].byte = 0
  <2>1. 1 \in 1 .. d /\ 1 <= e /\ Len(u) > 0
    BY <1>5
  <2> QED
    BY <1>3, <1>5, <2>1 DEF WholeFrames
<1>7. e >= k /\ k \in {3, 4}
  <2>1. MsgLen(m) \in {2, 3}
    BY MsgLens
  <2> QED
    BY <1>1, <1>2, <1>6, <2>1 DEF Arrived, FrameSize
<1>8. PICK x, f : x = SubSeq(p, 1, k) /\ f = EncodeFrame(m)
  OBVIOUS
<1>9. Cut(x, p, 0, k, e)
  <2>1. 1 = 0 + 1 /\ k = 0 + k /\ k <= e /\ k \in Nat /\ 0 \in Nat
    BY <1>5, <1>7
  <2> QED
    BY <1>2, <1>3, <1>8, <2>1, CutSeq
<1>10. IsSeq(f) /\ Len(f) = k /\ \A i \in 1 .. k : f[i] = [byte |-> i - 1, of |-> m]
  BY <1>2, <1>8, Encoded
<1>11. ASSUME NEW i \in 1 .. k PROVE x[i] = f[i]
  <2>1. i \in 1 .. d /\ i <= e /\ 0 + i = i /\ d >= k
    BY <1>5, <1>7
  <2>2. x[i] = p[i] /\ u[i] = p[i]
    BY <1>5, <1>9, <2>1 DEF Cut
  <2>3. m = u[1].of /\ Len(u) >= MsgLen(m) + 1 /\ i \in 1 .. (MsgLen(m) + 1)
    BY <1>1, <1>2, <1>5, <1>6, <2>1
  <2>4. u[i] = [byte |-> i - 1, of |-> m]
    <3>1. IsSeq(u) /\ WholeFrames(u)
      BY <1>3, <1>5
    <3> QED
      BY <2>3, <3>1, FrameAtFront, SMTT(60)
  <2> QED
    BY <1>10, <2>2, <2>4
<1>12. x = f
  <2>1. IsSeq(x) /\ Len(x) = k
    BY <1>9 DEF Cut
  <2> QED
    BY <1>10, <1>11, <2>1 DEF IsSeq
<1> QED
  BY <1>1, <1>2, <1>6, <1>8, <1>12 DEF Aligned, FrameSize
-----------------------------------------------------------------------------
(* Wire: the command, step by step.                                         *)

(* The command after a step that leaves what it is about alone. *)
LEMMA CliIs ==
  ASSUME CliShape, NEW s, NEW i, NEW p, NEW t, i \in Nat \ {0}, IsSeq(p), IsSeq(t),
         cli' = [cmd |-> cli.cmd, sensors |-> cli.sensors, count |-> cli.count, at |-> s,
                 id |-> i, printed |-> p, todo |-> t]
  PROVE  /\ CliShape' /\ SameCommand /\ cli'.count = cli.count
         /\ cli'.at = s /\ cli'.id = i /\ cli'.printed = p /\ cli'.todo = t
<1>1. PICK a, b, n, d : a = cli.cmd /\ b = cli.sensors /\ n = cli.count /\ d = cli'
  OBVIOUS
<1>2. d = [cmd |-> a, sensors |-> b, count |-> n, at |-> s, id |-> i, printed |-> p, todo |-> t]
  BY <1>1
<1>3. /\ d.cmd = a /\ d.sensors = b /\ d.count = n /\ d.at = s /\ d.id = i /\ d.printed = p
      /\ d.todo = t
  BY <1>2
<1>4. a \in Commands /\ n \in Nat /\ IsSeq(b) /\ \A j \in DOMAIN b : b[j] # "rpc"
  BY <1>1 DEF CliShape
<1>5. /\ d = [cmd |-> d.cmd, sensors |-> d.sensors, count |-> d.count, at |-> d.at, id |-> d.id,
              printed |-> d.printed, todo |-> d.todo]
      /\ d.cmd \in Commands /\ d.count \in Nat /\ d.id \in Nat \ {0}
      /\ IsSeq(d.sensors) /\ IsSeq(d.printed) /\ IsSeq(d.todo)
      /\ \A j \in DOMAIN d.sensors : d.sensors[j] # "rpc"
  BY <1>2, <1>3, <1>4
<1>6. CliShape'
  BY <1>1, <1>5 DEF CliShape
<1> QED
  BY <1>1, <1>3, <1>6 DEF SameCommand

LEMMA FinishIs ==
  ASSUME CliShape, NEW s, cli' = Finish(s)
  PROVE  /\ CliShape' /\ SameCommand /\ cli'.count = cli.count
         /\ cli'.at = s /\ cli'.id = cli.id /\ cli'.printed = cli.printed /\ cli'.todo = cli.todo
<1>1. PICK c : c = cli
  OBVIOUS
<1>2. c = [cmd |-> c.cmd, sensors |-> c.sensors, count |-> c.count, at |-> c.at, id |-> c.id,
           printed |-> c.printed, todo |-> c.todo]
  BY <1>1 DEF CliShape
<1>3. [c EXCEPT !.at = s] =
         [cmd |-> c.cmd, sensors |-> c.sensors, count |-> c.count, at |-> s, id |-> c.id,
          printed |-> c.printed, todo |-> c.todo]
  BY <1>2
<1>4. cli' = [cmd |-> cli.cmd, sensors |-> cli.sensors, count |-> cli.count, at |-> s,
              id |-> cli.id, printed |-> cli.printed, todo |-> cli.todo]
  BY <1>1, <1>3 DEF Finish
<1>5. cli.id \in Nat \ {0} /\ IsSeq(cli.printed) /\ IsSeq(cli.todo)
  BY DEF CliShape
<1> QED
  BY <1>4, <1>5, CliIs

(* A command that ends, or goes on to its next stage, having learnt nothing. *)
LEMMA Finished ==
  ASSUME CliShape, CommandSound, NEW s, cli' = Finish(s), torn => torn', s # "start",
         s = "misled" => torn',
         s \in {"welcome", "rpc", "stream"} /\ cli.cmd \in Streaming => Len(cli.printed) < cli.count,
         s = "ok" /\ cli.cmd \in Streaming => Len(cli.printed) = cli.count,
         s = "list" => cli.cmd = "list",
         s = "rpc" => cli.cmd # "list" /\ cli.todo # <<>>,
         s = "stream" => cli.cmd \in Streaming /\ cli.todo = <<>>
  PROVE  CliShape' /\ CommandSound' /\ SameCommand
<1>1. /\ CliShape' /\ SameCommand /\ cli'.count = cli.count
      /\ cli'.at = s /\ cli'.id = cli.id /\ cli'.printed = cli.printed /\ cli'.todo = cli.todo
  BY FinishIs
<1>2. cli'.cmd = cli.cmd /\ cli'.sensors = cli.sensors
  BY <1>1 DEF SameCommand
<1>3. cli.cmd \in Streaming => Asks(cli)
  BY DEF CommandSound
<1>4. Asks(cli) => Asks(cli')
  BY <1>1, <1>2 DEF Asks
<1>5. Wanted(cli') = Wanted(cli)
  BY <1>2 DEF Wanted
<1>6. \A i \in DOMAIN cli.printed : cli.printed[i] \in Wanted(cli) \cap Advertised
  BY DEF CommandSound
<1>7. cli.cmd = "rpc" => cli.todo # <<>>
  BY DEF CommandSound
<1>8. CommandSound'
  BY <1>1, <1>2, <1>3, <1>4, <1>5, <1>6, <1>7 DEF CommandSound
<1> QED
  BY <1>1, <1>8

(* A step of the daemon's leaves the command as it is. *)
LEMMA CommandKept ==
  ASSUME CliShape, CommandSound, cli' = cli, torn => torn'
  PROVE  CliShape' /\ CommandSound' /\ SameCommand
<1>1. PICK c : c = cli /\ c = cli'
  OBVIOUS
<1>2. SameCommand
  BY DEF SameCommand
<1>3. /\ c = [cmd |-> c.cmd, sensors |-> c.sensors, count |-> c.count, at |-> c.at,
              id |-> c.id, printed |-> c.printed, todo |-> c.todo]
      /\ c.cmd \in Commands /\ c.count \in Nat /\ c.id \in Nat \ {0}
      /\ IsSeq(c.sensors) /\ IsSeq(c.printed) /\ IsSeq(c.todo)
      /\ \A i \in DOMAIN c.sensors : c.sensors[i] # "rpc"
  BY <1>1 DEF CliShape
<1>4. CliShape'
  BY <1>1, <1>3 DEF CliShape
<1>5. CommandSound'
  BY <1>1 DEF CommandSound
<1> QED
  BY <1>2, <1>4, <1>5

(* What is in the inbox. *)
LEMMA InboxKept ==
  ASSUME InboxSound, SameCommand, inbox' = inbox PROVE InboxSound'
<1>1. PICK q : q = inbox /\ q = inbox'
  OBVIOUS
<1>2. IsSeq(q) /\ \A n \in DOMAIN q : ClientSays(q[n])'
  BY <1>1, StillSaid DEF InboxSound
<1> QED
  BY <1>1, <1>2 DEF InboxSound

LEMMA InboxAppended ==
  ASSUME InboxSound, SameCommand, NEW m, Says(m), ClientSays(m) PROVE InboxSound'
<1>1. PICK q, r, k : q = inbox /\ r = Append(q, m) /\ k = Len(q)
  OBVIOUS
<1>2. IsSeq(q) /\ (\A n \in DOMAIN q : ClientSays(q[n])') /\ ClientSays(m)' /\ r = inbox'
  BY <1>1, StillSaid DEF InboxSound, Says
<1>3. /\ IsSeq(r) /\ DOMAIN q = 1 .. k /\ k \in Nat /\ DOMAIN r = 1 .. (k + 1)
      /\ r[k + 1] = m /\ \A n \in 1 .. k : r[n] = q[n]
  <2>1. /\ IsSeq(Append(q, m)) /\ DOMAIN q = 1 .. Len(q) /\ Len(q) \in Nat
        /\ DOMAIN Append(q, m) = 1 .. (Len(q) + 1) /\ Append(q, m)[Len(q) + 1] = m
        /\ \A n \in 1 .. Len(q) : Append(q, m)[n] = q[n]
    <3>1. IsSeq(q)
      BY <1>2
    <3> QED
      BY <3>1, AppendSeq
  <2> QED
    BY <1>1, <2>1
<1>4. ASSUME NEW n \in DOMAIN r PROVE ClientSays(r[n])'
  <2>1. n \in 1 .. k \/ n = k + 1
    BY <1>3
  <2>2. CASE n \in 1 .. k
    <3>1. r[n] = q[n] /\ n \in DOMAIN q
      BY <1>3, <2>2
    <3>2. PICK x : x = q[n]
      OBVIOUS
    <3> QED
      BY <1>2, <3>1, <3>2
  <2>3. CASE n = k + 1
    BY <1>2, <1>3, <2>3
  <2> QED
    BY <2>1, <2>2, <2>3
<1> QED
  BY <1>2, <1>3, <1>4 DEF InboxSound

LEMMA InboxTaken ==
  ASSUME InboxSound, SameCommand, inbox # <<>>, inbox' = Tail(inbox)
  PROVE  InboxSound' /\ ClientSays(Head(inbox))
<1>1. PICK q, r, k : q = inbox /\ r = Tail(q) /\ k = Len(q)
  OBVIOUS
<1>2. /\ IsSeq(q) /\ (\A n \in DOMAIN q : ClientSays(q[n])') /\ r = inbox' /\ q # <<>>
      /\ \A n \in DOMAIN q : ClientSays(q[n])
  BY <1>1, StillSaid DEF InboxSound
<1>3. /\ IsSeq(r) /\ k \in Nat \ {0} /\ DOMAIN q = 1 .. k /\ DOMAIN r = 1 .. (k - 1)
      /\ Head(q) = q[1] /\ \A n \in 1 .. (k - 1) : r[n] = q[n + 1]
  BY <1>1, <1>2, TailSeq
<1>4. ASSUME NEW n \in DOMAIN r PROVE ClientSays(r[n])'
  <2>1. PICK j : j = n + 1
    OBVIOUS
  <2>2. j \in DOMAIN q
    BY <1>3, <2>1
  <2>3. r[n] = q[j]
    BY <1>3, <2>1
  <2> QED
    BY <1>2, <2>2, <2>3
<1>5. 1 \in DOMAIN q
  BY <1>3
<1>6. ClientSays(Head(q))
  BY <1>2, <1>3, <1>5
<1> QED
  BY <1>1, <1>2, <1>3, <1>4, <1>6 DEF InboxSound

LEMMA InboxFarewell ==
  ASSUME InboxSound, SameCommand, Goodbyes PROVE InboxSound'
<1>1. PICK q, a, b, t, r, k, e : /\ q = inbox /\ a = Msg("Unsubscribe", "all") /\ b = Msg("Goodbye", "all")
                                 /\ t = <<a, b>> /\ r = q \o t /\ k = Len(q) /\ e = k + 2
  OBVIOUS
<1>2. IsSeq(q) /\ (\A n \in DOMAIN q : ClientSays(q[n])') /\ r = inbox'
  BY <1>1, StillSaid DEF InboxSound, Goodbyes
<1>3. IsSeq(t) /\ Len(t) = 2 /\ t[1] = a /\ t[2] = b
  BY <1>1 DEF IsSeq
<1>4. Joins(r, q, t, k, 2, e)
  BY <1>1, <1>2, <1>3, JoinedSeq
<1>5. /\ k \in Nat /\ DOMAIN q = 1 .. k /\ DOMAIN r = 1 .. e /\ IsSeq(r) /\ e = k + 2
      /\ \A n \in 1 .. e : /\ n <= k => n \in 1 .. k /\ r[n] = q[n]
                           /\ n > k => n - k \in 1 .. 2 /\ r[n] = t[n - k]
  BY <1>1, <1>4 DEF Joins
<1>6. a.t = "Unsubscribe" /\ b.t = "Goodbye"
  BY <1>1 DEF Msg
<1>7. ClientSays(a)' /\ ClientSays(b)'
  BY <1>6 DEF ClientSays
<1>8. ASSUME NEW n \in DOMAIN r PROVE ClientSays(r[n])'
  <2>1. n \in 1 .. e /\ (n <= k \/ n > k)
    BY <1>5
  <2>2. CASE n <= k
    <3>1. r[n] = q[n] /\ n \in DOMAIN q
      BY <1>5, <2>1, <2>2
    <3> QED
      BY <1>2, <3>1
  <2>3. CASE n > k
    <3>1. r[n] = t[n - k] /\ (n - k = 1 \/ n - k = 2)
      BY <1>5, <2>1, <2>3
    <3>2. r[n] = a \/ r[n] = b
      BY <1>3, <3>1
    <3> QED
      BY <1>7, <3>2
  <2> QED
    BY <2>1, <2>2, <2>3
<1> QED
  BY <1>2, <1>5, <1>8 DEF InboxSound

(* The first of the questions left is about the sensor whose turn it is. *)
LEMMA QuestionSound ==
  ASSUME CliShape, NEW c, IsSeq(c.todo), c.id \in Nat \ {0}, c.sensors = cli.sensors, c.cmd = cli.cmd,
         c.cmd \in Streaming => Asks(c)
  PROVE  ClientSays(NextQuestion(c))
<1>1. CASE c.todo = <<>>
  BY <1>1 DEF NextQuestion, ClientSays, Msg
<1>2. CASE c.todo # <<>>
  <2>1. PICK m, td, k, s, i : m = NextQuestion(c) /\ td = c.todo /\ k = Len(td) /\ s = c.sensors /\ i = c.id
    OBVIOUS
  <2>2. m = [t |-> "Request", arg |-> i, op |-> Head(td)]
    BY <1>2, <2>1 DEF NextQuestion
  <2>3. m.t = "Request" /\ m.arg = i /\ m.op = Head(td)
    BY <2>2
  <2>4. k \in Nat \ {0} /\ DOMAIN td = 1 .. k /\ Head(td) = td[1]
    <3>1. IsSeq(td) /\ td # <<>>
      BY <1>2, <2>1
    <3> QED
      BY <2>1, <3>1, TailSeq
  <2>5. ASSUME c.cmd \in Streaming PROVE i \in DOMAIN s /\ td[1] = s[i]
    <3>1. k = Len(s) + 1 - i /\ \A j \in DOMAIN td : td[j] = s[i + j - 1]
      BY <2>1, <2>5 DEF Asks
    <3>2. Len(s) \in Nat /\ DOMAIN s = 1 .. Len(s) /\ i \in Nat \ {0}
      BY <2>1 DEF CliShape, IsSeq
    <3>3. i \in DOMAIN s /\ 1 \in DOMAIN td /\ i + 1 - 1 = i
      BY <2>4, <3>1, <3>2
    <3>4. td[1] = s[i + 1 - 1]
      BY <3>1, <3>3
    <3> QED
      BY <3>3, <3>4
  <2>6. m.t = "Request" /\ cli.cmd \in Streaming => m.arg \in DOMAIN cli.sensors /\ m.op = cli.sensors[m.arg]
    BY <2>1, <2>3, <2>4, <2>5
  <2>7. ClientSays(m)
    BY <2>3, <2>6 DEF ClientSays
  <2> QED
    BY <2>1, <2>7
<1> QED
  BY <1>1, <1>2

LEMMA OwnQuestionSound ==
  ASSUME CliShape, CommandSound PROVE ClientSays(NextQuestion(cli))
<1>1. IsSeq(cli.todo) /\ cli.id \in Nat \ {0}
  BY DEF CliShape
<1>2. cli.cmd \in Streaming => Asks(cli)
  BY DEF CommandSound
<1>3. PICK c : c = cli
  OBVIOUS
<1>4. ClientSays(NextQuestion(c))
  BY <1>1, <1>2, <1>3, QuestionSound
<1> QED
  BY <1>3, <1>4

LEMMA NothingPrinted ==
  ASSUME CliShape, cli.printed = <<>> PROVE Len(cli.printed) = 0 /\ cli.count \in Nat
BY DEF CliShape

LEMMA ConnectSound ==
  ASSUME WireInv, connect_and_hello PROVE WireInv'
<1>1. /\ CliShape /\ CommandSound /\ InboxSound /\ BytesSound /\ subscribed \subseteq Advertised
      /\ cli.at = "start" /\ UNCHANGED <<pipe, write, subscribed, torn>>
  BY DEF WireInv, connect_and_hello
<1>2. Len(cli.printed) = 0 /\ cli.count \in Nat
  <2>1. cli.printed = <<>>
    BY <1>1 DEF CommandSound
  <2> QED
    BY <1>1, <2>1, NothingPrinted
<1>3. CASE cli.cmd \in {"read", "watch"} /\ cli.count = 0 /\ cli' = Finish("ok") /\ UNCHANGED inbox
  <2>1. CliShape' /\ CommandSound' /\ SameCommand
    BY <1>1, <1>2, <1>3, Finished
  <2>2. InboxSound'
    BY <1>1, <1>3, <2>1, InboxKept
  <2>3. BytesSound'
    BY <1>1, <2>1, BytesKept
  <2> QED
    BY <1>1, <2>1, <2>2, <2>3 DEF WireInv
<1>4. CASE /\ ~(cli.cmd \in {"read", "watch"} /\ cli.count = 0)
           /\ cli' = Finish("welcome") /\ Says(Msg("Hello", "same"))
  <2>1. cli.cmd \in Streaming => Len(cli.printed) < cli.count
    BY <1>2, <1>4 DEF Streaming
  <2>2. CliShape' /\ CommandSound' /\ SameCommand
    BY <1>1, <1>4, <2>1, Finished
  <2>3. ClientSays(Msg("Hello", "same"))
    BY DEF ClientSays, Msg
  <2>4. InboxSound'
    BY <1>1, <1>4, <2>2, <2>3, InboxAppended
  <2>5. BytesSound'
    BY <1>1, <2>2, BytesKept
  <2> QED
    BY <1>1, <2>2, <2>4, <2>5 DEF WireInv
<1> QED
  BY <1>3, <1>4 DEF connect_and_hello

(* The session answers what the command has said. *)
LEMMA SessionSound ==
  ASSUME WireInv, SessionHandles PROVE WireInv'
<1>1. /\ CliShape /\ CommandSound /\ InboxSound /\ BytesSound /\ subscribed \subseteq Advertised
      /\ inbox # <<>> /\ inbox' = Tail(inbox) /\ UNCHANGED <<cli, pipe, torn>>
      /\ Handle(Head(inbox))
  BY DEF WireInv, SessionHandles
<1>2. CliShape' /\ CommandSound' /\ SameCommand
  BY <1>1, CommandKept
<1>3. InboxSound' /\ ClientSays(Head(inbox))
  BY <1>1, <1>2, InboxTaken
<1>4. PICK m : m = Head(inbox)
  OBVIOUS
<1>5. m.t \in {"Hello", "ListSensors", "Request", "Subscribe", "Unsubscribe", "Goodbye"}
  BY <1>3, <1>4 DEF ClientSays
<1>6. BytesSound' /\ subscribed' \subseteq Advertised
  <2>1. CASE m.t = "Hello"
    <3>1. PICK good \in BOOLEAN :
             /\ write_frame(IF good THEN "loop" ELSE "bye", verify_hello(good))
             /\ UNCHANGED subscribed
      BY <1>1, <1>4, <2>1 DEF Handle
    <3>2. DaemonSays(verify_hello(good))
      BY DEF DaemonSays, verify_hello, Msg
    <3>3. BytesSound'
      BY <1>1, <1>2, <3>1, <3>2, FrameBegun
    <3> QED
      BY <1>1, <3>1, <3>3
  <2>2. CASE m.t = "ListSensors"
    <3>1. write_frame("loop", Msg("SensorList", "all")) /\ UNCHANGED subscribed
      BY <1>1, <1>4, <2>2 DEF Handle
    <3>2. DaemonSays(Msg("SensorList", "all"))
      BY DEF DaemonSays, Msg
    <3>3. BytesSound'
      BY <1>1, <1>2, <3>1, <3>2, FrameBegun
    <3> QED
      BY <1>1, <3>1, <3>3
  <2>3. CASE m.t = "Request"
    <3>1. PICK a : a = [t |-> "Response", arg |-> m.arg, ok |-> m.op = "rpc" \/ m.op \in Advertised]
      OBVIOUS
    <3>2. \/ write_frame("loop", a) /\ UNCHANGED subscribed
          \/ write = NoWrite /\ WriteFails("loop") /\ UNCHANGED subscribed
      BY <1>1, <1>4, <2>3, <3>1 DEF Handle
    <3>3. DaemonSays(a)
      <4>1. a.t = "Response" /\ a.arg = m.arg /\ (a.ok <=> m.op = "rpc" \/ m.op \in Advertised)
        BY <3>1
      <4>2. ASSUME a.ok, cli.cmd \in Streaming
            PROVE  a.arg \in DOMAIN cli.sensors /\ cli.sensors[a.arg] \in Advertised
        <5>1. m.arg \in DOMAIN cli.sensors /\ m.op = cli.sensors[m.arg]
          BY <1>3, <1>4, <2>3, <4>2 DEF ClientSays
        <5>2. cli.sensors[m.arg] # "rpc"
          BY <1>1, <5>1 DEF CliShape
        <5> QED
          BY <4>1, <4>2, <5>1, <5>2
      <4> QED
        BY <4>1, <4>2 DEF DaemonSays
    <3>4. CASE write_frame("loop", a) /\ UNCHANGED subscribed
      <4>1. BytesSound'
        BY <1>1, <1>2, <3>3, <3>4, FrameBegun
      <4> QED
        BY <1>1, <3>4, <4>1
    <3>5. CASE write = NoWrite /\ WriteFails("loop") /\ UNCHANGED subscribed
      <4>1. UNCHANGED <<pipe, write, torn>>
        BY <1>1, <3>5 DEF WriteFails
      <4>2. BytesSound'
        BY <1>1, <1>2, <4>1, BytesKept
      <4> QED
        BY <1>1, <3>5, <4>2
    <3> QED
      BY <3>2, <3>4, <3>5
  <2>4. CASE m.t \in {"Subscribe", "Unsubscribe", "Goodbye"}
    <3>1. UNCHANGED write /\ subscribed' \in {subscribed, {}, m.arg \cap Advertised}
      BY <1>1, <1>4, <2>4 DEF Handle
    <3>2. BytesSound'
      BY <1>1, <1>2, <3>1, BytesKept
    <3> QED
      BY <1>1, <3>1, <3>2
  <2> QED
    BY <1>5, <2>1, <2>2, <2>3, <2>4
<1> QED
  BY <1>2, <1>3, <1>6 DEF WireInv

LEMMA SessionEndSound ==
  ASSUME WireInv, SessionEnds PROVE WireInv'
<1>1. /\ CliShape /\ CommandSound /\ InboxSound /\ BytesSound /\ subscribed \subseteq Advertised
      /\ UNCHANGED <<cli, inbox, pipe, write, subscribed, torn>>
  BY DEF WireInv, SessionEnds
<1>2. CliShape' /\ CommandSound' /\ SameCommand
  BY <1>1, CommandKept
<1>3. InboxSound'
  BY <1>1, <1>2, InboxKept
<1>4. BytesSound'
  BY <1>1, <1>2, BytesKept
<1> QED
  BY <1>1, <1>2, <1>3, <1>4 DEF WireInv

LEMMA PumpSound ==
  ASSUME WireInv, PumpPushes PROVE WireInv'
<1>1. /\ CliShape /\ CommandSound /\ InboxSound /\ BytesSound /\ subscribed \subseteq Advertised
      /\ UNCHANGED <<cli, inbox, pipe, subscribed, torn>>
  BY DEF WireInv, PumpPushes
<1>2. PICK m \in {Msg("Sample", s) : s \in subscribed} \cup {Msg("SensorListBroadcast", "all")} :
         write_frame("pump", m)
  BY DEF PumpPushes
<1>3. DaemonSays(m)
  BY <1>1, <1>2 DEF DaemonSays, Msg
<1>4. CliShape' /\ CommandSound' /\ SameCommand
  BY <1>1, CommandKept
<1>5. InboxSound'
  BY <1>1, <1>4, InboxKept
<1>6. BytesSound'
  BY <1>1, <1>2, <1>3, <1>4, FrameBegun
<1> QED
  BY <1>1, <1>4, <1>5, <1>6 DEF WireInv

LEMMA WriteSound ==
  ASSUME WireInv, WriteProgresses \/ SocketWriteTimesOut PROVE WireInv'
<1>1. /\ CliShape /\ CommandSound /\ InboxSound /\ BytesSound /\ subscribed \subseteq Advertised
      /\ UNCHANGED <<cli, inbox, subscribed>> /\ (torn => torn')
  <2>1. CASE WriteProgresses
    <3>1. UNCHANGED <<cli, inbox, subscribed, torn>>
      BY <2>1 DEF WriteProgresses
    <3> QED
      BY <3>1 DEF WireInv
  <2>2. CASE SocketWriteTimesOut
    <3>1. UNCHANGED <<cli, inbox, subscribed>>
      BY <2>2 DEF SocketWriteTimesOut
    <3>2. torn => torn'
      BY <2>2, Zenon DEF SocketWriteTimesOut
    <3> QED
      BY <3>1, <3>2 DEF WireInv
  <2> QED
    BY <2>1, <2>2
<1>2. CliShape' /\ CommandSound' /\ SameCommand
  BY <1>1, CommandKept
<1>3. InboxSound'
  BY <1>1, <1>2, InboxKept
<1>4. BytesSound'
  BY <1>1, WriteGoesOn, WriteGivenUp
<1> QED
  BY <1>1, <1>2, <1>3, <1>4 DEF WireInv

(* A command that streams has had the answer for each of its sensors. *)
LEMMA AllKnown ==
  ASSUME CliShape, CommandSound, cli.at = "stream" PROVE Wanted(cli) \subseteq Advertised
<1>1. PICK s, i, td : s = cli.sensors /\ i = cli.id /\ td = cli.todo
  OBVIOUS
<1>2. Asks(cli) /\ td = <<>>
  BY <1>1 DEF CommandSound
<1>3. Len(td) = Len(s) + 1 - i /\ \A j \in DOMAIN s : j < i => s[j] \in Advertised
  BY <1>1, <1>2 DEF Asks
<1>4. Len(td) = 0
  BY <1>2
<1>5. Len(s) \in Nat /\ DOMAIN s = 1 .. Len(s) /\ i \in Nat
  BY <1>1 DEF CliShape, IsSeq
<1>6. \A j \in DOMAIN s : j < i
  BY <1>3, <1>4, <1>5
<1>7. \A j \in DOMAIN s : s[j] \in Advertised
  BY <1>3, <1>6
<1> QED
  BY <1>1, <1>7 DEF Wanted

(* Records of a command, changed. *)
LEMMA CliAdvanced ==
  ASSUME NEW a, NEW b, NEW n, NEW s, NEW i, NEW p, NEW t, NEW j, NEW u,
         NEW c, c = [cmd |-> a, sensors |-> b, count |-> n, at |-> s, id |-> i, printed |-> p, todo |-> t],
         NEW x, x = [c EXCEPT !.todo = u, !.id = j]
  PROVE  x = [cmd |-> a, sensors |-> b, count |-> n, at |-> s, id |-> j, printed |-> p, todo |-> u]
OBVIOUS

LEMMA CliMoved ==
  ASSUME NEW a, NEW b, NEW n, NEW s, NEW i, NEW p, NEW t, NEW r,
         NEW c, c = [cmd |-> a, sensors |-> b, count |-> n, at |-> s, id |-> i, printed |-> p, todo |-> t],
         NEW x, x = [c EXCEPT !.at = r]
  PROVE  /\ x = [cmd |-> a, sensors |-> b, count |-> n, at |-> r, id |-> i, printed |-> p, todo |-> t]
         /\ c.cmd = a /\ c.sensors = b /\ c.count = n /\ c.at = s /\ c.id = i /\ c.printed = p
         /\ c.todo = t
OBVIOUS

LEMMA CliPrinted ==
  ASSUME NEW a, NEW b, NEW n, NEW s, NEW i, NEW p, NEW t, NEW q,
         NEW c, c = [cmd |-> a, sensors |-> b, count |-> n, at |-> s, id |-> i, printed |-> p, todo |-> t],
         NEW x, x = [c EXCEPT !.printed = q]
  PROVE  x = [cmd |-> a, sensors |-> b, count |-> n, at |-> s, id |-> i, printed |-> q, todo |-> t]
OBVIOUS

(* The answer for the sensor whose turn it was. *)
LEMMA ReadingAnswered ==
  ASSUME CliShape, CommandSound, cli.at = "rpc", cli.cmd # "rpc", torn' = torn,
         cli.id \in DOMAIN cli.sensors /\ cli.sensors[cli.id] \in Advertised,
         NEW next, next = [cli EXCEPT !.todo = Tail(@), !.id = @ + 1],
         cli' = [next EXCEPT !.at = Stage(next)]
  PROVE  CliShape' /\ CommandSound' /\ SameCommand /\ ClientSays(NextQuestion(next))
<1>1. PICK c, td, i, s, g, y : /\ c = cli /\ td = Tail(cli.todo) /\ i = cli.id + 1 /\ s = cli.sensors
                               /\ g = Stage(next) /\ y = cli'
  OBVIOUS
<1>2. PICK a, m, h, o, p, w : /\ a = c.cmd /\ m = c.count /\ h = c.at /\ o = c.id
                             /\ p = c.printed /\ w = c.todo
  OBVIOUS
<1>3. /\ c = [cmd |-> a, sensors |-> s, count |-> m, at |-> h, id |-> o, printed |-> p, todo |-> w]
      /\ next = [c EXCEPT !.todo = td, !.id = i] /\ y = [next EXCEPT !.at = g]
  <2>1. c = [cmd |-> a, sensors |-> s, count |-> m, at |-> h, id |-> o, printed |-> p, todo |-> w]
    BY <1>1, <1>2 DEF CliShape
  <2> QED
    BY <1>1, <2>1
<1>4. next = [cmd |-> a, sensors |-> s, count |-> m, at |-> h, id |-> i, printed |-> p, todo |-> td]
  <2>1. c = [cmd |-> a, sensors |-> s, count |-> m, at |-> h, id |-> o, printed |-> p, todo |-> w]
    BY <1>3
  <2>2. PICK x : x = [c EXCEPT !.todo = td, !.id = i]
    OBVIOUS
  <2>3. x = [cmd |-> a, sensors |-> s, count |-> m, at |-> h, id |-> i, printed |-> p, todo |-> td]
    BY <2>1, <2>2, CliAdvanced
  <2>4. next = x
    BY <1>3, <2>2
  <2> QED
    BY <2>3, <2>4
<1>5. /\ y = [cmd |-> a, sensors |-> s, count |-> m, at |-> g, id |-> i, printed |-> p, todo |-> td]
      /\ next.todo = td /\ next.id = i /\ next.sensors = s /\ next.cmd = a
  <2>1. PICK z : z = next
    OBVIOUS
  <2>2. PICK x : x = [z EXCEPT !.at = g]
    OBVIOUS
  <2>3. z = [cmd |-> a, sensors |-> s, count |-> m, at |-> h, id |-> i, printed |-> p, todo |-> td]
    BY <1>4, <2>1
  <2>4. /\ x = [cmd |-> a, sensors |-> s, count |-> m, at |-> g, id |-> i, printed |-> p, todo |-> td]
        /\ z.todo = td /\ z.id = i /\ z.sensors = s /\ z.cmd = a
    BY <2>2, <2>3, CliMoved
  <2>5. y = x
    BY <1>3, <2>1, <2>2
  <2> QED
    BY <2>1, <2>4, <2>5
<1>6. cli' = [cmd |-> cli.cmd, sensors |-> cli.sensors, count |-> cli.count, at |-> g, id |-> i,
              printed |-> cli.printed, todo |-> td]
  BY <1>1, <1>2, <1>5
<1>7. cli.id \in Nat \ {0} /\ i \in Nat \ {0} /\ IsSeq(cli.todo) /\ IsSeq(cli.printed)
  BY <1>1 DEF CliShape
<1>8. cli.todo # <<>> /\ cli.cmd \in Streaming /\ Asks(cli)
  <2>1. cli.todo # <<>> /\ cli.cmd # "list"
    BY DEF CommandSound
  <2>2. cli.cmd \in Streaming
    BY <2>1 DEF CliShape, Commands, Streaming
  <2> QED
    BY <2>1, <2>2 DEF CommandSound
<1>9. PICK t, n : t = cli.todo /\ n = Len(t)
  OBVIOUS
<1>10. /\ IsSeq(td) /\ n \in Nat \ {0} /\ DOMAIN t = 1 .. n /\ DOMAIN td = 1 .. (n - 1)
       /\ \A k \in 1 .. (n - 1) : td[k] = t[k + 1]
  <2>1. IsSeq(t) /\ t # <<>> /\ td = Tail(t)
    BY <1>1, <1>7, <1>8, <1>9
  <2> QED
    BY <1>9, <2>1, TailSeq
<1>11. Len(td) = n - 1
  BY <1>10 DEF IsSeq
<1>12. PICK d : d = cli'
  OBVIOUS
<1>13. /\ CliShape' /\ SameCommand /\ d.count = cli.count /\ d.cmd = cli.cmd /\ d.sensors = s
       /\ d.at = g /\ d.id = i /\ d.printed = cli.printed /\ d.todo = td
  <2>1. /\ CliShape' /\ SameCommand /\ cli'.count = cli.count
        /\ cli'.at = g /\ cli'.id = i /\ cli'.printed = cli.printed /\ cli'.todo = td
    BY <1>6, <1>7, <1>10, CliIs
  <2> QED
    BY <1>1, <1>12, <2>1 DEF SameCommand
<1>14. /\ n = Len(s) + 1 - cli.id /\ Len(s) \in Nat
       /\ \A j \in DOMAIN t : t[j] = s[cli.id + j - 1]
       /\ \A j \in DOMAIN s : j < cli.id => s[j] \in Advertised
       /\ DOMAIN s = 1 .. Len(s)
  <2>1. /\ n = Len(s) + 1 - cli.id
        /\ \A j \in DOMAIN t : t[j] = s[cli.id + j - 1]
        /\ \A j \in DOMAIN s : j < cli.id => s[j] \in Advertised
    BY <1>1, <1>8, <1>9 DEF Asks
  <2>2. Len(s) \in Nat /\ DOMAIN s = 1 .. Len(s)
    BY <1>1 DEF CliShape, IsSeq
  <2> QED
    BY <2>1, <2>2
<1>15. /\ Len(td) = Len(s) + 1 - i
       /\ \A j \in DOMAIN td : td[j] = s[i + j - 1]
       /\ \A j \in DOMAIN s : j < i => s[j] \in Advertised
  <2>1. Len(td) = Len(s) + 1 - i
    BY <1>1, <1>7, <1>11, <1>14
  <2>2. ASSUME NEW j \in DOMAIN td PROVE td[j] = s[i + j - 1]
    <3>1. PICK k : k = j + 1
      OBVIOUS
    <3>2. k \in DOMAIN t /\ j \in 1 .. (n - 1) /\ cli.id + k - 1 = i + j - 1
      <4>1. j \in 1 .. (n - 1) /\ n \in Nat \ {0}
        BY <1>10, <2>2
      <4>2. k \in 1 .. n
        BY <3>1, <4>1
      <4>3. PICK v : v = cli.id
        OBVIOUS
      <4>4. v \in Nat /\ i = v + 1 /\ j \in Nat
        BY <1>1, <1>7, <4>1, <4>3
      <4>5. v + k - 1 = i + j - 1
        BY <3>1, <4>4
      <4> QED
        BY <1>10, <4>1, <4>2, <4>3, <4>5
    <3>3. td[j] = t[k]
      BY <1>10, <3>1, <3>2
    <3>4. t[k] = s[cli.id + k - 1]
      BY <1>14, <3>2
    <3> QED
      BY <3>2, <3>3, <3>4
  <2>3. ASSUME NEW j \in DOMAIN s, j < i PROVE s[j] \in Advertised
    <3>1. j < cli.id \/ j = cli.id
      BY <1>1, <1>7, <1>14, <2>3
    <3> QED
      BY <1>1, <1>14, <3>1
  <2> QED
    BY <2>1, <2>2, <2>3
<1>16. Asks(d) /\ Asks(next)
  BY <1>1, <1>2, <1>5, <1>13, <1>15 DEF Asks
<1>17. (g = "rpc" /\ td # <<>>) \/ (g = "stream" /\ td = <<>>)
  BY <1>1, <1>5 DEF Stage
<1>18. Wanted(d) = Wanted(cli)
  BY <1>1, <1>13 DEF Wanted
<1>19. Len(cli.printed) < cli.count
  BY <1>8 DEF CommandSound
<1>20. \A k \in DOMAIN cli.printed : cli.printed[k] \in Wanted(cli) \cap Advertised
  BY DEF CommandSound
<1>21. /\ d.at # "misled" /\ d.at # "start" /\ d.at # "ok" /\ d.at # "list"
       /\ d.cmd \in Streaming /\ d.cmd # "rpc" /\ d.cmd # "list" /\ Len(d.printed) < d.count
       /\ d.at = "rpc" => d.todo # <<>>
       /\ d.at = "stream" => d.todo = <<>>
       /\ \A k \in DOMAIN d.printed : d.printed[k] \in Wanted(d) \cap Advertised
  BY <1>8, <1>13, <1>17, <1>18, <1>19, <1>20 DEF Streaming
<1>22. CommandSound'
  BY <1>12, <1>16, <1>21 DEF CommandSound
<1>23. ClientSays(NextQuestion(next))
  <2>1. /\ IsSeq(next.todo) /\ next.id \in Nat \ {0} /\ next.sensors = cli.sensors
        /\ next.cmd = cli.cmd
    BY <1>1, <1>2, <1>5, <1>7, <1>10
  <2> QED
    BY <1>16, <2>1, QuestionSound
<1> QED
  BY <1>13, <1>22, <1>23

(* A line printed: an answer asked for, the last one or not. *)
LEMMA PrintedSound ==
  ASSUME CliShape, CommandSound, cli.at = "stream", torn' = torn, NEW a \in Wanted(cli), NEW p,
         p = Append(cli.printed, a), NEW s,
         (s = "stream" /\ ~(Len(p) >= cli.count)) \/ (s = "ok" /\ Len(p) >= cli.count),
         cli' = [cmd |-> cli.cmd, sensors |-> cli.sensors, count |-> cli.count, at |-> s,
                 id |-> cli.id, printed |-> p, todo |-> cli.todo]
  PROVE  CliShape' /\ CommandSound' /\ SameCommand
<1>1. PICK q, l : q = cli.printed /\ l = Len(q)
  OBVIOUS
<1>2. IsSeq(q) /\ IsSeq(cli.todo) /\ cli.id \in Nat \ {0} /\ cli.count \in Nat
  BY <1>1 DEF CliShape
<1>3. p = Append(q, a)
  BY <1>1
<1>4. /\ IsSeq(p) /\ Len(p) = l + 1 /\ DOMAIN q = 1 .. l /\ l \in Nat /\ DOMAIN p = 1 .. (l + 1)
      /\ p[l + 1] = a /\ \A k \in 1 .. l : p[k] = q[k]
  <2>1. /\ IsSeq(Append(q, a)) /\ Len(Append(q, a)) = Len(q) + 1 /\ DOMAIN q = 1 .. Len(q)
        /\ Len(q) \in Nat /\ DOMAIN Append(q, a) = 1 .. (Len(q) + 1)
        /\ Append(q, a)[Len(q) + 1] = a /\ \A k \in 1 .. Len(q) : Append(q, a)[k] = q[k]
    BY <1>2, AppendSeq
  <2> QED
    BY <1>1, <1>3, <2>1
<1>5. PICK d : d = cli'
  OBVIOUS
<1>6. /\ CliShape' /\ SameCommand /\ d.count = cli.count /\ d.cmd = cli.cmd
      /\ d.sensors = cli.sensors /\ d.at = s /\ d.id = cli.id /\ d.printed = p /\ d.todo = cli.todo
  <2>1. /\ CliShape' /\ SameCommand /\ cli'.count = cli.count
        /\ cli'.at = s /\ cli'.id = cli.id /\ cli'.printed = p /\ cli'.todo = cli.todo
    BY <1>2, <1>4, CliIs
  <2> QED
    BY <1>5, <2>1 DEF SameCommand
<1>7. cli.cmd \in Streaming /\ Asks(cli) /\ cli.todo = <<>> /\ l < cli.count
  BY <1>1 DEF CommandSound
<1>8. Asks(d) /\ Wanted(d) = Wanted(cli)
  BY <1>6, <1>7 DEF Asks, Wanted
<1>9. (s = "stream" /\ Len(p) < cli.count) \/ (s = "ok" /\ Len(p) = cli.count)
  BY <1>2, <1>4, <1>7
<1>10. a \in Wanted(cli) \cap Advertised
  BY AllKnown
<1>11. ASSUME NEW k \in DOMAIN p PROVE p[k] \in Wanted(cli) \cap Advertised
  <2>1. k \in DOMAIN q \/ k = l + 1
    BY <1>4
  <2>2. \A j \in DOMAIN q : q[j] \in Wanted(cli) \cap Advertised
    BY <1>1 DEF CommandSound
  <2> QED
    BY <1>4, <1>10, <2>1, <2>2
<1>12. /\ d.cmd \in Streaming /\ d.cmd # "rpc" /\ d.cmd # "list" /\ d.todo = <<>>
       /\ (d.at = "stream" /\ Len(d.printed) < d.count) \/ (d.at = "ok" /\ Len(d.printed) = d.count)
       /\ \A k \in DOMAIN d.printed : d.printed[k] \in Wanted(d) \cap Advertised
  BY <1>6, <1>7, <1>8, <1>9, <1>11 DEF Streaming
<1>13. CommandSound'
  BY <1>5, <1>8, <1>12 DEF CommandSound
<1> QED
  BY <1>6, <1>13

(* The frame read as the welcome. *)
LEMMA WelcomeSound ==
  ASSUME CliShape, CommandSound, InboxSound, cli.at = "welcome", NEW m, AfterWelcome(m), torn' = torn
  PROVE  CliShape' /\ CommandSound' /\ InboxSound' /\ SameCommand
<1>1. CASE m.t # "Welcome"
  <2>1. cli' = Finish("err") /\ inbox' = inbox
    BY <1>1 DEF AfterWelcome
  <2>2. CliShape' /\ CommandSound' /\ SameCommand
    BY <2>1, Finished
  <2> QED
    BY <2>1, <2>2, InboxKept
<1>2. CASE m.t = "Welcome" /\ cli.cmd = "list"
  <2>1. cli' = Finish("list") /\ Says(Msg("ListSensors", "all"))
    BY <1>2 DEF AfterWelcome
  <2>2. CliShape' /\ CommandSound' /\ SameCommand
    BY <1>2, <2>1, Finished
  <2>3. ClientSays(Msg("ListSensors", "all"))
    BY DEF ClientSays, Msg
  <2> QED
    BY <2>1, <2>2, <2>3, InboxAppended
<1>3. CASE m.t = "Welcome" /\ cli.cmd # "list"
  <2>1. cli' = Finish(Stage(cli)) /\ Says(NextQuestion(cli))
    BY <1>3 DEF AfterWelcome
  <2>2. PICK g : g = Stage(cli)
    OBVIOUS
  <2>3. (g = "rpc" /\ cli.todo # <<>>) \/ (g = "stream" /\ cli.todo = <<>>)
    BY <2>2 DEF Stage
  <2>4. cli.todo = <<>> => cli.cmd \in Streaming
    BY <1>3 DEF CommandSound, CliShape, Commands, Streaming
  <2>5. cli.cmd \in Streaming => Len(cli.printed) < cli.count
    BY DEF CommandSound
  <2>6. /\ g # "start" /\ g # "misled" /\ g # "ok" /\ g # "list"
        /\ g = "rpc" => cli.cmd # "list" /\ cli.todo # <<>>
        /\ g = "stream" => cli.cmd \in Streaming /\ cli.todo = <<>>
        /\ cli' = Finish(g)
    BY <1>3, <2>1, <2>2, <2>3, <2>4
  <2>7. CliShape' /\ CommandSound' /\ SameCommand
    BY <2>5, <2>6, Finished
  <2>8. ClientSays(NextQuestion(cli))
    BY OwnQuestionSound
  <2> QED
    BY <2>1, <2>7, <2>8, InboxAppended
<1> QED
  BY <1>1, <1>2, <1>3

(* list::run ends with the frame it reads. *)
LEMMA ListSound ==
  ASSUME CliShape, CommandSound, InboxSound, cli.at = "list", NEW m, AfterList(m), torn' = torn
  PROVE  CliShape' /\ CommandSound' /\ InboxSound' /\ SameCommand
<1>1. PICK s : s = (IF m.t = "SensorList" THEN "ok" ELSE "err")
  OBVIOUS
<1>2. cli' = Finish(s) /\ inbox' = inbox /\ s \in {"ok", "err"}
  BY <1>1 DEF AfterList
<1>3. cli.cmd = "list"
  BY DEF CommandSound
<1>4. s # "start" /\ s # "misled" /\ s # "list" /\ s \notin {"welcome", "rpc", "stream"}
  BY <1>2
<1>5. cli.cmd \notin Streaming
  BY <1>3 DEF Streaming
<1>6. CliShape' /\ CommandSound' /\ SameCommand
  BY <1>2, <1>4, <1>5, Finished
<1> QED
  BY <1>2, <1>6, InboxKept

(* The frame read while a request waits for its answer. *)
LEMMA ResponseSound ==
  ASSUME CliShape, CommandSound, InboxSound, cli.at = "rpc", NEW m, DaemonSays(m),
         read_server_response(m), torn' = torn
  PROVE  CliShape' /\ CommandSound' /\ InboxSound' /\ SameCommand
<1>1. CASE m.t = "Bye" \/ (m.t = "Response" /\ m.arg = cli.id /\ ~m.ok)
  <2>1. cli' = Finish("err") /\ inbox' = inbox
    BY <1>1 DEF read_server_response
  <2>2. CliShape' /\ CommandSound' /\ SameCommand
    BY <2>1, Finished
  <2> QED
    BY <2>1, <2>2, InboxKept
<1>2. CASE /\ ~(m.t = "Bye" \/ (m.t = "Response" /\ m.arg = cli.id /\ ~m.ok))
           /\ m.t = "Response" /\ m.arg = cli.id
  <2>1. PICK next : next = [cli EXCEPT !.todo = Tail(@), !.id = @ + 1]
    OBVIOUS
  <2>2. IF cli.cmd = "rpc" THEN RpcAnswered
        ELSE /\ cli' = [next EXCEPT !.at = Stage(next)]
             /\ Says(NextQuestion(next))
    BY <1>2, <2>1 DEF read_server_response
  <2>3. CASE cli.cmd = "rpc"
    <3>1. cli' = Finish("ok") /\ inbox' = inbox
      BY <2>2, <2>3 DEF RpcAnswered
    <3>2. cli.cmd \notin Streaming
      BY <2>3 DEF Streaming
    <3>3. CliShape' /\ CommandSound' /\ SameCommand
      BY <3>1, <3>2, Finished
    <3> QED
      BY <3>1, <3>3, InboxKept
  <2>4. CASE cli.cmd # "rpc"
    <3>1. cli' = [next EXCEPT !.at = Stage(next)] /\ Says(NextQuestion(next))
      BY <2>2, <2>4
    <3>2. cli.cmd \in Streaming
      BY <2>4 DEF CommandSound, CliShape, Commands, Streaming
    <3>3. cli.id \in DOMAIN cli.sensors /\ cli.sensors[cli.id] \in Advertised
      BY <1>2, <3>2 DEF DaemonSays
    <3>4. CliShape' /\ CommandSound' /\ SameCommand /\ ClientSays(NextQuestion(next))
      BY <2>1, <2>4, <3>1, <3>3, ReadingAnswered
    <3> QED
      BY <3>1, <3>4, InboxAppended
  <2> QED
    BY <2>3, <2>4
<1>3. CASE ~(m.t = "Bye") /\ ~(m.t = "Response" /\ m.arg = cli.id)
  <2>1. cli' = cli /\ inbox' = inbox
    BY <1>3 DEF read_server_response
  <2>2. CliShape' /\ CommandSound' /\ SameCommand
    BY <2>1, CommandKept
  <2> QED
    BY <2>1, <2>2, InboxKept
<1> QED
  BY <1>1, <1>2, <1>3

(* The frame read while the command streams. *)
LEMMA StreamSound ==
  ASSUME CliShape, CommandSound, InboxSound, cli.at = "stream", NEW m, AfterSubscribe(m), torn' = torn
  PROVE  CliShape' /\ CommandSound' /\ InboxSound' /\ SameCommand
<1>1. PICK p, more : p = Append(cli.printed, m.arg) /\ more = [cli EXCEPT !.printed = p]
  OBVIOUS
<1>2. PICK wanted \in BOOLEAN : wanted <=> m.t = "Sample" /\ m.arg \in Wanted(cli)
  OBVIOUS
<1>3. PICK a, b, n, i, q, t, c : /\ a = cli.cmd /\ b = cli.sensors /\ n = cli.count /\ i = cli.id
                                 /\ q = cli.printed /\ t = cli.todo /\ c = cli
  OBVIOUS
<1>4. c = [cmd |-> a, sensors |-> b, count |-> n, at |-> "stream", id |-> i, printed |-> q, todo |-> t]
  BY <1>3 DEF CliShape
<1>5. more = [cmd |-> a, sensors |-> b, count |-> n, at |-> "stream", id |-> i, printed |-> p, todo |-> t]
  <2>1. PICK x : x = [c EXCEPT !.printed = p]
    OBVIOUS
  <2>2. x = [cmd |-> a, sensors |-> b, count |-> n, at |-> "stream", id |-> i, printed |-> p, todo |-> t]
    BY <1>4, <2>1, CliPrinted
  <2>3. more = x
    BY <1>1, <1>3, <2>1
  <2> QED
    BY <2>2, <2>3
<1>6. more.printed = p
  BY <1>5
<1>7. PICK done : done = [more EXCEPT !.at = "ok"]
  OBVIOUS
<1>8. done = [cmd |-> a, sensors |-> b, count |-> n, at |-> "ok", id |-> i, printed |-> p, todo |-> t]
  BY <1>5, <1>7, CliMoved
<1>9. IF m.t = "Bye" \/ (wanted /\ Len(p) >= cli.count)
      THEN Goodbyes /\ cli' = IF wanted THEN done ELSE Finish("bye")
      ELSE /\ cli' = CASE wanted -> more
                       [] m.t = "SensorDegraded" /\ m.arg \in Wanted(cli) -> Finish("err")
                       [] OTHER -> cli
           /\ UNCHANGED inbox
  BY <1>1, <1>2, <1>6, <1>7 DEF AfterSubscribe
<1>10. CASE wanted
  <2>1. m.t = "Sample" /\ m.arg \in Wanted(cli)
    BY <1>2, <1>10
  <2>2. CASE Len(p) >= cli.count
    <3>1. Goodbyes /\ cli' = done
      BY <1>9, <1>10, <2>2
    <3>2. CliShape' /\ CommandSound' /\ SameCommand
      <4>1. cli' = [cmd |-> cli.cmd, sensors |-> cli.sensors, count |-> cli.count, at |-> "ok",
                    id |-> cli.id, printed |-> p, todo |-> cli.todo]
        BY <1>3, <1>8, <3>1
      <4> QED
        BY <1>1, <2>1, <2>2, <4>1, PrintedSound
    <3> QED
      BY <3>1, <3>2, InboxFarewell
  <2>3. CASE ~(Len(p) >= cli.count)
    <3>1. inbox' = inbox /\ cli' = more
      BY <1>9, <1>10, <2>1, <2>3
    <3>2. CliShape' /\ CommandSound' /\ SameCommand
      <4>1. cli' = [cmd |-> cli.cmd, sensors |-> cli.sensors, count |-> cli.count, at |-> "stream",
                    id |-> cli.id, printed |-> p, todo |-> cli.todo]
        BY <1>3, <1>5, <3>1
      <4> QED
        BY <1>1, <2>1, <2>3, <4>1, PrintedSound
    <3> QED
      BY <3>1, <3>2, InboxKept
  <2> QED
    BY <2>2, <2>3
<1>11. CASE ~wanted
  <2>1. CASE m.t = "Bye"
    <3>1. Goodbyes /\ cli' = Finish("bye")
      BY <1>9, <1>11, <2>1
    <3>2. CliShape' /\ CommandSound' /\ SameCommand
      BY <3>1, Finished
    <3> QED
      BY <3>1, <3>2, InboxFarewell
  <2>2. CASE m.t # "Bye"
    <3>1. inbox' = inbox /\ (cli' = Finish("err") \/ cli' = cli)
      BY <1>9, <1>11, <2>2
    <3>2. CliShape' /\ CommandSound' /\ SameCommand
      <4>1. CASE cli' = Finish("err")
        BY <4>1, Finished
      <4>2. CASE cli' = cli
        BY <4>2, CommandKept
      <4> QED
        BY <3>1, <4>1, <4>2
    <3> QED
      BY <3>1, <3>2, InboxKept
  <2> QED
    BY <2>1, <2>2
<1> QED
  BY <1>10, <1>11

(* Every branch takes the whole frame. *)
LEMMA FrameConsumed ==
  ASSUME BytesSound, Arrived, Aligned, UNCHANGED <<write, torn>>, SameCommand,
         NEW m, m = pipe[1].of,
         AfterWelcome(m) \/ AfterList(m) \/ read_server_response(m) \/ AfterSubscribe(m)
  PROVE  BytesSound'
<1>1. FrameSize \in {3, 4}
  BY MsgLens DEF FrameSize
<1>2. skip_frame_body(FrameSize - 1) = FrameSize
  <2>1. PICK k : k = FrameSize
    OBVIOUS
  <2>2. 1 + 1 + ((k - 1) - 1) = k
    BY <1>1, <2>1
  <2> QED
    BY <2>1, <2>2 DEF skip_frame_body
<1>3. Consume(FrameSize)
  <2>1. CASE AfterWelcome(m)
    BY <2>1 DEF AfterWelcome
  <2>2. CASE AfterList(m)
    BY <2>2 DEF AfterList
  <2>3. CASE read_server_response(m)
    <3>1. \/ Consume(FrameSize)
          \/ Consume(IF m.t = "Response" THEN FrameSize ELSE skip_frame_body(FrameSize - 1))
      BY <2>3 DEF read_server_response
    <3> QED
      BY <1>2, <3>1
  <2>4. CASE AfterSubscribe(m)
    BY <2>4 DEF AfterSubscribe
  <2> QED
    BY <2>1, <2>2, <2>3, <2>4
<1> QED
  BY <1>3, FrameTaken

(* What the frame at the front says is what the daemon says. *)
LEMMA FrontSaid ==
  ASSUME BytesSound, Arrived PROVE DaemonSays(pipe[1].of)
<1>1. PICK p : p = pipe
  OBVIOUS
<1>2. IsSeq(p) /\ p # <<>> /\ \A n \in DOMAIN p : DaemonSays(p[n].of)
  BY <1>1 DEF BytesSound, Arrived
<1>3. 1 \in DOMAIN p
  BY <1>2, TailSeq
<1> QED
  BY <1>1, <1>2, <1>3

LEMMA ReadSound ==
  ASSUME WireInv, ReadsFrame PROVE WireInv'
<1>1. /\ CliShape /\ CommandSound /\ InboxSound /\ BytesSound /\ subscribed \subseteq Advertised
      /\ UNCHANGED <<write, subscribed, torn>> /\ Arrived
  BY DEF WireInv, ReadsFrame
<1>2. PICK m : m = pipe[1].of
  OBVIOUS
<1>3. \/ ~Aligned /\ cli' = Finish("misled") /\ UNCHANGED <<inbox, pipe>>
      \/ Aligned /\ cli.at = "welcome" /\ AfterWelcome(m)
      \/ Aligned /\ cli.at = "list" /\ AfterList(m)
      \/ Aligned /\ cli.at = "rpc" /\ read_server_response(m)
      \/ Aligned /\ cli.at = "stream" /\ AfterSubscribe(m)
  BY <1>2 DEF ReadsFrame
<1>4. CASE ~Aligned /\ cli' = Finish("misled") /\ UNCHANGED <<inbox, pipe>>
  <2>1. torn /\ torn' = torn
    BY <1>1, <1>4, NeverMisled
  <2>2. CliShape' /\ CommandSound' /\ SameCommand
    BY <1>1, <1>4, <2>1, Finished
  <2>3. InboxSound'
    BY <1>1, <1>4, <2>2, InboxKept
  <2>4. BytesSound'
    BY <1>1, <1>4, <2>2, BytesKept
  <2> QED
    BY <1>1, <2>2, <2>3, <2>4 DEF WireInv
<1>5. CASE Aligned /\ ~(~Aligned /\ cli' = Finish("misled") /\ UNCHANGED <<inbox, pipe>>)
  <2>1. DaemonSays(m)
    BY <1>1, <1>2, FrontSaid
  <2>2. CASE cli.at = "welcome" /\ AfterWelcome(m)
    <3>1. CliShape' /\ CommandSound' /\ InboxSound' /\ SameCommand
      BY <1>1, <2>2, WelcomeSound
    <3>2. BytesSound'
      BY <1>1, <1>2, <1>5, <2>2, <3>1, FrameConsumed
    <3> QED
      BY <1>1, <3>1, <3>2 DEF WireInv
  <2>3. CASE cli.at = "list" /\ AfterList(m)
    <3>1. CliShape' /\ CommandSound' /\ InboxSound' /\ SameCommand
      BY <1>1, <2>3, ListSound
    <3>2. BytesSound'
      BY <1>1, <1>2, <1>5, <2>3, <3>1, FrameConsumed
    <3> QED
      BY <1>1, <3>1, <3>2 DEF WireInv
  <2>4. CASE cli.at = "rpc" /\ read_server_response(m)
    <3>1. CliShape' /\ CommandSound' /\ InboxSound' /\ SameCommand
      BY <1>1, <2>1, <2>4, ResponseSound
    <3>2. BytesSound'
      BY <1>1, <1>2, <1>5, <2>4, <3>1, FrameConsumed
    <3> QED
      BY <1>1, <3>1, <3>2 DEF WireInv
  <2>5. CASE cli.at = "stream" /\ AfterSubscribe(m)
    <3>1. CliShape' /\ CommandSound' /\ InboxSound' /\ SameCommand
      BY <1>1, <2>5, StreamSound
    <3>2. BytesSound'
      BY <1>1, <1>2, <1>5, <2>5, <3>1, FrameConsumed
    <3> QED
      BY <1>1, <3>1, <3>2 DEF WireInv
  <2> QED
    BY <1>3, <1>5, <2>2, <2>3, <2>4, <2>5
<1> QED
  BY <1>3, <1>4, <1>5

LEMMA EndSound ==
  ASSUME WireInv, ReadsClosed \/ Interrupted PROVE WireInv'
<1>1. /\ CliShape /\ CommandSound /\ InboxSound /\ BytesSound /\ subscribed \subseteq Advertised
      /\ UNCHANGED <<pipe, write, subscribed, torn>>
  BY DEF WireInv, ReadsClosed, Interrupted
<1>2. PICK s \in {"err", "interrupted"} : cli' = Finish(s)
  BY DEF ReadsClosed, Interrupted
<1>3. inbox' = inbox \/ Goodbyes
  BY DEF ReadsClosed, Interrupted
<1>4. CliShape' /\ CommandSound' /\ SameCommand
  BY <1>1, <1>2, Finished
<1>5. InboxSound'
  BY <1>1, <1>3, <1>4, InboxKept, InboxFarewell
<1>6. BytesSound'
  BY <1>1, <1>4, BytesKept
<1> QED
  BY <1>1, <1>4, <1>5, <1>6 DEF WireInv

LEMMA WireInitSound ==
  ASSUME WireInit PROVE WireInv
<1> DEFINE Named(cmd, list) ==
             CASE cmd = "read" -> <<list[1]>> [] cmd = "watch" -> list [] OTHER -> <<>>
           Left(cmd, list) == IF cmd = "rpc" THEN <<"rpc">> ELSE Named(cmd, list)
<1>0. PICK cmd \in Commands, list \in Asked, n \in Counts :
         /\ cmd = "read" => list # <<>>
         /\ cli = [cmd |-> cmd, sensors |-> Named(cmd, list), count |-> n, at |-> "start",
                   id |-> 1, printed |-> <<>>, todo |-> Left(cmd, list)]
  BY DEF WireInit, Commands
<1>1. PICK b, t :
         /\ b = (CASE cmd = "read" -> <<list[1]>> [] cmd = "watch" -> list [] OTHER -> <<>>)
         /\ t = (IF cmd = "rpc" THEN <<"rpc">> ELSE b)
         /\ cmd = "read" => list # <<>>
         /\ cli = [cmd |-> cmd, sensors |-> b, count |-> n, at |-> "start", id |-> 1,
                   printed |-> <<>>, todo |-> t]
  BY <1>0
<1>2. /\ inbox = <<>> /\ pipe = <<>> /\ write = NoWrite /\ subscribed = {} /\ torn = FALSE
  BY DEF WireInit
<1>3. list \in Seq(STRING) /\ (\A i \in DOMAIN list : list[i] # "rpc") /\ n \in Nat
  BY WireAssumption
<1>4. IsSeq(<<>>) /\ IsSeq(<<"rpc">>) /\ Len(<<>>) = 0
  BY DEF IsSeq
<1>5. IsSeq(b) /\ \A i \in DOMAIN b : b[i] # "rpc"
  <2>1. CASE cmd = "read"
    <3>1. PICK x : x = list[1]
      OBVIOUS
    <3>2. 1 \in DOMAIN list
      BY <1>1, <1>3, <2>1
    <3>3. b = <<x>> /\ x # "rpc"
      BY <1>1, <1>3, <2>1, <3>1, <3>2
    <3>4. IsSeq(<<x>>) /\ DOMAIN <<x>> = {1} /\ <<x>>[1] = x
      BY DEF IsSeq
    <3> QED
      BY <3>3, <3>4
  <2>2. CASE cmd = "watch"
    <3>1. b = list
      BY <1>1, <2>2
    <3>2. IsSeq(list)
      BY <1>3, SeqIsSeq
    <3> QED
      BY <1>3, <3>1, <3>2
  <2>3. CASE cmd # "read" /\ cmd # "watch"
    <3>1. b = <<>>
      BY <1>1, <2>3
    <3> QED
      BY <1>4, <3>1
  <2> QED
    BY <2>1, <2>2, <2>3
<1>6. IsSeq(t)
  BY <1>1, <1>4, <1>5
<1>7. /\ cli.cmd = cmd /\ cli.sensors = b /\ cli.count = n /\ cli.at = "start" /\ cli.id = 1
      /\ cli.printed = <<>> /\ cli.todo = t
  BY <1>1
<1>8. CliShape
  <2>1. cli = [cmd |-> cli.cmd, sensors |-> cli.sensors, count |-> cli.count, at |-> cli.at,
               id |-> cli.id, printed |-> cli.printed, todo |-> cli.todo]
    BY <1>1, <1>7
  <2> QED
    BY <1>3, <1>4, <1>5, <1>6, <1>7, <2>1 DEF CliShape
<1>9. ASSUME cmd \in Streaming PROVE Asks(cli)
  <2>1. t = b
    BY <1>1, <1>9 DEF Streaming
  <2>2. Len(b) \in Nat /\ DOMAIN b = 1 .. Len(b)
    BY <1>5 DEF IsSeq
  <2>3. Len(b) = Len(b) + 1 - 1 /\ (\A j \in DOMAIN b : 1 + j - 1 = j) /\ \A i \in DOMAIN b : ~(i < 1)
    BY <2>2
  <2> QED
    BY <1>7, <2>1, <2>3 DEF Asks
<1>10. cmd = "rpc" => t # <<>>
  BY <1>1
<1>11. CommandSound
  BY <1>7, <1>9, <1>10 DEF CommandSound
<1>12. InboxSound
  BY <1>2, <1>4 DEF InboxSound
<1>13. BytesSound
  <2>1. write.by = "none" /\ write.left = <<>> /\ IsRest(<<>>) /\ write = NoWrite
    BY <1>2, NothingLeft DEF NoWrite
  <2>2. WholeFrames(<<>>)
    BY <1>4 DEF WholeFrames
  <2>3. <<>> \o <<>> = <<>>
    BY <1>4, NothingLeft
  <2>4. WholeFrames(pipe \o write.left)
    BY <1>2, <2>1, <2>2, <2>3
  <2>5. write = [by |-> write.by, left |-> write.left]
    BY <2>1, NothingLeft
  <2>6. IsSeq(pipe) /\ IsSeq(write.left) /\ IsRest(write.left) /\ torn \in BOOLEAN
    BY <1>2, <1>4, <2>1
  <2>7. DOMAIN pipe = {} /\ DOMAIN write.left = {}
    BY <1>2, <2>1, NothingLeft
  <2>8. (\A k \in DOMAIN pipe : DaemonSays(pipe[k].of))
        /\ (\A k \in DOMAIN write.left : DaemonSays(write.left[k].of))
    BY <2>7
  <2> QED
    BY <2>1, <2>4, <2>5, <2>6, <2>8 DEF BytesSound
<1> QED
  BY <1>2, <1>8, <1>11, <1>12, <1>13 DEF WireInv

LEMMA WireStep ==
  WireInv /\ [WireNext]_wireVars => WireInv'
<1> SUFFICES ASSUME WireInv, [WireNext]_wireVars PROVE WireInv'
  OBVIOUS
<1>1. CASE UNCHANGED wireVars
  <2>1. /\ CliShape /\ CommandSound /\ InboxSound /\ BytesSound /\ subscribed \subseteq Advertised
        /\ UNCHANGED <<cli, inbox, pipe, write, subscribed, torn>>
    BY <1>1 DEF WireInv, wireVars
  <2>2. CliShape' /\ CommandSound' /\ SameCommand
    BY <2>1, CommandKept
  <2>3. InboxSound'
    BY <2>1, <2>2, InboxKept
  <2>4. BytesSound'
    BY <2>1, <2>2, BytesKept
  <2> QED
    BY <2>1, <2>2, <2>3, <2>4 DEF WireInv
<1>2. CASE WireNext
  <2>1. CASE connect_and_hello
    BY <2>1, ConnectSound
  <2>2. CASE SessionHandles
    BY <2>2, SessionSound
  <2>3. CASE SessionEnds
    BY <2>3, SessionEndSound
  <2>4. CASE PumpPushes
    BY <2>4, PumpSound
  <2>5. CASE WriteProgresses \/ SocketWriteTimesOut
    BY <2>5, WriteSound
  <2>6. CASE ReadsFrame
    BY <2>6, ReadSound
  <2>7. CASE ReadsClosed \/ Interrupted
    BY <2>7, EndSound
  <2> QED
    BY <1>2, <2>1, <2>2, <2>3, <2>4, <2>5, <2>6, <2>7 DEF WireNext
<1> QED
  BY <1>1, <1>2

(* A command of the CLI stays in step with the daemon (read_server_response,
   write_frame, read::run, watch::run): for any lists of sensors, any room
   in the socket and any number of pushes it never takes the middle of a
   frame for a frame unless the daemon gave up a write half way, streams
   only sensors the daemon has, prints only what was asked for, and ends
   well with exactly --count lines. *)
THEOREM CommandsAlwaysInStep == WireSpec => []CommandsStayInStep
<1>1. WireInit => WireInv
  BY WireInitSound
<1>2. WireInv /\ [WireNext]_wireVars => WireInv'
  BY WireStep
<1>3. WireInv => CommandsStayInStep
  <2> SUFFICES ASSUME WireInv PROVE CommandsStayInStep
    OBVIOUS
  <2>1. CliShape /\ CommandSound
    BY DEF WireInv
  <2>2. cli.at = "stream" => Wanted(cli) \subseteq Advertised
    BY <2>1, AllKnown
  <2>3. /\ cli.at = "misled" => torn
        /\ cli.at = "ok" /\ cli.cmd \in {"read", "watch"} => Len(cli.printed) = cli.count
        /\ \A i \in DOMAIN cli.printed : cli.printed[i] \in Wanted(cli) \cap Advertised
    BY <2>1 DEF CommandSound, Streaming
  <2> QED
    BY <2>2, <2>3 DEF CommandsStayInStep
<1> QED
  BY <1>1, <1>2, <1>3, PTL DEF WireSpec
=============================================================================
