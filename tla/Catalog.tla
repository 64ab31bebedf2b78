------------------------------- MODULE Catalog -------------------------------
(***************************************************************************)
(* The workspaces of a device (app.rs, workspace.rs).  One catalog holds   *)
(* every workspace and the signing key.  A native program replaces the     *)
(* catalog's file; a browser writes it in IndexedDB transactions that end  *)
(* later.  eframe's own storage keeps a second copy of the key for as long *)
(* as the catalog is not known to be durable.                              *)
(*                                                                         *)
(* A document is reduced to the number of its latest edit: Document and    *)
(* Workspace model what it holds.                                          *)
(***************************************************************************)
EXTENDS Integers, Sequences

CONSTANTS
  Id,           \* workspace ids
  Home,         \* the id of the workspace a fresh program starts with
  Broken,       \* the ids whose snapshots do not replay
  Secret,       \* signing keys
  NoSecret,     \* the empty string in eframe's storage
  Found,        \* what the first start may find: catalogs, or NoCatalog
  MaxEdits,     \* bound: edits in all
  MaxSaves,     \* bound: catalogs a run of the program writes
  MaxFailures   \* bound: reads and writes that fail in all

NoCatalog == [saved |-> << >>]

(* A catalog: which workspace is active, the key, and the edit each workspace
   was saved at.  Edits are counted from the first start on. *)
Catalogs ==
  [active : Id, secret : Secret, saved : UNION {[I -> {0}] : I \in SUBSET Id}]

ASSUME CatalogAssumption ==
  /\ Home \in Id /\ Broken \subseteq Id \ {Home} /\ NoSecret \notin Secret
  /\ MaxEdits \in Nat /\ MaxSaves \in Nat /\ MaxFailures \in Nat
  /\ Found \subseteq Catalogs \cup {NoCatalog}

VARIABLES
  web,      \* the build: a browser, or a native program
  up,       \* the program runs
  app,      \* the fields of MantisApp that persistence reads and writes
  store,    \* Persistence, and the disk or database under it
  legacy,   \* the key in eframe's storage, or NoSecret
  edits,    \* edits made
  deleted   \* the workspaces the user removed, or gave up with a catalog

vars == <<web, up, app, store, legacy, edits, deleted>>

-----------------------------------------------------------------------------

Ids(c) == DOMAIN c.saved

(* validate, and install_catalog's replay of the active workspace. *)
Opens(c) == c # NoCatalog /\ c.active \in Ids(c) \ Broken

(* with_identity: one empty workspace. *)
Fresh(secret) ==
  [ready |-> FALSE, disabled |-> FALSE, corrupt |-> FALSE, secret |-> secret,
   durability |-> [confirmed |-> FALSE, latest |-> 0, required |-> 0],
   catalog |-> [active |-> Home, secret |-> secret, saved |-> [i \in {Home} |-> 0]],
   doc |-> 0, stamp |-> NoCatalog]

With(saved, id, edit) ==
  [i \in DOMAIN saved \cup {id} |-> IF i = id THEN edit ELSE saved[i]]

(* refresh_catalog puts the open document and the key into the catalog. *)
Image(a) ==
  [a.catalog EXCEPT !.secret = a.secret, !.saved = With(@, a.catalog.active, a.doc)]

-----------------------------------------------------------------------------
(* CatalogDurability: d of what was asked for and what was confirmed.        *)

require_durable_save(d) == [d EXCEPT !.confirmed = FALSE, !.required = d.latest + 1]

(* Mutant: an asynchronous write counts as done. *)
RequestedDone(d, generation, durable) ==
  [d EXCEPT !.latest = generation, !.confirmed = generation >= d.required]

Requested(d, generation, durable) ==
  IF generation < d.latest THEN d
  ELSE [d EXCEPT !.latest = generation,
                 !.confirmed = durable /\ generation >= d.required]

(* Mutant: any completion confirms the catalog. *)
ConfirmedByAny(d, generation) == [d EXCEPT !.confirmed = TRUE]

ConfirmedBy(d, generation) ==
  [d EXCEPT !.confirmed = @ \/ (generation = d.latest /\ generation >= d.required)]

FailedBy(d, generation) ==
  [d EXCEPT !.confirmed = @ /\ generation # d.latest]

-----------------------------------------------------------------------------
(* Persistence::save: what a write of catalog c may do to store s, and what  *)
(* the ticket says.                                                          *)

Event(kind, generation) == [kind |-> kind, generation |-> generation]

Told(s, e) == [s EXCEPT !.events = Append(@, e)]

MayFail(s) == s.failures < MaxFailures

Fails(s) == [s EXCEPT !.failures = @ + 1]

(* atomic_write stages the file, renames it and syncs its directory.  A rename
   whose sync failed is seen, and may be undone by a power loss. *)
NativeSave(s, c, generation) ==
  {[store |-> Told([s EXCEPT !.disk = c, !.surviving = {c}], Event("saved", generation)),
    durable |-> TRUE]}
  \cup
  {[store |-> Told(t, Event("failed", generation)), durable |-> FALSE] :
     t \in IF MayFail(s)
             THEN {Fails(s), Fails([s EXCEPT !.disk = c, !.surviving = @ \cup {c}])}
             ELSE {}}

(* web_save starts a transaction, or reports that it could not. *)
WebSave(s, c, generation) ==
  {[store |-> [s EXCEPT !.writes = Append(@, [generation |-> generation, catalog |-> c])],
    durable |-> FALSE]}
  \cup
  {[store |-> Told(Fails(t), Event("failed", generation)), durable |-> FALSE] :
     t \in IF MayFail(s) THEN {s} ELSE {}}

Save(s, c) ==
  LET generation == s.generation + 1
      numbered == [s EXCEPT !.generation = generation]
  IN IF web THEN WebSave(numbered, c, generation) ELSE NativeSave(numbered, c, generation)

(* Mutant: a transition does not put the open document into the catalog while
   storage is out of order. *)
OffDutyKeepsCatalog(a) == a

OffDuty(a) == [a EXCEPT !.catalog = Image(a)]

Writable(a) == a.ready /\ ~a.disabled /\ ~a.corrupt

(* persist_now: what it may make of the program and the store. *)
persist_now(a, s) ==
  IF ~Writable(a) THEN {<<OffDuty(a), s>>}
  ELSE LET saved == [a EXCEPT !.catalog = Image(a), !.stamp = Image(a)]
       IN {<<[saved EXCEPT !.durability =
                Requested(@, r.store.generation, r.durable)], r.store>> :
             r \in Save(s, Image(a))}

(* A handler's steps: Then changes the program, Persisted calls persist_now. *)
Then(pairs, Changed(_)) == {<<Changed(p[1]), p[2]>> : p \in pairs}
Persisted(pairs)        == UNION {persist_now(p[1], p[2]) : p \in pairs}
Now                     == {<<app, store>>}

Becomes(pairs) ==
  \E p \in pairs :
    /\ p[2].generation <= MaxSaves
    /\ app' = p[1] /\ store' = p[2]

-----------------------------------------------------------------------------
(* The program starts and reads the catalog.                                 *)

Init ==
  /\ web \in BOOLEAN /\ up = FALSE
  /\ app = Fresh(CHOOSE secret \in Secret : TRUE)
  /\ \E found \in Found :
       store = [disk |-> found, surviving |-> {found}, writes |-> << >>,
                events |-> << >>, generation |-> 0, failures |-> 0]
  /\ legacy \in Secret \cup {NoSecret}
  /\ legacy = NoSecret => store.disk # NoCatalog
  /\ edits = 0 /\ deleted = {}

(* new: eframe's key, or one just generated. *)
Start ==
  /\ ~up /\ up' = TRUE
  /\ \E secret \in IF legacy # NoSecret THEN {legacy}
                   ELSE {k \in Secret : \A c \in store.surviving \ {NoCatalog} : c.secret # k} :
       app' = Fresh(secret)
  /\ \E s \in {Told(store, Event("loaded", 0))}
              \cup IF MayFail(store) THEN {Told(Fails(store), Event("unread", 0))} ELSE {} :
       store' = [s EXCEPT !.generation = 0]
  /\ UNCHANGED <<web, legacy, edits, deleted>>

Heard(kind) == store.events # << >> /\ Head(store.events).kind = kind
Loading     == Heard("loaded") \/ Heard("unread")

Ready(a) == [a EXCEPT !.ready = TRUE, !.durability = require_durable_save(@)]

(* install_catalog. *)
Installed(a, c) ==
  [a EXCEPT !.ready = TRUE, !.secret = c.secret, !.catalog = c,
            !.doc = c.saved[c.active], !.stamp = c,
            !.durability = [@ EXCEPT !.confirmed = TRUE, !.required = 0]]

(* process_persistence, the event of the load. *)
Load ==
  /\ up /\ Loading
  /\ LET found == store.disk
         heard == [store EXCEPT !.events = << >>]
     IN \/ /\ Heard("loaded") /\ Opens(found)
           /\ app' = Installed(app, found) /\ store' = heard
        \/ /\ Heard("loaded") /\ found # NoCatalog /\ ~Opens(found)
           /\ app' = [Ready(app) EXCEPT !.corrupt = TRUE] /\ store' = heard
        \/ /\ Heard("loaded") /\ found = NoCatalog
           /\ Becomes(persist_now(Ready(app), heard))
        \/ /\ Heard("unread")
           /\ app' = [Ready(app) EXCEPT !.disabled = TRUE] /\ store' = heard
  /\ UNCHANGED <<web, up, legacy, edits, deleted>>

(* process_persistence, the outcomes of saves. *)
Heeds(a, e) ==
  IF e.kind = "saved" THEN [a EXCEPT !.durability = ConfirmedBy(@, e.generation)]
  ELSE [a EXCEPT !.durability = FailedBy(@, e.generation),
                 !.disabled = @ \/ e.generation = a.durability.latest]

HeedsAll(a, events) ==
  LET after[i \in 0..Len(events)] == IF i = 0 THEN a ELSE Heeds(after[i - 1], events[i])
  IN after[Len(events)]

Drain ==
  /\ up /\ store.events # << >> /\ ~Loading
  /\ app' = HeedsAll(app, store.events)
  /\ store' = [store EXCEPT !.events = << >>]
  /\ UNCHANGED <<web, up, legacy, edits, deleted>>

-----------------------------------------------------------------------------
(* What the user does once the workspaces are open: storage_gate.            *)

Open == up /\ app.ready /\ ~app.corrupt

Edit ==
  /\ Open /\ edits < MaxEdits
  /\ edits' = edits + 1
  /\ app' = [app EXCEPT !.doc = edits + 1]
  /\ UNCHANGED <<web, up, store, legacy, deleted>>

Autosave ==
  /\ Open /\ Writable(app) /\ app.stamp # Image(app)
  /\ Becomes(persist_now(app, store))
  /\ UNCHANGED <<web, up, legacy, edits, deleted>>

Enters(a, id) == [a EXCEPT !.catalog.active = id, !.doc = a.catalog.saved[id]]

Adds(a, id, edit) == [a EXCEPT !.catalog.saved = With(@, id, edit)]

(* switch_workspace saves the one to leave, and the choice unless the other
   one does not replay. *)
Switched(pairs, id) ==
  IF id \in Broken THEN Persisted(pairs)
  ELSE LET Enter(a) == Enters(a, id) IN Persisted(Then(Persisted(pairs), Enter))

Switch(id) ==
  /\ Open /\ id \in Ids(app.catalog) \ {app.catalog.active}
  /\ Becomes(Switched(Now, id))
  /\ UNCHANGED <<web, up, legacy, edits, deleted>>

(* next_workspace_id: the clock makes an id that was never used. *)
Unused(id) ==
  id \notin UNION ({deleted, Broken, {Home}, Ids(app.catalog)}
                   \cup {Ids(c) : c \in store.surviving})

(* create_workspace. *)
Create(id) ==
  /\ Open /\ Unused(id)
  /\ LET Begin(a) == Enters(Adds(a, id, 0), id)
     IN Becomes(Persisted(Then(Persisted(Now), Begin)))
  /\ UNCHANGED <<web, up, legacy, edits, deleted>>

(* duplicate_workspace. *)
Duplicate(id) ==
  /\ Open /\ Unused(id)
  /\ LET Copy(a) == Enters(Adds(a, id, a.doc), id)
     IN Becomes(Persisted(Then(Persisted(Now), Copy)))
  /\ UNCHANGED <<web, up, legacy, edits, deleted>>

(* import_workspace_file: a file that replays becomes a workspace, to which
   the program then switches. *)
Import(id) ==
  /\ Open /\ Unused(id)
  /\ LET Add(a) == Adds(a, id, 0) IN Becomes(Switched(Then(Now, Add), id))
  /\ UNCHANGED <<web, up, legacy, edits, deleted>>

Without(a, id) ==
  [a EXCEPT !.catalog.saved = [i \in DOMAIN @ \ {id} |-> @[i]]]

(* delete_workspace_now: another workspace is entered first if the one to
   delete is open.  If that one does not replay, nothing is deleted. *)
Delete(id) ==
  /\ Open /\ id \in Ids(app.catalog) /\ Ids(app.catalog) # {id}
  /\ LET Forget(a) == Without(a, id)
         saved == Persisted(Now)
     IN \/ /\ id # app.catalog.active
           /\ Becomes(Persisted(Then(saved, Forget)))
           /\ deleted' = deleted \cup {id}
        \/ /\ id = app.catalog.active
           /\ \E next \in Ids(app.catalog) \ {id} :
                IF next \in Broken
                  THEN Becomes(Switched(saved, next)) /\ UNCHANGED deleted
                  ELSE /\ Becomes(Persisted(Then(Switched(saved, next), Forget)))
                       /\ deleted' = deleted \cup {id}
  /\ UNCHANGED <<web, up, legacy, edits>>

(* key_backup_dialog, Import pasted backup. *)
ImportKey(secret) ==
  /\ Open /\ secret # app.secret
  /\ Becomes(persist_now([app EXCEPT !.secret = secret,
                                     !.durability = require_durable_save(@)], store))
  /\ UNCHANGED <<web, up, legacy, edits, deleted>>

(* storage_gate, Start fresh after copying recovery data. *)
StartFresh ==
  /\ up /\ app.ready /\ app.corrupt
  /\ Becomes(persist_now([app EXCEPT !.corrupt = FALSE], store))
  /\ deleted' = deleted \cup UNION {Ids(c) : c \in store.surviving}
  /\ UNCHANGED <<web, up, legacy, edits>>

-----------------------------------------------------------------------------

(* legacy_secret_for_save. *)
legacy_secret_for_save(a) ==
  IF a.durability.confirmed /\ Writable(a) THEN NoSecret ELSE a.secret

(* save, which eframe calls at intervals and before the exit: what it keeps of
   the key is decided before the catalog is written. *)
SaveState ==
  /\ up
  /\ Becomes(persist_now(app, store))
  /\ legacy' = legacy_secret_for_save(app)
  /\ UNCHANGED <<web, up, edits, deleted>>

(* on_exit. *)
Exit ==
  /\ up /\ ~web /\ up' = FALSE
  /\ \E p \in persist_now(app, store) :
       /\ app' = p[1]
       /\ store' = [p[2] EXCEPT !.events = << >>, !.generation = 0]
  /\ UNCHANGED <<web, legacy, edits, deleted>>

(* The process dies, or the page is closed: of the transactions under way the
   first ones may still commit. *)
Crash ==
  /\ up /\ up' = FALSE
  /\ \E done \in 0..Len(store.writes) :
       LET disk == IF done = 0 THEN store.disk ELSE store.writes[done].catalog
       IN store' = [store EXCEPT !.disk = disk,
                                 !.surviving = IF web THEN {disk} ELSE @,
                                 !.writes = << >>, !.events = << >>, !.generation = 0]
  /\ UNCHANGED <<web, app, legacy, edits, deleted>>

PowerLoss ==
  /\ ~web /\ up' = FALSE
  /\ \E c \in store.surviving :
       store' = [store EXCEPT !.disk = c, !.surviving = {c},
                              !.events = << >>, !.generation = 0]
  /\ UNCHANGED <<web, app, legacy, edits, deleted>>

-----------------------------------------------------------------------------
(* The browser ends the transactions in the order they were begun.           *)

Commit ==
  /\ up /\ store.writes # << >>
  /\ LET w == Head(store.writes)
     IN store' = Told([store EXCEPT !.disk = w.catalog, !.surviving = {w.catalog},
                                    !.writes = Tail(@)], Event("saved", w.generation))
  /\ UNCHANGED <<web, up, app, legacy, edits, deleted>>

Abort ==
  /\ up /\ store.writes # << >> /\ MayFail(store)
  /\ store' = Told([Fails(store) EXCEPT !.writes = Tail(@)],
                   Event("failed", Head(store.writes).generation))
  /\ UNCHANGED <<web, up, app, legacy, edits, deleted>>

-----------------------------------------------------------------------------

User ==
  \/ Edit \/ StartFresh
  \/ \E id \in Id : Switch(id) \/ Create(id) \/ Duplicate(id) \/ Import(id) \/ Delete(id)
  \/ \E secret \in Secret : ImportKey(secret)

Next ==
  \/ Start \/ Load \/ Drain \/ User \/ Autosave \/ SaveState \/ Exit
  \/ Crash \/ PowerLoss \/ Commit \/ Abort

Spec == Init /\ [][Next]_vars

-----------------------------------------------------------------------------

(* The catalogs that a restart may find from now on if nothing is saved. *)
Findable ==
  store.surviving \cup {store.writes[i].catalog : i \in DOMAIN store.writes}

Stored(secret) ==
  legacy = secret \/ \A c \in Findable : Opens(c) /\ c.secret = secret

(* What the program read when it started, no power loss takes back; or it has
   written a catalog since. *)
ReadForGood == store.generation > 0 \/ store.surviving = {store.disk}

(* The key in use, once it is on the device in a form a power loss cannot take
   back, stays there for as long as it is in use: eframe's copy is erased only
   when the catalog holds it for good, whatever order saves end in.  (A catalog
   whose rename was not synced when the program died is read as if it were
   there for good, and does not count.) *)
KeyStaysStored ==
  [][ReadForGood /\ app'.secret = app.secret /\ Stored(app.secret)
       => Stored(app.secret)']_vars

(* A program that takes its catalog for saved and nothing for changed is right:
   the disk holds what is open, and the completion of an older save, or of one
   that failed, never stood in for the last one. *)
CleanIsOnDisk ==
  up /\ app.durability.confirmed /\ app.stamp = Image(app) =>
    /\ store.disk = Image(app)
    /\ store.generation > 0 => store.surviving = {Image(app)}

Content(a, id) == IF id = a.catalog.active THEN a.doc ELSE a.catalog.saved[id]

(* While the program runs it forgets no edit of any workspace, and no
   workspace, whether or not storage works. *)
NothingOpenIsLost ==
  [][up /\ up' /\ app.ready =>
       \A id \in Ids(app.catalog) \ deleted' :
         id \in Ids(app'.catalog) /\ Content(app, id) <= Content(app', id)]_vars
=============================================================================
