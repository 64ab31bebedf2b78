---------------------------- MODULE CatalogProofs ----------------------------
(***************************************************************************)
(* What is proved of the desktop program's catalog of workspaces, for any  *)
(* workspaces, keys, first catalogs, and any number of edits, saves and    *)
(* failures.                                                               *)
(*                                                                         *)
(* The invariant ties the program to its store.  A program that believes   *)
(* in a durable save (AsAsked) asked for what has Landed: its last stamp   *)
(* is on the disk and no transaction is under way, and once it has written *)
(* itself, no power loss brings back anything else.  What makes this hold  *)
(* is in the queues: the newest generation is the last transaction and     *)
(* writes the stamp (WritesOk), and that a save of the newest generation   *)
(* succeeded is heard only when it landed (EventsOk), however often saves  *)
(* overlap or fail.                                                        *)
(*                                                                         *)
(* A handler of the program is a chain of changes and calls of             *)
(* persist_now.  Good says how far such a chain may have come from where   *)
(* it began: invariant, key and workspaces kept, and nothing to be found   *)
(* on the device that was not there or is a catalog with the key.  There   *)
(* is one lemma for each link, and Sound collects what every action owes   *)
(* to the three theorems.                                                  *)
(***************************************************************************)
EXTENDS Catalog, SequenceTheorems, WellFoundedInduction, TLAPS

(* Catalogs as the model uses them when n edits were made. *)
SavedUpTo(n) == UNION {[I -> 0..n] : I \in SUBSET Id}

CatalogsUpTo(n) == [active : Id, secret : Secret, saved : SavedUpTo(n)]

(* The results that process_persistence hears. *)
Kinds == {"loaded", "unread", "saved", "failed"}

(* The program: the open workspace is one of its own and can be opened. *)
AppOk(a, n) ==
  /\ a \in [ready : BOOLEAN, disabled : BOOLEAN, corrupt : BOOLEAN, secret : Secret,
            durability : [confirmed : BOOLEAN, latest : Nat, required : Nat],
            catalog : CatalogsUpTo(n), doc : 0..n, stamp : CatalogsUpTo(n) \cup {NoCatalog}]
  /\ a.catalog.active \in Ids(a.catalog) \ Broken

(* The store: a native write is over when save returns. *)
StoreOk(s, n) ==
  /\ s \in [disk : CatalogsUpTo(n) \cup {NoCatalog},
            surviving : SUBSET (CatalogsUpTo(n) \cup {NoCatalog}),
            writes : Seq([generation : Nat, catalog : CatalogsUpTo(n) \cup {NoCatalog}]),
            events : Seq([kind : Kinds, generation : Nat]),
            generation : Nat, failures : Nat]
  /\ s.disk \in s.surviving
  /\ ~web => s.writes = << >>

(* The catalog that was asked for last is on the device. *)
Landed(a, s) ==
  /\ s.disk = a.stamp /\ s.writes = << >>
  /\ s.generation > 0 => s.surviving = {a.stamp}

(* A save the program believes in has landed, and holds its key. *)
AsAsked(a, s) ==
  /\ a.durability.latest = s.generation
  /\ a.durability.confirmed => Landed(a, s)
  /\ a.durability.confirmed \/ (0 < a.durability.latest /\ a.durability.required <= a.durability.latest) =>
       a.stamp.secret = a.secret /\ Opens(a.stamp)

(* Of the transactions under way the newest is the last, and writes the stamp. *)
WritesOk(a, s) ==
  \A i \in DOMAIN s.writes :
    /\ s.writes[i].generation \in 1..s.generation
    /\ s.writes[i].generation = s.generation => i = Len(s.writes) /\ s.writes[i].catalog = a.stamp

(* What is still to be heard of the newest save is so. *)
EventsOk(a, s) ==
  \A i \in DOMAIN s.events :
    /\ s.events[i].kind \in {"saved", "failed"} /\ s.events[i].generation \in 1..s.generation
    /\ s.events[i].kind = "saved" /\ s.events[i].generation = s.generation => Landed(a, s)

(* The program has not heard of its catalog yet, and has saved nothing. *)
Unloaded(a, s) ==
  /\ \E e \in {"loaded", "unread"} : s.events = <<Event(e, 0)>>
  /\ ~a.durability.confirmed /\ a.durability.latest = 0 /\ s.writes = << >>

(* A program that runs, and its store. *)
PairOk(a, s) ==
  /\ AppOk(a, edits) /\ StoreOk(s, edits) /\ AsAsked(a, s) /\ WritesOk(a, s)
  /\ IF a.ready THEN EventsOk(a, s) ELSE Unloaded(a, s)

(* The store when no program runs. *)
DownOk(s) == StoreOk(s, edits) /\ s.events = << >> /\ s.writes = << >>

(* The inductive invariant. *)
CatalogInv ==
  /\ edits \in Nat /\ web \in BOOLEAN /\ up \in BOOLEAN /\ legacy \in Secret \cup {NoSecret}
  /\ IF up THEN PairOk(app, store) ELSE DownOk(store)

(* What a restart may find. *)
FindableIn(s) == s.surviving \cup {s.writes[i].catalog : i \in DOMAIN s.writes}

(* From s to t the device only gained catalogs with the key. *)
KeyedFrom(s, t, secret) ==
  \A c \in FindableIn(t) : c \in FindableIn(s) \/ (Opens(c) /\ c.secret = secret)

-----------------------------------------------------------------------------

(* A catalog is not the absence of one. *)
LEMMA CatalogIsNone ==
  ASSUME NEW n, NEW c \in CatalogsUpTo(n) PROVE c # NoCatalog
BY DEF CatalogsUpTo, NoCatalog

(* To record an edit of a workspace makes saved edits of saved edits. *)
LEMMA WithIsSaved ==
  ASSUME NEW n \in Nat, NEW saved \in SavedUpTo(n),
         NEW id \in Id, NEW edit \in 0..n
  PROVE  /\ With(saved, id, edit) \in SavedUpTo(n)
         /\ DOMAIN With(saved, id, edit) = DOMAIN saved \cup {id}
         /\ With(saved, id, edit)[id] = edit
<1>1. PICK I \in SUBSET Id : saved \in [I -> 0..n]
  BY DEF SavedUpTo
<1>2. With(saved, id, edit) \in [I \cup {id} -> 0..n]
  BY <1>1 DEF With
<1>3. I \cup {id} \in SUBSET Id
  OBVIOUS
<1> QED BY <1>1, <1>2, <1>3 DEF With, SavedUpTo

(* What refresh_catalog makes of a program's catalog. *)
LEMMA ImageIs ==
  ASSUME NEW n \in Nat, NEW a, AppOk(a, n)
  PROVE  /\ Image(a) \in CatalogsUpTo(n)
         /\ Image(a).active = a.catalog.active /\ Image(a).secret = a.secret
         /\ Ids(Image(a)) = Ids(a.catalog)
         /\ Image(a).saved[a.catalog.active] = a.doc
         /\ \A i \in Ids(a.catalog) \ {a.catalog.active} : Image(a).saved[i] = a.catalog.saved[i]
         /\ Opens(Image(a))
<1> DEFINE c == a.catalog
           w == With(c.saved, c.active, a.doc)
<1>1. /\ c \in CatalogsUpTo(n) /\ c.active \in Ids(c) \ Broken
      /\ a.secret \in Secret /\ a.doc \in 0..n
  BY DEF AppOk
<1>2. Image(a) = [c EXCEPT !.secret = a.secret, !.saved = With(@, c.active, a.doc)]
  BY DEF Image
<1> HIDE DEF c
<1>3. /\ c.saved \in SavedUpTo(n) /\ c.active \in Id
      /\ c = [active |-> c.active, secret |-> c.secret, saved |-> c.saved]
  BY <1>1 DEF CatalogsUpTo
<1>4. /\ w \in SavedUpTo(n)
      /\ DOMAIN w = DOMAIN c.saved \cup {c.active}
      /\ w[c.active] = a.doc
      /\ \A i \in DOMAIN c.saved \ {c.active} : w[i] = c.saved[i]
  <2> DEFINE old == c.saved
             id == c.active
             edit == a.doc
  <2>1. old \in SavedUpTo(n) /\ id \in Id /\ edit \in 0..n
    BY <1>1, <1>3
  <2> HIDE DEF old, id, edit
  <2>2. /\ With(old, id, edit) \in SavedUpTo(n)
        /\ DOMAIN With(old, id, edit) = DOMAIN old \cup {id}
        /\ With(old, id, edit)[id] = edit
    BY <2>1, WithIsSaved
  <2>3. \A i \in DOMAIN old \ {id} : With(old, id, edit)[i] = old[i]
    BY DEF With
  <2> QED BY <2>2, <2>3 DEF old, id, edit
<1>5. Image(a) = [active |-> c.active, secret |-> a.secret, saved |-> w]
  BY <1>2, <1>3
<1> HIDE DEF w
<1>6. Image(a) \in CatalogsUpTo(n)
  BY <1>1, <1>3, <1>4, <1>5 DEF CatalogsUpTo
<1>7. Ids(Image(a)) = Ids(c)
  BY <1>1, <1>4, <1>5 DEF Ids
<1>8. Opens(Image(a))
  BY <1>1, <1>5, <1>6, <1>7, CatalogIsNone DEF Opens
<1>9. /\ Image(a).active = c.active /\ Image(a).secret = a.secret /\ Image(a).saved[c.active] = a.doc
      /\ \A i \in Ids(c) \ {c.active} : Image(a).saved[i] = c.saved[i]
  BY <1>4, <1>5 DEF Ids
<1> QED BY <1>6, <1>7, <1>8, <1>9 DEF c

-----------------------------------------------------------------------------

(* What an attempt to write catalog c makes of store s. *)
Attempted(s, c, r) ==
  LET generation == s.generation + 1
  IN /\ r.store.generation = generation
     /\ FindableIn(r.store) \subseteq FindableIn(s) \cup {c}
     /\ \/ /\ r.durable = TRUE /\ r.store.disk = c /\ r.store.surviving = {c}
           /\ r.store.writes = << >> /\ r.store.events = Append(s.events, Event("saved", generation))
        \/ /\ r.durable = FALSE /\ r.store.writes = s.writes
           /\ r.store.events = Append(s.events, Event("failed", generation))
        \/ /\ r.durable = FALSE /\ r.store.events = s.events
           /\ r.store.writes = Append(s.writes, [generation |-> generation, catalog |-> c])

(* What Save makes of the store, whether the write succeeds, fails or is under way. *)
LEMMA SaveAttempts ==
  ASSUME NEW n, NEW s, StoreOk(s, n), NEW c \in CatalogsUpTo(n), NEW r \in Save(s, c)
  PROVE  StoreOk(r.store, n) /\ Attempted(s, c, r)
<1> DEFINE g == s.generation + 1
           t == [s EXCEPT !.generation = g]
           Cs == CatalogsUpTo(n) \cup {NoCatalog}
           Es == [kind : Kinds, generation : Nat]
           Ws == [generation : Nat, catalog : Cs]
<1> HIDE DEF Cs, Es, Ws
<1>1. /\ s.disk \in Cs /\ s.surviving \in SUBSET Cs /\ s.writes \in Seq(Ws) /\ s.events \in Seq(Es)
      /\ s.generation \in Nat /\ s.failures \in Nat /\ s.disk \in s.surviving
      /\ s = [disk |-> s.disk, surviving |-> s.surviving, writes |-> s.writes, events |-> s.events,
              generation |-> s.generation, failures |-> s.failures]
      /\ ~web => s.writes = << >>
  BY DEF StoreOk, Cs, Es, Ws
<1>2. c \in Cs /\ g \in Nat
  BY <1>1 DEF Cs
<1>3. \A e \in {"saved", "failed"} : Event(e, g) \in Es
  BY <1>2 DEF Es, Event, Kinds
<1>4. ASSUME NEW e \in Es PROVE Append(s.events, e) \in Seq(Es)
  BY <1>1, <1>4
<1>5. t = [disk |-> s.disk, surviving |-> s.surviving, writes |-> s.writes, events |-> s.events,
           generation |-> g, failures |-> s.failures]
  BY <1>1
<1> HIDE DEF g, t
<1>6. ASSUME ~web,
             r.store = [disk |-> c, surviving |-> {c}, writes |-> s.writes,
                        events |-> Append(s.events, Event("saved", g)), generation |-> g, failures |-> s.failures],
             r.durable = TRUE
      PROVE  StoreOk(r.store, n) /\ Attempted(s, c, r)
  <2>1. StoreOk(r.store, n)
    BY <1>1, <1>2, <1>3, <1>4, <1>6 DEF StoreOk, Cs, Es, Ws
  <2>2. FindableIn(r.store) \subseteq FindableIn(s) \cup {c}
    BY <1>1, <1>6 DEF FindableIn
  <2>3. r.store.writes = << >>
    BY <1>1, <1>6
  <2>4. /\ r.store.generation = g /\ r.store.disk = c /\ r.store.surviving = {c}
        /\ r.store.events = Append(s.events, Event("saved", g))
    BY <1>6
  <2>5. Attempted(s, c, r)
    BY <1>6, <2>2, <2>3, <2>4 DEF Attempted, g
  <2> QED BY <2>1, <2>5
<1>7. ASSUME NEW disk \in Cs, NEW surviving \in SUBSET Cs, disk \in surviving,
             surviving \subseteq s.surviving \cup {c},
             r.store = [disk |-> disk, surviving |-> surviving, writes |-> s.writes,
                        events |-> Append(s.events, Event("failed", g)), generation |-> g,
                        failures |-> s.failures + 1],
             r.durable = FALSE
      PROVE  StoreOk(r.store, n) /\ Attempted(s, c, r)
  <2>1. StoreOk(r.store, n)
    BY <1>1, <1>2, <1>3, <1>4, <1>7 DEF StoreOk, Cs, Es, Ws
  <2>2. FindableIn(r.store) \subseteq FindableIn(s) \cup {c}
    BY <1>7 DEF FindableIn
  <2>3. /\ r.store.generation = g /\ r.store.writes = s.writes
        /\ r.store.events = Append(s.events, Event("failed", g))
    BY <1>7
  <2>4. Attempted(s, c, r)
    BY <1>7, <2>2, <2>3 DEF Attempted, g
  <2> QED BY <2>1, <2>4
<1>8. ASSUME web,
             r.store = [disk |-> s.disk, surviving |-> s.surviving,
                        writes |-> Append(s.writes, [generation |-> g, catalog |-> c]),
                        events |-> s.events, generation |-> g, failures |-> s.failures],
             r.durable = FALSE
      PROVE  StoreOk(r.store, n) /\ Attempted(s, c, r)
  <2> DEFINE w == [generation |-> g, catalog |-> c]
  <2>1. w \in Ws
    BY <1>2 DEF Ws
  <2>2. w.catalog = c
    OBVIOUS
  <2> HIDE DEF w
  <2>3. Append(s.writes, w) \in Seq(Ws)
    BY <1>1, <2>1
  <2>4. StoreOk(r.store, n)
    BY <1>1, <1>2, <1>8, <2>3 DEF StoreOk, Cs, Es, Ws, w
  <2>5. \A i \in DOMAIN Append(s.writes, w) :
          Append(s.writes, w)[i] = w \/ (i \in DOMAIN s.writes /\ Append(s.writes, w)[i] = s.writes[i])
    BY <1>1, <2>1
  <2>6. r.store.writes = Append(s.writes, w) /\ r.store.surviving = s.surviving
    BY <1>8 DEF w
  <2>7. FindableIn(r.store) \subseteq FindableIn(s) \cup {c}
    BY <2>2, <2>5, <2>6 DEF FindableIn
  <2>8. r.store.generation = g /\ r.store.events = s.events
    BY <1>8
  <2>9. Attempted(s, c, r)
    BY <1>8, <2>6, <2>7, <2>8 DEF Attempted, g, w
  <2> QED BY <2>4, <2>9
<1>9. CASE web
  <2>1. \/ r = [store |-> [t EXCEPT !.writes = Append(@, [generation |-> g, catalog |-> c])], durable |-> FALSE]
        \/ r = [store |-> Told(Fails(t), Event("failed", g)), durable |-> FALSE]
    BY <1>9 DEF Save, WebSave, g, t
  <2>2. CASE r = [store |-> [t EXCEPT !.writes = Append(@, [generation |-> g, catalog |-> c])], durable |-> FALSE]
    BY <1>5, <1>8, <1>9, <2>2
  <2>3. CASE r = [store |-> Told(Fails(t), Event("failed", g)), durable |-> FALSE]
    <3>1. r.store = [disk |-> s.disk, surviving |-> s.surviving, writes |-> s.writes,
                     events |-> Append(s.events, Event("failed", g)), generation |-> g,
                     failures |-> s.failures + 1]
      BY <1>5, <2>3 DEF Told, Fails
    <3>2. s.surviving \subseteq s.surviving \cup {c}
      OBVIOUS
    <3> QED BY <1>1, <1>7, <2>3, <3>1, <3>2
  <2> QED BY <2>1, <2>2, <2>3
<1>10. CASE ~web
  <2>1. \/ r = [store |-> Told([t EXCEPT !.disk = c, !.surviving = {c}], Event("saved", g)), durable |-> TRUE]
        \/ r = [store |-> Told(Fails(t), Event("failed", g)), durable |-> FALSE]
        \/ r = [store |-> Told(Fails([t EXCEPT !.disk = c, !.surviving = @ \cup {c}]), Event("failed", g)),
                durable |-> FALSE]
    BY <1>10 DEF Save, NativeSave, g, t
  <2>2. CASE r = [store |-> Told([t EXCEPT !.disk = c, !.surviving = {c}], Event("saved", g)), durable |-> TRUE]
    BY <1>5, <1>6, <1>10, <2>2 DEF Told
  <2>3. CASE r = [store |-> Told(Fails(t), Event("failed", g)), durable |-> FALSE]
    <3>1. r.store = [disk |-> s.disk, surviving |-> s.surviving, writes |-> s.writes,
                     events |-> Append(s.events, Event("failed", g)), generation |-> g,
                     failures |-> s.failures + 1]
      BY <1>5, <2>3 DEF Told, Fails
    <3>2. s.surviving \subseteq s.surviving \cup {c}
      OBVIOUS
    <3> QED BY <1>1, <1>7, <2>3, <3>1, <3>2
  <2>4. CASE r = [store |-> Told(Fails([t EXCEPT !.disk = c, !.surviving = @ \cup {c}]), Event("failed", g)),
                  durable |-> FALSE]
    <3>1. r.store = [disk |-> c, surviving |-> s.surviving \cup {c}, writes |-> s.writes,
                     events |-> Append(s.events, Event("failed", g)), generation |-> g,
                     failures |-> s.failures + 1]
      BY <1>5, <2>4 DEF Told, Fails
    <3>2. s.surviving \cup {c} \in SUBSET Cs /\ c \in s.surviving \cup {c}
      BY <1>1, <1>2
    <3> QED BY <1>2, <1>7, <2>4, <3>1, <3>2
  <2> QED BY <2>1, <2>2, <2>3, <2>4
<1> QED BY <1>9, <1>10

-----------------------------------------------------------------------------

(* The fields that the invariant of a program and its store speaks of. *)
SameStorage(a, b) ==
  b.ready = a.ready /\ b.secret = a.secret /\ b.durability = a.durability /\ b.stamp = a.stamp

(* Program and store still belong together when other fields change. *)
LEMMA SamePair ==
  ASSUME NEW a, NEW s, PairOk(a, s), NEW b, AppOk(b, edits), SameStorage(a, b)
  PROVE  PairOk(b, s)
<1>1. /\ StoreOk(s, edits) /\ AsAsked(a, s) /\ WritesOk(a, s)
      /\ IF a.ready THEN EventsOk(a, s) ELSE Unloaded(a, s)
      /\ b.ready = a.ready /\ b.secret = a.secret /\ b.durability = a.durability /\ b.stamp = a.stamp
  BY DEF PairOk, SameStorage
<1>2. AsAsked(b, s)
  BY <1>1 DEF AsAsked, Landed
<1>3. WritesOk(b, s)
  BY <1>1 DEF WritesOk
<1>4. EventsOk(a, s) => EventsOk(b, s)
  BY <1>1 DEF EventsOk, Landed
<1>5. Unloaded(a, s) => Unloaded(b, s)
  BY <1>1 DEF Unloaded
<1> QED BY <1>1, <1>2, <1>3, <1>4, <1>5 DEF PairOk

(* What persist_now leaves as it was, and what it may add to the device. *)
Follows(a, s, b, t) ==
  /\ b.ready = a.ready /\ b.secret = a.secret /\ b.corrupt = a.corrupt /\ b.doc = a.doc
  /\ b.catalog = Image(a)
  /\ KeyedFrom(s, t, a.secret)

(* persist_now when storage is disabled: only the catalog in memory changes. *)
LEMMA OffDutyFollows ==
  ASSUME edits \in Nat, NEW a, NEW s, PairOk(a, s)
  PROVE  PairOk(OffDuty(a), s) /\ Follows(a, s, OffDuty(a), s)
<1>1. AppOk(a, edits)
  BY DEF PairOk
<1>2. /\ Image(a) \in CatalogsUpTo(edits) /\ Image(a).active = a.catalog.active
      /\ Ids(Image(a)) = Ids(a.catalog)
  BY <1>1, ImageIs
<1> DEFINE b == OffDuty(a)
<1>3. /\ b.ready = a.ready /\ b.secret = a.secret /\ b.corrupt = a.corrupt /\ b.doc = a.doc
      /\ b.catalog = Image(a) /\ b.durability = a.durability /\ b.stamp = a.stamp
  BY <1>1 DEF AppOk, OffDuty
<1>4. AppOk(b, edits)
  BY <1>1, <1>2 DEF AppOk, OffDuty
<1> HIDE DEF b
<1>5. PairOk(b, s)
  BY <1>3, <1>4, SamePair DEF SameStorage
<1>6. Follows(a, s, b, s)
  BY <1>3 DEF Follows, KeyedFrom
<1> QED BY <1>5, <1>6 DEF b

(* persist_now when it writes. *)
LEMMA SavesFollow ==
  ASSUME edits \in Nat, NEW a, NEW s, PairOk(a, s), Writable(a), NEW r \in Save(s, Image(a)),
         NEW b,
         b = [[a EXCEPT !.catalog = Image(a), !.stamp = Image(a)] EXCEPT
                !.durability = Requested(@, r.store.generation, r.durable)]
  PROVE  PairOk(b, r.store) /\ Follows(a, s, b, r.store)
<1> DEFINE c == Image(a)
           t == r.store
           d == a.durability
           g == s.generation + 1
<1>1. AppOk(a, edits) /\ StoreOk(s, edits) /\ AsAsked(a, s) /\ WritesOk(a, s) /\ a.ready /\ EventsOk(a, s)
  BY DEF PairOk, Writable
<1>2. /\ c \in CatalogsUpTo(edits) /\ c.active = a.catalog.active /\ c.secret = a.secret
      /\ Ids(c) = Ids(a.catalog) /\ Opens(c)
  BY <1>1, ImageIs
<1> HIDE DEF c
<1>3. StoreOk(t, edits) /\ Attempted(s, c, r)
  BY <1>1, <1>2, SaveAttempts DEF c
<1> HIDE DEF t
<1>4. s.generation \in Nat /\ g \in Nat /\ g > s.generation /\ t.generation = g /\ d.latest = s.generation
  BY <1>1, <1>3 DEF StoreOk, Attempted, AsAsked, t
<1>5. d = [confirmed |-> d.confirmed, latest |-> d.latest, required |-> d.required]
      /\ d.confirmed \in BOOLEAN /\ d.latest \in Nat /\ d.required \in Nat
  BY <1>1 DEF AppOk
<1>6. r.durable \in BOOLEAN
  BY <1>3 DEF Attempted
<1> DEFINE e == Requested(d, g, r.durable)
<1> DEFINE known == r.durable /\ g >= d.required
<1>7. /\ e.confirmed = known /\ e.latest = g /\ e.required = d.required
      /\ e \in [confirmed : BOOLEAN, latest : Nat, required : Nat]
  <2>1. ~(g < d.latest) /\ known \in BOOLEAN
    BY <1>4, <1>5, <1>6
  <2> HIDE DEF d, g, known
  <2>2. e = [d EXCEPT !.latest = g, !.confirmed = known]
    BY <2>1 DEF Requested, known
  <2> HIDE DEF e
  <2>3. e = [confirmed |-> known, latest |-> g, required |-> d.required]
    BY <1>5, <2>2
  <2> QED BY <1>4, <1>5, <2>1, <2>3
<1> HIDE DEF g, e, d
<1>8. /\ b.ready = a.ready /\ b.secret = a.secret /\ b.corrupt = a.corrupt /\ b.doc = a.doc
      /\ b.catalog = c /\ b.stamp = c /\ b.durability = e /\ b.disabled = a.disabled
      /\ b = [ready |-> b.ready, disabled |-> b.disabled, corrupt |-> b.corrupt, secret |-> b.secret,
              durability |-> b.durability, catalog |-> b.catalog, doc |-> b.doc, stamp |-> b.stamp]
  <2>1. b = [[a EXCEPT !.catalog = c, !.stamp = c] EXCEPT !.durability = Requested(@, g, r.durable)]
    BY <1>4 DEF c, t
  <2> QED BY <1>1, <2>1 DEF AppOk, e, d
<1>9. AppOk(b, edits)
  BY <1>1, <1>2, <1>7, <1>8 DEF AppOk
<1>10. r.durable => Landed(b, t)
  BY <1>3, <1>8 DEF Attempted, Landed, t
<1>11. AsAsked(b, t)
  BY <1>2, <1>4, <1>7, <1>8, <1>10 DEF AsAsked
<1> USE DEF t
<1>12. WritesOk(b, t)
  <2>1. CASE t.writes = << >>
    BY <2>1 DEF WritesOk
  <2>2. CASE t.writes = s.writes
    BY <1>1, <1>4, <2>2 DEF WritesOk
  <2>3. CASE t.writes = Append(s.writes, [generation |-> g, catalog |-> c])
    <3> DEFINE w == [generation |-> g, catalog |-> c]
    <3>1. w.generation = g /\ w.catalog = c
      OBVIOUS
    <3> HIDE DEF w
    <3>2. \E W : s.writes \in Seq(W) /\ w \in W
      <4> DEFINE W == [generation : Nat, catalog : CatalogsUpTo(edits) \cup {NoCatalog}]
      <4>1. s.writes \in Seq(W)
        BY <1>1 DEF StoreOk
      <4>2. w \in W
        BY <1>2, <1>4 DEF w
      <4> QED BY <4>1, <4>2
    <3> HIDE DEF t
    <3>3. t.writes = Append(s.writes, w)
      BY <2>3 DEF w
    <3>4. ASSUME NEW i \in DOMAIN t.writes
          PROVE  /\ t.writes[i].generation \in 1..g
                 /\ t.writes[i].generation = g => i = Len(t.writes) /\ t.writes[i].catalog = c
      <4>1. CASE i = Len(t.writes)
        BY <1>4, <3>1, <3>2, <3>3, <4>1
      <4>2. CASE i # Len(t.writes)
        <5>1. i \in DOMAIN s.writes /\ t.writes[i] = s.writes[i]
          BY <3>2, <3>3, <3>4, <4>2
        <5>2. s.writes[i].generation \in 1..s.generation
          BY <1>1, <5>1 DEF WritesOk
        <5> QED BY <1>4, <5>1, <5>2
      <4> QED BY <4>1, <4>2
    <3> QED BY <1>4, <1>8, <3>4 DEF WritesOk
  <2> QED BY <1>3, <2>1, <2>2, <2>3 DEF Attempted, g
<1>13. EventsOk(b, t)
  <2>1. CASE t.events = s.events
    BY <1>1, <1>4, <2>1 DEF EventsOk
  <2>2. ASSUME NEW kind \in {"saved", "failed"}, t.events = Append(s.events, Event(kind, g)),
               kind = "saved" => Landed(b, t)
        PROVE  EventsOk(b, t)
    <3> DEFINE v == Event(kind, g)
    <3>1. v.kind = kind /\ v.generation = g
      BY DEF Event
    <3>2. \E V : s.events \in Seq(V) /\ v \in V
      <4> DEFINE V == [kind : Kinds, generation : Nat]
      <4>1. s.events \in Seq(V)
        BY <1>1 DEF StoreOk
      <4>2. v \in V
        BY <1>4 DEF Event, Kinds
      <4> QED BY <4>1, <4>2
    <3> HIDE DEF v, t
    <3>3. t.events = Append(s.events, v)
      BY <2>2 DEF v
    <3>4. ASSUME NEW i \in DOMAIN t.events
          PROVE  /\ t.events[i].kind \in {"saved", "failed"} /\ t.events[i].generation \in 1..g
                 /\ t.events[i].kind = "saved" /\ t.events[i].generation = g => Landed(b, t)
      <4>1. CASE i = Len(t.events)
        BY <1>4, <2>2, <3>1, <3>2, <3>3, <4>1
      <4>2. CASE i # Len(t.events)
        <5>1. i \in DOMAIN s.events /\ t.events[i] = s.events[i]
          BY <3>2, <3>3, <3>4, <4>2
        <5>2. s.events[i].generation \in 1..s.generation /\ s.events[i].kind \in {"saved", "failed"}
          BY <1>1, <5>1 DEF EventsOk
        <5> QED BY <1>4, <5>1, <5>2
      <4> QED BY <4>1, <4>2
    <3> QED BY <1>4, <3>4 DEF EventsOk
  <2> QED BY <1>3, <1>10, <2>1, <2>2 DEF Attempted, g
<1>14. KeyedFrom(s, t, a.secret)
  BY <1>2, <1>3 DEF Attempted, KeyedFrom
<1>15. PairOk(b, t)
  BY <1>1, <1>3, <1>8, <1>9, <1>11, <1>12, <1>13 DEF PairOk
<1>16. Follows(a, s, b, t)
  BY <1>8, <1>14 DEF Follows, c
<1> QED BY <1>15, <1>16

(* Whatever persist_now makes of them, program and store belong together. *)
LEMMA PersistFollows ==
  ASSUME edits \in Nat, NEW a, NEW s, PairOk(a, s), NEW p \in persist_now(a, s)
  PROVE  PairOk(p[1], p[2]) /\ Follows(a, s, p[1], p[2])
<1>1. CASE ~Writable(a)
  <2>1. p[1] = OffDuty(a) /\ p[2] = s
    BY <1>1 DEF persist_now
  <2> QED BY <2>1, OffDutyFollows
<1>2. CASE Writable(a)
  <2>1. PICK r \in Save(s, Image(a)) :
          p = <<[[a EXCEPT !.catalog = Image(a), !.stamp = Image(a)] EXCEPT
                   !.durability = Requested(@, r.store.generation, r.durable)], r.store>>
    BY <1>2 DEF persist_now
  <2>2. /\ p[2] = r.store
        /\ p[1] = [[a EXCEPT !.catalog = Image(a), !.stamp = Image(a)] EXCEPT
                     !.durability = Requested(@, r.store.generation, r.durable)]
    BY <2>1
  <2>3. PairOk(p[1], r.store) /\ Follows(a, s, p[1], r.store)
    BY <1>2, <2>1, <2>2, SavesFollow
  <2> QED BY <2>2, <2>3
<1> QED BY <1>1, <1>2

-----------------------------------------------------------------------------

(* No workspace of a but those in gone is missing in b, or older there. *)
Kept(a, b, gone) ==
  \A id \in Ids(a.catalog) \ gone : id \in Ids(b.catalog) /\ Content(a, id) <= Content(b, id)

(* What a handler that began with program a and store s may have come to. *)
Good(a, s, p, gone) ==
  /\ PairOk(p[1], p[2]) /\ p[1].ready = a.ready /\ p[1].secret = a.secret
  /\ KeyedFrom(s, p[2], a.secret) /\ Kept(a, p[1], gone)

(* The open workspace is in the catalog as it is. *)
Synced(a) == a.catalog.saved[a.catalog.active] = a.doc

(* What a workspace holds is an edit that was made. *)
LEMMA ContentIsEdit ==
  ASSUME edits \in Nat, NEW a, AppOk(a, edits), NEW id \in Ids(a.catalog)
  PROVE  Content(a, id) \in 0..edits /\ id \in Id
<1> DEFINE c == a.catalog
<1>1. c \in CatalogsUpTo(edits) /\ a.doc \in 0..edits
  BY DEF AppOk
<1>2. c.saved \in SavedUpTo(edits)
  BY <1>1 DEF CatalogsUpTo
<1>3. PICK I \in SUBSET Id : c.saved \in [I -> 0..edits]
  BY <1>2 DEF SavedUpTo
<1>4. c.saved[id] \in 0..edits /\ id \in Id
  BY <1>3 DEF Ids
<1> QED BY <1>1, <1>4 DEF Content

(* Two changes that keep workspaces keep them together. *)
LEMMA KeptOn ==
  ASSUME edits \in Nat, NEW a, AppOk(a, edits), NEW b, AppOk(b, edits), NEW c, AppOk(c, edits),
         NEW gone, NEW more, Kept(a, b, gone), Kept(b, c, more)
  PROVE  Kept(a, c, gone \cup more)
<1> SUFFICES ASSUME NEW id \in Ids(a.catalog), id \notin gone, id \notin more
             PROVE  id \in Ids(c.catalog) /\ Content(a, id) <= Content(c, id)
  BY DEF Kept
<1>1. id \in Ids(b.catalog) /\ Content(a, id) <= Content(b, id)
  BY DEF Kept
<1>2. id \in Ids(c.catalog) /\ Content(b, id) <= Content(c, id)
  BY <1>1 DEF Kept
<1>3. /\ Content(a, id) \in 0..edits /\ Content(b, id) \in 0..edits /\ Content(c, id) \in 0..edits
  BY <1>1, <1>2, ContentIsEdit
<1> QED BY <1>1, <1>2, <1>3

(* persist_now loses nothing, and the catalog then has the open workspace. *)
LEMMA PersistGood ==
  ASSUME edits \in Nat, NEW a, AppOk(a, edits), NEW s, NEW p, NEW gone, Good(a, s, p, gone),
         NEW q \in persist_now(p[1], p[2])
  PROVE  /\ Good(a, s, q, gone) /\ Synced(q[1])
         /\ q[1].catalog.active = p[1].catalog.active /\ q[1].doc = p[1].doc
         /\ Ids(q[1].catalog) = Ids(p[1].catalog)
<1> DEFINE b == p[1]
           c == q[1]
<1>1. PairOk(b, p[2]) /\ b.ready = a.ready /\ b.secret = a.secret /\ KeyedFrom(s, p[2], a.secret) /\ Kept(a, b, gone)
  BY DEF Good
<1>2. PairOk(c, q[2]) /\ Follows(b, p[2], c, q[2])
  BY <1>1, PersistFollows
<1>3. AppOk(b, edits) /\ AppOk(c, edits)
  BY <1>1, <1>2 DEF PairOk
<1> HIDE DEF b, c
<1>4. /\ c.catalog = Image(b) /\ c.doc = b.doc /\ c.ready = a.ready /\ c.secret = a.secret
      /\ KeyedFrom(s, q[2], a.secret)
  BY <1>1, <1>2 DEF Follows, KeyedFrom
<1>5. /\ Image(b).active = b.catalog.active /\ Ids(Image(b)) = Ids(b.catalog)
      /\ Image(b).saved[b.catalog.active] = b.doc
      /\ \A i \in Ids(b.catalog) \ {b.catalog.active} : Image(b).saved[i] = b.catalog.saved[i]
  BY <1>3, ImageIs
<1>6. Kept(b, c, {})
  <2>1. \A i \in Ids(b.catalog) : Content(b, i) = Content(c, i)
    BY <1>4, <1>5 DEF Content
  <2>2. \A i \in Ids(b.catalog) : Content(b, i) \in Int
    BY <1>3, ContentIsEdit
  <2> QED BY <1>4, <1>5, <2>1, <2>2 DEF Kept
<1>7. Kept(a, c, gone)
  <2>1. Kept(a, c, gone \cup {})
    BY <1>1, <1>3, <1>6, KeptOn DEF b
  <2> QED BY <2>1
<1>8. Good(a, s, q, gone)
  BY <1>2, <1>4, <1>7 DEF Good, c
<1>9. Synced(c)
  BY <1>4, <1>5 DEF Synced
<1> QED BY <1>4, <1>5, <1>8, <1>9 DEF b, c

(* A change of the program that storage does not notice. *)
LEMMA ThenGood ==
  ASSUME edits \in Nat, NEW a, AppOk(a, edits), NEW s, NEW p, NEW gone, Good(a, s, p, gone),
         NEW b, AppOk(b, edits), SameStorage(p[1], b), NEW more, Kept(p[1], b, more)
  PROVE  Good(a, s, <<b, p[2]>>, gone \cup more)
<1>1. /\ PairOk(p[1], p[2]) /\ p[1].ready = a.ready /\ p[1].secret = a.secret
      /\ KeyedFrom(s, p[2], a.secret) /\ Kept(a, p[1], gone)
  BY DEF Good
<1>2. PairOk(b, p[2])
  BY <1>1, SamePair
<1>3. AppOk(p[1], edits)
  BY <1>1 DEF PairOk
<1>4. Kept(a, b, gone \cup more)
  BY <1>1, <1>3, KeptOn
<1> QED BY <1>1, <1>2, <1>4 DEF Good, SameStorage

(* To enter a workspace loses nothing once the open one is in the catalog. *)
LEMMA EntersGood ==
  ASSUME edits \in Nat, NEW a, AppOk(a, edits), NEW s, NEW p, NEW gone, Good(a, s, p, gone), Synced(p[1]),
         NEW id \in Ids(p[1].catalog) \ Broken
  PROVE  /\ Good(a, s, <<Enters(p[1], id), p[2]>>, gone)
         /\ Enters(p[1], id).catalog.active = id
         /\ Ids(Enters(p[1], id).catalog) = Ids(p[1].catalog)
<1> DEFINE c == p[1]
           k == c.catalog
           b == Enters(c, id)
<1>1. AppOk(c, edits)
  BY DEF Good, PairOk
<1>2. k \in CatalogsUpTo(edits) /\ c.doc \in 0..edits /\ id \in Ids(k) \ Broken /\ k.saved[k.active] = c.doc
  BY <1>1 DEF AppOk, Synced
<1>3. k.saved[id] \in 0..edits /\ id \in Id
  <2> HIDE DEF k
  <2>1. k.saved \in SavedUpTo(edits)
    BY <1>2 DEF CatalogsUpTo
  <2>2. PICK I \in SUBSET Id : k.saved \in [I -> 0..edits]
    BY <2>1 DEF SavedUpTo
  <2> QED BY <1>2, <2>2 DEF Ids
<1>4. /\ b = [c EXCEPT !.catalog = [k EXCEPT !.active = id], !.doc = k.saved[id]]
  <2> HIDE DEF c
  <2> QED BY DEF Enters
<1>5. [k EXCEPT !.active = id] \in CatalogsUpTo(edits) /\ [k EXCEPT !.active = id].active = id
      /\ [k EXCEPT !.active = id].saved = k.saved
  <2> HIDE DEF k
  <2> QED BY <1>2, <1>3 DEF CatalogsUpTo
<1>6. /\ b.catalog.active = id /\ b.catalog.saved = k.saved /\ b.doc = k.saved[id]
      /\ AppOk(b, edits) /\ SameStorage(c, b)
  <2> DEFINE n == [k EXCEPT !.active = id]
             d == k.saved[id]
  <2>1. n \in CatalogsUpTo(edits) /\ n.active = id /\ n.saved = k.saved /\ d \in 0..edits /\ id \in Ids(n) \ Broken
    BY <1>2, <1>3, <1>5 DEF Ids
  <2>2. b = [c EXCEPT !.catalog = n, !.doc = d]
    BY <1>4
  <2> HIDE DEF n, d, b
  <2>3. AppOk(b, edits) /\ SameStorage(c, b) /\ b.catalog = n /\ b.doc = d
    BY <1>1, <2>1, <2>2 DEF AppOk, SameStorage
  <2> QED BY <2>1, <2>3 DEF d
<1> HIDE DEF b
<1>7. Kept(c, b, {})
  <2>1. \A i \in Ids(k) : Content(c, i) = Content(b, i)
    BY <1>2, <1>6 DEF Content
  <2>2. \A i \in Ids(k) : Content(c, i) \in Int
    BY <1>1, ContentIsEdit
  <2>3. Ids(b.catalog) = Ids(k)
    BY <1>6 DEF Ids
  <2> QED BY <2>1, <2>2, <2>3 DEF Kept
<1>8. Good(a, s, <<b, p[2]>>, gone \cup {})
  BY <1>6, <1>7, ThenGood
<1>9. Good(a, s, <<b, p[2]>>, gone)
  BY <1>8
<1>10. Ids(b.catalog) = Ids(k)
  BY <1>6 DEF Ids
<1> QED BY <1>6, <1>9, <1>10 DEF b

(* A workspace with a new id pushes out no other. *)
LEMMA AddsGood ==
  ASSUME edits \in Nat, NEW a, AppOk(a, edits), NEW s, NEW p, NEW gone, Good(a, s, p, gone),
         NEW id \in Id, id \notin Ids(p[1].catalog), NEW edit \in 0..edits
  PROVE  /\ Good(a, s, <<Adds(p[1], id, edit), p[2]>>, gone)
         /\ Synced(p[1]) => Synced(Adds(p[1], id, edit))
         /\ Adds(p[1], id, edit).catalog.active = p[1].catalog.active
         /\ Ids(Adds(p[1], id, edit).catalog) = Ids(p[1].catalog) \cup {id}
<1> DEFINE c == p[1]
           k == c.catalog
           w == With(k.saved, id, edit)
           b == Adds(c, id, edit)
<1>1. AppOk(c, edits)
  BY DEF Good, PairOk
<1>2. k \in CatalogsUpTo(edits) /\ c.doc \in 0..edits /\ k.active \in Ids(k) \ Broken
  BY <1>1 DEF AppOk
<1> HIDE DEF c
<1>3. b = [c EXCEPT !.catalog = [k EXCEPT !.saved = w]]
  BY DEF Adds
<1> HIDE DEF k
<1>4. /\ w \in SavedUpTo(edits) /\ DOMAIN w = DOMAIN k.saved \cup {id}
  <2> DEFINE old == k.saved
  <2>1. old \in SavedUpTo(edits)
    BY <1>2 DEF CatalogsUpTo
  <2> HIDE DEF old
  <2>2. With(old, id, edit) \in SavedUpTo(edits) /\ DOMAIN With(old, id, edit) = DOMAIN old \cup {id}
    BY <2>1, WithIsSaved
  <2> QED BY <2>2 DEF old
<1>5. \A i \in Ids(k) : w[i] = k.saved[i]
  BY DEF With, Ids, c, k
<1> HIDE DEF w
<1> DEFINE n == [k EXCEPT !.saved = w]
<1>6. n \in CatalogsUpTo(edits) /\ n.active = k.active /\ n.saved = w
  BY <1>2, <1>4 DEF CatalogsUpTo
<1>7. Ids(n) = Ids(k) \cup {id}
  BY <1>4, <1>6 DEF Ids
<1>8. b = [c EXCEPT !.catalog = n]
  BY <1>3
<1> HIDE DEF b, n
<1>9. /\ b.catalog = n /\ b.doc = c.doc /\ AppOk(b, edits) /\ SameStorage(c, b)
  BY <1>1, <1>2, <1>6, <1>7, <1>8 DEF AppOk, SameStorage
<1>10. Kept(c, b, {})
  <2>1. \A i \in Ids(k) : Content(c, i) = Content(b, i)
    BY <1>2, <1>5, <1>6, <1>9 DEF Content, k
  <2>2. \A i \in Ids(k) : Content(c, i) \in Int
    BY <1>1, ContentIsEdit DEF k
  <2> QED BY <1>7, <1>9, <2>1, <2>2 DEF Kept, k
<1>11. Good(a, s, <<b, p[2]>>, gone \cup {})
  BY <1>9, <1>10, ThenGood DEF c
<1>12. Good(a, s, <<b, p[2]>>, gone)
  BY <1>11
<1>13. Synced(c) => Synced(b)
  BY <1>2, <1>5, <1>6, <1>9 DEF Synced, k
<1>14. b.catalog.active = c.catalog.active /\ Ids(b.catalog) = Ids(c.catalog) \cup {id}
  BY <1>6, <1>7, <1>9 DEF k
<1> QED BY <1>12, <1>13, <1>14 DEF b, c

(* A workspace that is not open is removed, and no other. *)
LEMMA WithoutGood ==
  ASSUME edits \in Nat, NEW a, AppOk(a, edits), NEW s, NEW p, NEW gone, Good(a, s, p, gone),
         NEW id, id # p[1].catalog.active
  PROVE  Good(a, s, <<Without(p[1], id), p[2]>>, gone \cup {id})
<1> DEFINE c == p[1]
           k == c.catalog
           w == [i \in DOMAIN k.saved \ {id} |-> k.saved[i]]
           b == Without(c, id)
           n == [k EXCEPT !.saved = w]
<1>1. AppOk(c, edits)
  BY DEF Good, PairOk
<1>2. k \in CatalogsUpTo(edits) /\ c.doc \in 0..edits /\ k.active \in Ids(k) \ Broken
  BY <1>1 DEF AppOk
<1> HIDE DEF c
<1>3. b = [c EXCEPT !.catalog = n]
  BY DEF Without
<1>4. w \in SavedUpTo(edits)
  <2>1. k.saved \in SavedUpTo(edits)
    BY <1>2 DEF CatalogsUpTo
  <2>2. PICK I \in SUBSET Id : k.saved \in [I -> 0..edits]
    BY <2>1 DEF SavedUpTo
  <2>3. w \in [I \ {id} -> 0..edits]
    BY <2>2
  <2> QED BY <2>3 DEF SavedUpTo
<1>5. DOMAIN w = Ids(k) \ {id} /\ \A i \in Ids(k) \ {id} : w[i] = k.saved[i]
  BY DEF Ids
<1> HIDE DEF k, w
<1>6. n \in CatalogsUpTo(edits) /\ n.active = k.active /\ n.saved = w
  BY <1>2, <1>4 DEF CatalogsUpTo
<1>7. Ids(n) = Ids(k) \ {id}
  BY <1>5, <1>6 DEF Ids
<1> HIDE DEF b, n
<1>8. id # k.active
  BY DEF c, k
<1>9. /\ b.catalog = n /\ b.doc = c.doc /\ AppOk(b, edits) /\ SameStorage(c, b)
  BY <1>1, <1>2, <1>3, <1>6, <1>7, <1>8 DEF AppOk, SameStorage
<1>10. Kept(c, b, {id})
  <2>1. \A i \in Ids(k) \ {id} : Content(c, i) = Content(b, i)
    BY <1>2, <1>5, <1>6, <1>9 DEF Content, k
  <2>2. \A i \in Ids(k) : Content(c, i) \in Int
    BY <1>1, ContentIsEdit DEF k
  <2> QED BY <1>7, <1>9, <2>1, <2>2 DEF Kept, k
<1>11. Good(a, s, <<b, p[2]>>, gone \cup {id})
  BY <1>9, <1>10, ThenGood DEF c
<1> QED BY <1>11 DEF b, c

-----------------------------------------------------------------------------

(* Where a handler begins, when it first changes the program. *)
LEMMA NowGood ==
  ASSUME edits \in Nat, PairOk(app, store), NEW a, AppOk(a, edits), SameStorage(app, a), Kept(app, a, {})
  PROVE  AppOk(app, edits) /\ Good(app, store, <<a, store>>, {})
<1>1. AppOk(app, edits) /\ PairOk(a, store)
  BY SamePair DEF PairOk
<1> QED BY <1>1 DEF Good, KeyedFrom, SameStorage

(* Nothing is lost when nothing changes. *)
LEMMA KeptItself ==
  ASSUME edits \in Nat, NEW a, AppOk(a, edits)
  PROVE  Kept(a, a, {}) /\ SameStorage(a, a)
<1>1. \A i \in Ids(a.catalog) : Content(a, i) \in Int
  BY ContentIsEdit
<1> QED BY <1>1 DEF Kept, SameStorage

(* switch_workspace: the open workspace is saved before another is entered. *)
LEMMA SwitchedGood ==
  ASSUME edits \in Nat, NEW a, AppOk(a, edits), NEW s, NEW pairs, NEW gone, NEW id,
         \A p \in pairs : Good(a, s, p, gone) /\ id \in Ids(p[1].catalog),
         NEW q \in Switched(pairs, id)
  PROVE  /\ Good(a, s, q, gone) /\ Synced(q[1])
         /\ \E p \in pairs : Ids(q[1].catalog) = Ids(p[1].catalog)
         /\ id \notin Broken => q[1].catalog.active = id
<1>1. CASE id \in Broken
  <2>1. PICK p \in pairs : q \in persist_now(p[1], p[2])
    BY <1>1 DEF Switched, Persisted
  <2> QED BY <1>1, <2>1, PersistGood
<1>2. CASE id \notin Broken
  <2> DEFINE Enter(b) == Enters(b, id)
             entered == Then(Persisted(pairs), Enter)
  <2>1. PICK e \in entered : q \in persist_now(e[1], e[2])
    BY <1>2 DEF Switched, Persisted
  <2>2. PICK r \in Persisted(pairs) : e = <<Enters(r[1], id), r[2]>>
    BY <2>1 DEF Then
  <2>3. PICK p \in pairs : r \in persist_now(p[1], p[2])
    BY <2>2 DEF Persisted
  <2>4. Good(a, s, r, gone) /\ Synced(r[1]) /\ Ids(r[1].catalog) = Ids(p[1].catalog)
    BY <2>3, PersistGood
  <2>5. id \in Ids(r[1].catalog) \ Broken
    BY <1>2, <2>3, <2>4
  <2> HIDE DEF entered
  <2>6. /\ Good(a, s, e, gone) /\ e[1].catalog.active = id
        /\ Ids(e[1].catalog) = Ids(p[1].catalog)
    BY <2>2, <2>4, <2>5, EntersGood
  <2> QED BY <2>1, <2>3, <2>6, PersistGood
<1> QED BY <1>1, <1>2

-----------------------------------------------------------------------------

(* What each step does: it keeps the invariant, the key in use, and what is open. *)
KeyStep ==
  ReadForGood /\ app'.secret = app.secret /\ Stored(app.secret) => Stored(app.secret)'

OpenStep ==
  up /\ up' /\ app.ready =>
    \A id \in Ids(app.catalog) \ deleted' :
      id \in Ids(app'.catalog) /\ Content(app, id) <= Content(app', id)

Sound == CatalogInv' /\ KeyStep /\ OpenStep

(* What is on the device, and what may come to be there, is a catalog with the key. *)
Durable(s, secret) == \A c \in FindableIn(s) : Opens(c) /\ c.secret = secret

(* The key is stored in eframe's copy, or for good in the catalog. *)
LEMMA StoredIs ==
  ASSUME NEW secret PROVE Stored(secret) <=> legacy = secret \/ Durable(store, secret)
BY DEF Stored, Findable, FindableIn, Durable

(* The pair of the next state is the next state of the pair. *)
LEMMA PairPrimed ==
  ASSUME UNCHANGED <<web, edits>>, PairOk(app', store')
  PROVE  PairOk(app, store)'
BY DEF PairOk, AppOk, StoreOk, AsAsked, WritesOk, EventsOk, Unloaded, Landed, Opens, Ids, Event

(* The same, when no program runs. *)
LEMMA DownPrimed ==
  ASSUME UNCHANGED <<web, edits>>, DownOk(store') PROVE DownOk(store)'
BY DEF DownOk, StoreOk

(* A device that only gains catalogs with the key keeps it. *)
LEMMA KeyedSound ==
  ASSUME KeyedFrom(store, store', app.secret), legacy' = legacy PROVE KeyStep
<1> SUFFICES ASSUME app'.secret = app.secret, Stored(app.secret) PROVE Stored(app.secret)'
  BY DEF KeyStep
<1>1. legacy = app.secret \/ Durable(store, app.secret)
  BY StoredIs
<1>2. Durable(store, app.secret) => Durable(store', app'.secret)
  BY DEF Durable, KeyedFrom
<1>3. Stored(app.secret)' <=> legacy' = app'.secret \/ Durable(store', app'.secret)
  BY DEF Stored, Findable, FindableIn, Durable, Opens, Ids
<1> QED BY <1>1, <1>2, <1>3

(* What a handler owes once its chain is good. *)
LEMMA GoodSound ==
  ASSUME CatalogInv, up, up', UNCHANGED <<web, legacy, edits>>, NEW p, NEW gone, Good(app, store, p, gone),
         app' = p[1], store' = p[2], gone \subseteq deleted'
  PROVE  Sound
<1>1. PairOk(app', store') /\ KeyedFrom(store, store', app.secret) /\ Kept(app, app', gone)
  BY DEF Good
<1>2. CatalogInv'
  BY <1>1, PairPrimed DEF CatalogInv
<1>3. OpenStep
  BY <1>1 DEF Kept, OpenStep
<1> QED BY <1>1, <1>2, <1>3, KeyedSound DEF Sound

-----------------------------------------------------------------------------
(* The user's steps. *)

(* Now one lemma for each action: an edit only changes the open document. *)
LEMMA EditSound == CatalogInv /\ Edit => Sound
<1> SUFFICES ASSUME CatalogInv, Edit PROVE Sound
  OBVIOUS
<1>1. /\ edits \in Nat /\ up /\ up' /\ app.ready /\ PairOk(app, store)
      /\ edits' = edits + 1 /\ app' = [app EXCEPT !.doc = edits + 1]
      /\ web' = web /\ store' = store /\ legacy' = legacy /\ deleted' = deleted
  BY DEF CatalogInv, Edit, Open
<1>2. /\ AppOk(app, edits) /\ StoreOk(store, edits) /\ AsAsked(app, store) /\ WritesOk(app, store)
      /\ EventsOk(app, store)
  BY <1>1 DEF PairOk
<1>3. CatalogsUpTo(edits) \subseteq CatalogsUpTo(edits')
  <2>1. SavedUpTo(edits) \subseteq SavedUpTo(edits')
    <3>1. \A I \in SUBSET Id : [I -> 0..edits] \subseteq [I -> 0..edits']
      BY <1>1
    <3> QED BY <3>1 DEF SavedUpTo
  <2> QED BY <2>1 DEF CatalogsUpTo
<1>4. /\ app'.ready = app.ready /\ app'.secret = app.secret /\ app'.durability = app.durability
      /\ app'.stamp = app.stamp /\ app'.catalog = app.catalog /\ app'.doc = edits'
  BY <1>1, <1>2 DEF AppOk
<1>5. AppOk(app', edits')
  BY <1>1, <1>2, <1>3 DEF AppOk
<1>6. StoreOk(store, edits)'
  <2> DEFINE Cs(n) == CatalogsUpTo(n) \cup {NoCatalog}
             Ws(n) == [generation : Nat, catalog : Cs(n)]
  <2>1. Cs(edits) \subseteq Cs(edits')
    BY <1>3
  <2>2. Ws(edits) \subseteq Ws(edits')
    BY <2>1
  <2>3. Seq(Ws(edits)) \subseteq Seq(Ws(edits'))
    <3> HIDE DEF Ws
    <3> QED BY <2>2
  <2> QED BY <1>1, <1>2, <2>1, <2>3 DEF StoreOk
<1>7. AsAsked(app', store') /\ WritesOk(app', store') /\ EventsOk(app', store')
  BY <1>1, <1>2, <1>4 DEF AsAsked, WritesOk, EventsOk, Landed
<1>8. PairOk(app, store)'
  BY <1>1, <1>4, <1>5, <1>6, <1>7
     DEF PairOk, AppOk, AsAsked, WritesOk, EventsOk, Landed, Opens, Ids
<1>9. CatalogInv'
  BY <1>1, <1>8 DEF CatalogInv
<1>10. OpenStep
  <2>1. ASSUME NEW i \in Ids(app.catalog) PROVE Content(app, i) <= Content(app', i)
    <3>1. Content(app, i) \in 0..edits
      BY <1>1, <1>2, <2>1, ContentIsEdit
    <3>2. Content(app', i) = IF i = app.catalog.active THEN edits + 1 ELSE Content(app, i)
      BY <1>1, <1>4 DEF Content
    <3> QED BY <1>1, <3>1, <3>2
  <2> QED BY <1>4, <2>1 DEF OpenStep
<1>11. KeyedFrom(store, store', app.secret)
  BY <1>1 DEF KeyedFrom
<1> QED BY <1>1, <1>9, <1>10, <1>11, KeyedSound DEF Sound

(* What the handlers of an open program begin with. *)
LEMMA OpenGood ==
  ASSUME CatalogInv, Open
  PROVE  /\ edits \in Nat /\ up /\ PairOk(app, store) /\ AppOk(app, edits)
         /\ Good(app, store, <<app, store>>, {})
         /\ app.catalog.active \in Ids(app.catalog)
         /\ Ids(app.catalog) \subseteq Id
<1>1. edits \in Nat /\ up /\ PairOk(app, store) /\ AppOk(app, edits)
  BY DEF CatalogInv, Open, PairOk
<1>2. Good(app, store, <<app, store>>, {})
  BY <1>1, KeptItself, NowGood
<1>3. app.catalog.active \in Ids(app.catalog)
  BY <1>1 DEF AppOk
<1>4. Ids(app.catalog) \subseteq Id
  BY <1>1, ContentIsEdit
<1> QED BY <1>1, <1>2, <1>3, <1>4

(* The autosave. *)
LEMMA AutosaveSound == CatalogInv /\ Autosave => Sound
<1> SUFFICES ASSUME CatalogInv, Autosave PROVE Sound
  OBVIOUS
<1>1. PICK p \in persist_now(app, store) : app' = p[1] /\ store' = p[2]
  BY DEF Autosave, Becomes
<1>2. up' /\ UNCHANGED <<web, legacy, edits>>
  BY DEF Autosave, Open
<1>3. Good(app, store, p, {})
  <2>1. p \in persist_now(<<app, store>>[1], <<app, store>>[2])
    BY <1>1
  <2> QED BY <2>1, OpenGood, PersistGood DEF Autosave
<1> QED BY <1>1, <1>2, <1>3, OpenGood, GoodSound DEF Autosave

(* switch_workspace. *)
LEMMA SwitchSound == ASSUME NEW id \in Id PROVE CatalogInv /\ Switch(id) => Sound
<1> SUFFICES ASSUME CatalogInv, Switch(id) PROVE Sound
  OBVIOUS
<1>1. PICK p \in Switched(Now, id) : app' = p[1] /\ store' = p[2]
  BY DEF Switch, Becomes
<1>2. Open /\ up' /\ UNCHANGED <<web, legacy, edits>> /\ id \in Ids(app.catalog)
  BY DEF Switch, Open
<1>3. \A q \in Now : Good(app, store, q, {}) /\ id \in Ids(q[1].catalog)
  BY <1>2, OpenGood DEF Now
<1>4. Good(app, store, p, {})
  BY <1>1, <1>2, <1>3, OpenGood, SwitchedGood
<1> QED BY <1>1, <1>2, <1>4, OpenGood, GoodSound

(* create_workspace and duplicate_workspace: a new workspace is entered. *)
LEMMA AddedGood ==
  ASSUME CatalogInv, Open, NEW id \in Id, Unused(id), NEW r \in Persisted(Now), NEW edit \in 0..edits,
         NEW p \in persist_now(Enters(Adds(r[1], id, edit), id), r[2])
  PROVE  Good(app, store, p, {})
<1>1. r \in persist_now(<<app, store>>[1], <<app, store>>[2])
  BY DEF Persisted, Now
<1>2. Good(app, store, r, {}) /\ Synced(r[1]) /\ Ids(r[1].catalog) = Ids(app.catalog)
  BY <1>1, OpenGood, PersistGood
<1>3. id \notin Ids(app.catalog) /\ id \notin Broken
  BY DEF Unused
<1> DEFINE q == <<Adds(r[1], id, edit), r[2]>>
<1>4. Good(app, store, q, {}) /\ Synced(q[1]) /\ Ids(q[1].catalog) = Ids(app.catalog) \cup {id}
  BY <1>2, <1>3, OpenGood, AddsGood
<1>5. q[1] = Adds(r[1], id, edit) /\ q[2] = r[2]
  OBVIOUS
<1> HIDE DEF q
<1> DEFINE e == <<Enters(q[1], id), q[2]>>
<1>6. Good(app, store, e, {})
  BY <1>3, <1>4, OpenGood, EntersGood
<1>7. p \in persist_now(e[1], e[2])
  BY <1>5
<1> HIDE DEF e
<1> QED BY <1>6, <1>7, OpenGood, PersistGood

(* create_workspace. *)
LEMMA CreateSound == ASSUME NEW id \in Id PROVE CatalogInv /\ Create(id) => Sound
<1> SUFFICES ASSUME CatalogInv, Create(id) PROVE Sound
  OBVIOUS
<1> DEFINE Begin(a) == Enters(Adds(a, id, 0), id)
           begun == Then(Persisted(Now), Begin)
<1>1. PICK p \in Persisted(begun) : app' = p[1] /\ store' = p[2]
  BY DEF Create, Becomes
<1>2. PICK q \in begun : p \in persist_now(q[1], q[2])
  BY <1>1 DEF Persisted
<1>3. PICK r \in Persisted(Now) : q = <<Enters(Adds(r[1], id, 0), id), r[2]>>
  BY <1>2 DEF Then
<1>4. Open /\ Unused(id) /\ up' /\ UNCHANGED <<web, legacy, edits>>
  BY DEF Create, Open
<1>5. 0 \in 0..edits
  BY <1>4, OpenGood
<1>6. p \in persist_now(Enters(Adds(r[1], id, 0), id), r[2])
  BY <1>2, <1>3
<1>7. Good(app, store, p, {})
  BY <1>3, <1>4, <1>5, <1>6, AddedGood
<1> QED BY <1>1, <1>4, <1>7, OpenGood, GoodSound

(* duplicate_workspace. *)
LEMMA DuplicateSound == ASSUME NEW id \in Id PROVE CatalogInv /\ Duplicate(id) => Sound
<1> SUFFICES ASSUME CatalogInv, Duplicate(id) PROVE Sound
  OBVIOUS
<1> DEFINE Copy(a) == Enters(Adds(a, id, a.doc), id)
           copied == Then(Persisted(Now), Copy)
<1>1. PICK p \in Persisted(copied) : app' = p[1] /\ store' = p[2]
  BY DEF Duplicate, Becomes
<1>2. PICK q \in copied : p \in persist_now(q[1], q[2])
  BY <1>1 DEF Persisted
<1>3. PICK r \in Persisted(Now) : q = <<Enters(Adds(r[1], id, r[1].doc), id), r[2]>>
  BY <1>2 DEF Then
<1>4. Open /\ Unused(id) /\ up' /\ UNCHANGED <<web, legacy, edits>>
  BY DEF Duplicate, Open
<1>5. r[1].doc \in 0..edits
  <2>1. r \in persist_now(<<app, store>>[1], <<app, store>>[2])
    BY <1>3 DEF Persisted, Now
  <2>2. Good(app, store, r, {})
    BY <1>4, <2>1, OpenGood, PersistGood
  <2> QED BY <2>2 DEF Good, PairOk, AppOk
<1>6. p \in persist_now(Enters(Adds(r[1], id, r[1].doc), id), r[2])
  BY <1>2, <1>3
<1>7. Good(app, store, p, {})
  BY <1>3, <1>4, <1>5, <1>6, AddedGood
<1> QED BY <1>1, <1>4, <1>7, OpenGood, GoodSound

(* import_workspace_file. *)
LEMMA ImportSound == ASSUME NEW id \in Id PROVE CatalogInv /\ Import(id) => Sound
<1> SUFFICES ASSUME CatalogInv, Import(id) PROVE Sound
  OBVIOUS
<1> DEFINE Add(a) == Adds(a, id, 0)
           added == Then(Now, Add)
<1>1. PICK p \in Switched(added, id) : app' = p[1] /\ store' = p[2]
  BY DEF Import, Becomes
<1>2. Open /\ Unused(id) /\ up' /\ UNCHANGED <<web, legacy, edits>>
  BY DEF Import, Open
<1>3. added = {<<Adds(app, id, 0), store>>}
  BY DEF Then, Now
<1> DEFINE q == <<app, store>>
<1>4. id \notin Ids(app.catalog) /\ 0 \in 0..edits
  BY <1>2, OpenGood DEF Unused
<1>5. Good(app, store, q, {}) /\ q[1] = app /\ q[2] = store /\ id \notin Ids(q[1].catalog)
  BY <1>2, <1>4, OpenGood
<1> HIDE DEF q, added
<1>6. /\ Good(app, store, <<Adds(q[1], id, 0), q[2]>>, {})
      /\ Ids(Adds(q[1], id, 0).catalog) = Ids(q[1].catalog) \cup {id}
  BY <1>2, <1>4, <1>5, OpenGood, AddsGood
<1>7. \A r \in added : Good(app, store, r, {}) /\ id \in Ids(r[1].catalog)
  <2> SUFFICES ASSUME NEW r \in added PROVE Good(app, store, r, {}) /\ id \in Ids(r[1].catalog)
    OBVIOUS
  <2>1. r = <<Adds(q[1], id, 0), q[2]>> /\ r[1] = Adds(q[1], id, 0)
    BY <1>3, <1>5
  <2> QED BY <1>6, <2>1
<1>8. Good(app, store, p, {})
  BY <1>1, <1>2, <1>7, OpenGood, SwitchedGood
<1> QED BY <1>1, <1>2, <1>8, OpenGood, GoodSound

(* delete_workspace_now: only the workspace to delete goes. *)
LEMMA DeleteSound == ASSUME NEW id \in Id PROVE CatalogInv /\ Delete(id) => Sound
<1> SUFFICES ASSUME CatalogInv, Delete(id) PROVE Sound
  OBVIOUS
<1> DEFINE Forget(a) == Without(a, id)
           saved == Persisted(Now)
<1>1. Open /\ up' /\ UNCHANGED <<web, legacy, edits>>
  BY DEF Delete, Open
<1>2. \A r \in saved : /\ Good(app, store, r, {}) /\ r[1].catalog.active = app.catalog.active
                       /\ Ids(r[1].catalog) = Ids(app.catalog)
  <2> SUFFICES ASSUME NEW r \in saved
               PROVE  /\ Good(app, store, r, {}) /\ r[1].catalog.active = app.catalog.active
                      /\ Ids(r[1].catalog) = Ids(app.catalog)
    OBVIOUS
  <2>1. r \in persist_now(<<app, store>>[1], <<app, store>>[2])
    BY DEF Persisted, Now
  <2> QED BY <1>1, <2>1, OpenGood, PersistGood
<1> HIDE DEF saved
<1>3. ASSUME NEW pairs,
             \A r \in pairs : Good(app, store, r, {}) /\ r[1].catalog.active # id,
             NEW p \in Persisted(Then(pairs, Forget))
      PROVE  Good(app, store, p, {id})
  <2> DEFINE forgot == Then(pairs, Forget)
  <2>1. PICK q \in forgot : p \in persist_now(q[1], q[2])
    BY <1>3 DEF Persisted
  <2>2. PICK r \in pairs : q = <<Without(r[1], id), r[2]>>
    BY <2>1 DEF Then
  <2> HIDE DEF forgot
  <2>3. Good(app, store, q, {} \cup {id})
    BY <1>1, <1>3, <2>2, OpenGood, WithoutGood
  <2>4. Good(app, store, q, {id})
    BY <2>3
  <2> QED BY <1>1, <2>1, <2>4, OpenGood, PersistGood
<1>4. CASE id # app.catalog.active
  <2>1. PICK p \in Persisted(Then(saved, Forget)) : app' = p[1] /\ store' = p[2]
    BY <1>4 DEF Delete, Becomes, saved
  <2>2. id \in deleted'
    BY <1>4 DEF Delete
  <2>3. Good(app, store, p, {id})
    BY <1>2, <1>3, <1>4, <2>1
  <2> QED BY <1>1, <2>1, <2>2, <2>3, OpenGood, GoodSound
<1>5. CASE id = app.catalog.active
  <2>1. PICK next \in Ids(app.catalog) \ {id} :
          IF next \in Broken
            THEN Becomes(Switched(saved, next)) /\ UNCHANGED deleted
            ELSE /\ Becomes(Persisted(Then(Switched(saved, next), Forget)))
                 /\ deleted' = deleted \cup {id}
    BY <1>5 DEF Delete, saved
  <2>2. \A r \in saved : Good(app, store, r, {}) /\ next \in Ids(r[1].catalog)
    BY <1>2, <2>1
  <2> DEFINE switched == Switched(saved, next)
  <2>3. \A r \in switched : /\ Good(app, store, r, {})
                            /\ next \notin Broken => r[1].catalog.active = next
    BY <1>1, <2>2, OpenGood, SwitchedGood
  <2> HIDE DEF switched
  <2>4. CASE next \in Broken
    <3>1. PICK p \in switched : app' = p[1] /\ store' = p[2]
      BY <2>1, <2>4 DEF Becomes, switched
    <3> QED BY <1>1, <2>3, <3>1, OpenGood, GoodSound
  <2>5. CASE next \notin Broken
    <3>1. PICK p \in Persisted(Then(switched, Forget)) : app' = p[1] /\ store' = p[2]
      BY <2>1, <2>5 DEF Becomes, switched
    <3>2. id \in deleted'
      BY <2>1, <2>5
    <3>3. \A r \in switched : Good(app, store, r, {}) /\ r[1].catalog.active # id
      BY <2>1, <2>3, <2>5
    <3>4. Good(app, store, p, {id})
      BY <1>3, <3>1, <3>3
    <3> QED BY <1>1, <3>1, <3>2, <3>4, OpenGood, GoodSound
  <2> QED BY <2>4, <2>5
<1> QED BY <1>4, <1>5

(* require_durable_save asks for the generation to come. *)
LEMMA RequiredIs ==
  ASSUME NEW d \in [confirmed : BOOLEAN, latest : Nat, required : Nat]
  PROVE  /\ require_durable_save(d) \in [confirmed : BOOLEAN, latest : Nat, required : Nat]
         /\ ~require_durable_save(d).confirmed
         /\ require_durable_save(d).latest = d.latest /\ require_durable_save(d).required = d.latest + 1
<1> DEFINE next == d.latest + 1
<1>1. next \in Nat
  OBVIOUS
<1>2. require_durable_save(d) = [d EXCEPT !.confirmed = FALSE, !.required = next]
  BY DEF require_durable_save
<1> HIDE DEF next
<1>3. /\ require_durable_save(d) \in [confirmed : BOOLEAN, latest : Nat, required : Nat]
      /\ ~require_durable_save(d).confirmed
      /\ require_durable_save(d).latest = d.latest /\ require_durable_save(d).required = next
  BY <1>1, <1>2
<1> QED BY <1>3 DEF next

(* A program that asks for a durable save waits for a generation to come. *)
LEMMA RequiredPair ==
  ASSUME edits \in Nat, PairOk(app, store), NEW s, StoreOk(s, edits),
         s.generation = store.generation, s.writes = store.writes,
         NEW a, AppOk(a, edits), a.ready, EventsOk(app, s), a.stamp = app.stamp,
         a.durability = require_durable_save(app.durability)
  PROVE  PairOk(a, s)
<1>1. AppOk(app, edits) /\ AsAsked(app, store) /\ WritesOk(app, store)
  BY DEF PairOk
<1> DEFINE d == app.durability
<1>2. d \in [confirmed : BOOLEAN, latest : Nat, required : Nat]
  BY <1>1 DEF AppOk
<1> HIDE DEF d
<1>3. /\ ~a.durability.confirmed /\ a.durability.latest = d.latest
      /\ a.durability.required = d.latest + 1 /\ d.latest \in Nat
  BY <1>2, RequiredIs DEF d
<1>4. AsAsked(a, s)
  BY <1>1, <1>3 DEF AsAsked, d
<1>5. WritesOk(a, s)
  BY <1>1 DEF WritesOk
<1>6. EventsOk(a, s)
  BY DEF EventsOk, Landed
<1> QED BY <1>4, <1>5, <1>6 DEF PairOk

(* Import pasted backup: the key changes, and is to be saved again. *)
LEMMA ImportKeySound == ASSUME NEW secret \in Secret PROVE CatalogInv /\ ImportKey(secret) => Sound
<1> SUFFICES ASSUME CatalogInv, ImportKey(secret) PROVE Sound
  OBVIOUS
<1> DEFINE a == [app EXCEPT !.secret = secret, !.durability = require_durable_save(@)]
<1>1. Open /\ up' /\ UNCHANGED <<web, legacy, edits>> /\ secret # app.secret
  BY DEF ImportKey, Open
<1>2. edits \in Nat /\ up /\ PairOk(app, store) /\ AppOk(app, edits) /\ app.ready
  BY <1>1, OpenGood DEF Open
<1>3. PICK p \in persist_now(a, store) : app' = p[1] /\ store' = p[2]
  BY DEF ImportKey, Becomes
<1>4. /\ a.secret = secret /\ a.durability = require_durable_save(app.durability)
      /\ a.ready /\ a.stamp = app.stamp /\ a.catalog = app.catalog /\ a.doc = app.doc
  BY <1>2 DEF AppOk
<1>5. AppOk(a, edits)
  <2> DEFINE e == require_durable_save(app.durability)
  <2>1. e \in [confirmed : BOOLEAN, latest : Nat, required : Nat]
    BY <1>2, RequiredIs DEF AppOk
  <2>2. a = [app EXCEPT !.secret = secret, !.durability = e]
    OBVIOUS
  <2> HIDE DEF e, a
  <2> QED BY <1>2, <2>1, <2>2 DEF AppOk
<1> HIDE DEF a
<1>6. StoreOk(store, edits) /\ EventsOk(app, store)
  BY <1>2 DEF PairOk
<1>7. PairOk(a, store)
  BY <1>2, <1>4, <1>5, <1>6, RequiredPair
<1>8. Good(a, store, <<a, store>>, {})
  BY <1>2, <1>5, <1>7, KeptItself DEF Good, KeyedFrom
<1>9. Good(a, store, p, {})
  <2>1. p \in persist_now(<<a, store>>[1], <<a, store>>[2])
    BY <1>3
  <2> QED BY <1>2, <1>5, <1>8, <2>1, PersistGood
<1>10. PairOk(app', store') /\ app'.secret = secret /\ Kept(a, app', {})
  BY <1>3, <1>4, <1>9 DEF Good
<1>11. CatalogInv'
  BY <1>1, <1>2, <1>10, PairPrimed DEF CatalogInv
<1>12. KeyStep
  BY <1>1, <1>10 DEF KeyStep
<1>13. OpenStep
  BY <1>4, <1>10 DEF OpenStep, Kept, Content
<1> QED BY <1>11, <1>12, <1>13 DEF Sound

(* Start fresh: a catalog of one empty workspace, to be saved under the old key. *)
LEMMA StartFreshSound == CatalogInv /\ StartFresh => Sound
<1> SUFFICES ASSUME CatalogInv, StartFresh PROVE Sound
  OBVIOUS
<1> DEFINE a == [app EXCEPT !.corrupt = FALSE]
<1>1. up /\ up' /\ UNCHANGED <<web, legacy, edits>>
  BY DEF StartFresh
<1>2. edits \in Nat /\ PairOk(app, store) /\ AppOk(app, edits)
  BY <1>1 DEF CatalogInv, PairOk
<1>3. PICK p \in persist_now(a, store) : app' = p[1] /\ store' = p[2]
  BY DEF StartFresh, Becomes
<1>4. AppOk(a, edits) /\ SameStorage(app, a) /\ a.catalog = app.catalog /\ a.doc = app.doc
  BY <1>2 DEF AppOk, SameStorage
<1> HIDE DEF a
<1>5. Kept(app, a, {})
  BY <1>2, <1>4, KeptItself DEF Kept, Content
<1>6. Good(app, store, <<a, store>>, {})
  BY <1>2, <1>4, <1>5, NowGood
<1>7. Good(app, store, p, {})
  <2>1. p \in persist_now(<<a, store>>[1], <<a, store>>[2])
    BY <1>3
  <2> QED BY <1>2, <1>6, <2>1, PersistGood
<1> QED BY <1>1, <1>3, <1>7, GoodSound

-----------------------------------------------------------------------------
(* Saving, the end of the program, and what becomes of its writes. *)

(* eframe's copy is erased on the word of a save that landed: then nothing but
   the catalog that was saved can be found. *)
LEMMA LandedIsDurable ==
  ASSUME PairOk(app, store), app.durability.confirmed, ReadForGood PROVE Durable(store, app.secret)
<1>1. Landed(app, store) /\ app.stamp.secret = app.secret /\ Opens(app.stamp)
  BY DEF PairOk, AsAsked
<1>2. store.surviving = {app.stamp} /\ store.writes = << >>
  BY <1>1 DEF Landed, ReadForGood
<1> QED BY <1>1, <1>2 DEF Durable, FindableIn

(* save: eframe's copy is written, or erased once a save landed. *)
LEMMA SaveStateSound == CatalogInv /\ SaveState => Sound
<1> SUFFICES ASSUME CatalogInv, SaveState PROVE Sound
  OBVIOUS
<1>1. up /\ up' /\ UNCHANGED <<web, edits, deleted>> /\ legacy' = legacy_secret_for_save(app)
  BY DEF SaveState
<1>2. edits \in Nat /\ PairOk(app, store) /\ AppOk(app, edits)
  BY <1>1 DEF CatalogInv, PairOk
<1>3. PICK p \in persist_now(app, store) : app' = p[1] /\ store' = p[2]
  BY DEF SaveState, Becomes
<1>4. Good(app, store, p, {})
  <2>1. p \in persist_now(<<app, store>>[1], <<app, store>>[2])
    BY <1>3
  <2>2. Good(app, store, <<app, store>>, {})
    BY <1>2, KeptItself, NowGood
  <2> QED BY <1>2, <2>1, <2>2, PersistGood
<1>5. /\ PairOk(app', store') /\ app'.secret = app.secret /\ KeyedFrom(store, store', app.secret)
      /\ Kept(app, app', {})
  BY <1>3, <1>4 DEF Good
<1>6. app.secret \in Secret
  BY <1>2 DEF AppOk
<1>7. CatalogInv'
  BY <1>1, <1>2, <1>5, <1>6, PairPrimed DEF CatalogInv, legacy_secret_for_save
<1>8. KeyStep
  <2> SUFFICES ASSUME ReadForGood, app'.secret = app.secret PROVE Stored(app.secret)'
    BY DEF KeyStep
  <2>1. legacy' = app.secret \/ Durable(store, app.secret)
    BY <1>1, <1>2, LandedIsDurable DEF legacy_secret_for_save
  <2>2. Durable(store, app.secret) => Durable(store', app'.secret)
    BY <1>5 DEF Durable, KeyedFrom
  <2>3. Stored(app.secret)' <=> legacy' = app'.secret \/ Durable(store', app'.secret)
    BY DEF Stored, Findable, FindableIn, Durable, Opens, Ids
  <2> QED BY <1>5, <2>1, <2>2, <2>3
<1>9. OpenStep
  BY <1>5 DEF OpenStep, Kept
<1> QED BY <1>7, <1>8, <1>9 DEF Sound

(* A program that ended has nothing under way. *)
Ended(s, disk, surviving) ==
  [s EXCEPT !.disk = disk, !.surviving = surviving, !.writes = << >>,
            !.events = << >>, !.generation = 0]

(* The store after a program has ended. *)
LEMMA DownStore ==
  ASSUME NEW n, NEW s, StoreOk(s, n), NEW disk, NEW surviving, disk \in surviving,
         surviving \subseteq CatalogsUpTo(n) \cup {NoCatalog},
         NEW t, t = Ended(s, disk, surviving)
  PROVE  /\ StoreOk(t, n) /\ t.writes = << >> /\ t.events = << >> /\ t.surviving = surviving
<1> DEFINE none == << >>
<1>1. none \in Seq([generation : Nat, catalog : CatalogsUpTo(n) \cup {NoCatalog}])
  OBVIOUS
<1>2. none \in Seq([kind : Kinds, generation : Nat])
  OBVIOUS
<1>3. t = [s EXCEPT !.disk = disk, !.surviving = surviving, !.writes = none,
                    !.events = none, !.generation = 0]
  BY DEF Ended
<1>4. ~web => none = << >>
  OBVIOUS
<1> HIDE DEF none
<1>5. /\ t = [disk |-> disk, surviving |-> surviving, writes |-> none, events |-> none,
              generation |-> 0, failures |-> s.failures]
      /\ s.failures \in Nat
  BY <1>3 DEF StoreOk
<1>6. disk \in CatalogsUpTo(n) \cup {NoCatalog} /\ surviving \in SUBSET (CatalogsUpTo(n) \cup {NoCatalog})
  OBVIOUS
<1>7. StoreOk(t, n)
  BY <1>1, <1>2, <1>4, <1>5, <1>6 DEF StoreOk
<1> QED BY <1>5, <1>7 DEF none

(* What a step that ends the program owes. *)
LEMMA DownSound ==
  ASSUME CatalogInv, up' = FALSE, UNCHANGED <<web, legacy, edits>>, DownOk(store'), KeyedFrom(store, store', app.secret)
  PROVE  Sound
<1>1. CatalogInv'
  BY DownPrimed DEF CatalogInv
<1> QED BY <1>1, KeyedSound DEF Sound, OpenStep

(* on_exit: the last save. *)
LEMMA ExitSound == CatalogInv /\ Exit => Sound
<1> SUFFICES ASSUME CatalogInv, Exit PROVE Sound
  OBVIOUS
<1>1. up /\ up' = FALSE /\ ~web /\ UNCHANGED <<web, legacy, edits>>
  BY DEF Exit
<1>2. edits \in Nat /\ PairOk(app, store)
  BY <1>1 DEF CatalogInv
<1>3. PICK p \in persist_now(app, store) : store' = [p[2] EXCEPT !.events = << >>, !.generation = 0]
  BY DEF Exit
<1>4. StoreOk(p[2], edits) /\ KeyedFrom(store, p[2], app.secret)
  BY <1>2, <1>3, PersistFollows DEF PairOk, Follows
<1> DEFINE t == p[2]
<1>5. /\ t.disk \in t.surviving /\ t.surviving \subseteq CatalogsUpTo(edits) \cup {NoCatalog}
      /\ store' = Ended(t, t.disk, t.surviving) /\ t.writes = << >>
  <2> HIDE DEF t
  <2>1. StoreOk(t, edits) /\ store' = [t EXCEPT !.events = << >>, !.generation = 0]
    BY <1>3, <1>4 DEF t
  <2> QED BY <1>1, <2>1 DEF StoreOk, Ended
<1> HIDE DEF t
<1>6. /\ DownOk(store') /\ store'.surviving = t.surviving /\ store'.writes = t.writes
  BY <1>4, <1>5, DownStore DEF DownOk, t
<1>7. KeyedFrom(store, store', app.secret)
  BY <1>4, <1>6 DEF KeyedFrom, FindableIn, t
<1> QED BY <1>1, <1>6, <1>7, DownSound

(* The process dies: a transaction under way may or may not be carried out. *)
LEMMA CrashSound == CatalogInv /\ Crash => Sound
<1> SUFFICES ASSUME CatalogInv, Crash PROVE Sound
  OBVIOUS
<1>1. up /\ up' = FALSE /\ UNCHANGED <<web, legacy, edits>>
  BY DEF Crash
<1>2. edits \in Nat /\ StoreOk(store, edits)
  BY <1>1 DEF CatalogInv, PairOk
<1>3. PICK done \in 0..Len(store.writes) :
        LET disk == IF done = 0 THEN store.disk ELSE store.writes[done].catalog
        IN store' = [store EXCEPT !.disk = disk,
                                  !.surviving = IF web THEN {disk} ELSE @,
                                  !.writes = << >>, !.events = << >>, !.generation = 0]
  BY DEF Crash
<1> DEFINE disk == IF done = 0 THEN store.disk ELSE store.writes[done].catalog
           surviving == IF web THEN {disk} ELSE store.surviving
<1>4. disk \in CatalogsUpTo(edits) \cup {NoCatalog} /\ disk \in FindableIn(store)
  <2>1. CASE done = 0
    BY <1>2, <2>1 DEF StoreOk, FindableIn
  <2>2. CASE done # 0
    <3> DEFINE W == [generation : Nat, catalog : CatalogsUpTo(edits) \cup {NoCatalog}]
    <3>1. store.writes \in Seq(W)
      BY <1>2 DEF StoreOk
    <3> HIDE DEF W
    <3>2. done \in DOMAIN store.writes /\ store.writes[done] \in W
      BY <1>3, <2>2, <3>1
    <3> QED BY <2>2, <3>2 DEF W, FindableIn
  <2> QED BY <2>1, <2>2
<1>5. disk \in surviving
  <2>1. CASE web
    BY <2>1
  <2>2. CASE ~web
    BY <1>2, <1>3, <2>2 DEF StoreOk
  <2> QED BY <2>1, <2>2
<1>6. surviving \subseteq FindableIn(store)
  BY <1>4 DEF FindableIn
<1>7. store' = Ended(store, disk, surviving)
  BY <1>3 DEF Ended
<1>8. surviving \in SUBSET (CatalogsUpTo(edits) \cup {NoCatalog})
  BY <1>2, <1>4 DEF StoreOk
<1> HIDE DEF disk, surviving
<1>9. DownOk(store') /\ store'.surviving = surviving /\ store'.writes = << >>
  BY <1>2, <1>5, <1>7, <1>8, DownStore DEF DownOk
<1>10. KeyedFrom(store, store', app.secret)
  BY <1>6, <1>9 DEF KeyedFrom, FindableIn
<1> QED BY <1>1, <1>9, <1>10, DownSound

(* The power fails: one of the catalogs that may have survived is there. *)
LEMMA PowerLossSound == CatalogInv /\ PowerLoss => Sound
<1> SUFFICES ASSUME CatalogInv, PowerLoss PROVE Sound
  OBVIOUS
<1>1. up' = FALSE /\ ~web /\ UNCHANGED <<web, legacy, edits>>
  BY DEF PowerLoss
<1>2. StoreOk(store, edits) /\ store.writes = << >>
  BY <1>1 DEF CatalogInv, PairOk, DownOk, StoreOk
<1>3. PICK c \in store.surviving :
        store' = [store EXCEPT !.disk = c, !.surviving = {c}, !.events = << >>, !.generation = 0]
  BY DEF PowerLoss
<1>4. DownOk(store') /\ store'.surviving = {c} /\ store'.writes = << >>
  <2>1. store' = Ended(store, c, {c})
    BY <1>2, <1>3 DEF StoreOk, Ended
  <2>2. {c} \subseteq CatalogsUpTo(edits) \cup {NoCatalog} /\ c \in {c}
    BY <1>2 DEF StoreOk
  <2> QED BY <1>2, <2>1, <2>2, DownStore DEF DownOk
<1>5. KeyedFrom(store, store', app.secret)
  BY <1>2, <1>4 DEF KeyedFrom, FindableIn
<1> QED BY <1>1, <1>4, <1>5, DownSound

(* The first of the transactions under way ends. *)
LEMMA WriteEnds ==
  ASSUME PairOk(app, store), store.writes # << >>, NEW kind \in {"saved", "failed"},
         NEW t, StoreOk(t, edits), t.generation = store.generation, t.writes = Tail(store.writes),
         t.events = Append(store.events, Event(kind, Head(store.writes).generation)),
         kind = "saved" => /\ t.disk = Head(store.writes).catalog
                           /\ t.surviving = {Head(store.writes).catalog}
  PROVE  PairOk(app, t)
<1> DEFINE w == Head(store.writes)
           v == Event(kind, w.generation)
           W == [generation : Nat, catalog : CatalogsUpTo(edits) \cup {NoCatalog}]
           V == [kind : Kinds, generation : Nat]
<1>1. /\ AppOk(app, edits) /\ AsAsked(app, store) /\ WritesOk(app, store)
      /\ app.ready /\ EventsOk(app, store) /\ StoreOk(store, edits)
  BY DEF PairOk, Unloaded
<1>2. store.writes \in Seq(W) /\ store.events \in Seq(V)
  BY <1>1 DEF StoreOk
<1>3. w.generation \in 1..store.generation /\ (w.generation = store.generation => Len(store.writes) = 1 /\ w.catalog = app.stamp)
  <2> HIDE DEF W
  <2>1. 1 \in DOMAIN store.writes /\ w = store.writes[1]
    BY <1>2
  <2> HIDE DEF w
  <2> QED BY <1>1, <2>1 DEF WritesOk
<1>4. store.generation \in Nat
  BY <1>1 DEF StoreOk
<1>5. v \in V /\ v.kind = kind /\ v.generation = w.generation
  BY <1>3, <1>4 DEF Event, Kinds
<1> HIDE DEF W, V
<1>6. ~Landed(app, store)
  BY DEF Landed
<1>7. AsAsked(app, t)
  BY <1>1, <1>6 DEF AsAsked
<1>8. WritesOk(app, t)
  <2> SUFFICES ASSUME NEW i \in DOMAIN t.writes
               PROVE  /\ t.writes[i].generation \in 1..t.generation
                      /\ t.writes[i].generation = t.generation => i = Len(t.writes) /\ t.writes[i].catalog = app.stamp
    BY DEF WritesOk
  <2>1. i + 1 \in DOMAIN store.writes /\ t.writes[i] = store.writes[i + 1] /\ Len(t.writes) = Len(store.writes) - 1 /\ i \in Nat
    BY <1>2
  <2> DEFINE x == t.writes[i]
             j == i + 1
  <2>2. j \in DOMAIN store.writes /\ x = store.writes[j] /\ j \in Nat
    BY <2>1
  <2> HIDE DEF x, j
  <2>3. x.generation \in 1..store.generation /\ (x.generation = store.generation => j = Len(store.writes) /\ x.catalog = app.stamp)
    BY <1>1, <2>2 DEF WritesOk
  <2>4. Len(store.writes) \in Nat
    BY <1>2
  <2> QED BY <2>1, <2>3, <2>4 DEF x, j
<1> HIDE DEF v, w
<1>9. v.kind = "saved" /\ v.generation = t.generation => Landed(app, t)
  <2> SUFFICES ASSUME kind = "saved", w.generation = store.generation PROVE Landed(app, t)
    BY <1>5
  <2>1. Len(store.writes) = 1 /\ w.catalog = app.stamp
    BY <1>3
  <2>2. t.writes = << >>
    <3>1. Tail(store.writes) \in Seq(W) /\ Len(Tail(store.writes)) = 0
      BY <1>2, <2>1
    <3> QED BY <3>1, EmptySeq
  <2>3. t.disk = app.stamp /\ t.surviving = {app.stamp}
    BY <2>1 DEF w
  <2> QED BY <2>2, <2>3 DEF Landed
<1>10. t.events = Append(store.events, v)
  BY DEF v, w
<1>11. EventsOk(app, t)
  <2> SUFFICES ASSUME NEW i \in DOMAIN t.events
               PROVE  /\ t.events[i].kind \in {"saved", "failed"} /\ t.events[i].generation \in 1..t.generation
                      /\ t.events[i].kind = "saved" /\ t.events[i].generation = t.generation => Landed(app, t)
    BY DEF EventsOk
  <2>1. CASE i = Len(t.events)
    <3>1. t.events[i] = v
      BY <1>2, <1>5, <1>10, <2>1
    <3> QED BY <1>3, <1>5, <1>9, <3>1
  <2>2. CASE i # Len(t.events)
    <3>1. i \in DOMAIN store.events /\ t.events[i] = store.events[i]
      BY <1>2, <1>5, <1>10, <2>2
    <3> QED BY <1>1, <1>6, <3>1 DEF EventsOk
  <2> QED BY <2>1, <2>2
<1> QED BY <1>1, <1>7, <1>8, <1>11 DEF PairOk

(* What a step of the browser, or a load, comes to, if the program stays as it is kept. *)
LEMMA StoreSound ==
  ASSUME CatalogInv, up, up' = TRUE, UNCHANGED <<web, legacy, edits>>, PairOk(app', store'),
         KeyedFrom(store, store', app.secret), Kept(app, app', {}) \/ ~app.ready
  PROVE  Sound
<1>1. CatalogInv'
  BY PairPrimed DEF CatalogInv
<1>2. OpenStep
  BY DEF OpenStep, Kept
<1> QED BY <1>1, <1>2, KeyedSound DEF Sound

(* A browser's transaction commits. *)
LEMMA CommitSound == CatalogInv /\ Commit => Sound
<1> SUFFICES ASSUME CatalogInv, Commit PROVE Sound
  OBVIOUS
<1> DEFINE w == Head(store.writes)
           v == Event("saved", w.generation)
           W == [generation : Nat, catalog : CatalogsUpTo(edits) \cup {NoCatalog}]
           V == [kind : Kinds, generation : Nat]
<1>1. /\ up /\ up' = TRUE /\ UNCHANGED <<web, legacy, edits>> /\ app' = app /\ store.writes # << >>
  BY DEF Commit, CatalogInv
<1>2. edits \in Nat /\ PairOk(app, store) /\ StoreOk(store, edits) /\ AppOk(app, edits)
  BY <1>1 DEF CatalogInv, PairOk
<1>3. store.writes \in Seq(W) /\ store.events \in Seq(V) /\ web
  BY <1>1, <1>2 DEF StoreOk
<1>4. w \in W /\ w \in {store.writes[i] : i \in DOMAIN store.writes} /\ Tail(store.writes) \in Seq(W)
      /\ \A i \in DOMAIN Tail(store.writes) : Tail(store.writes)[i] \in {store.writes[j] : j \in DOMAIN store.writes}
  <2> HIDE DEF W
  <2>1. 1 \in DOMAIN store.writes /\ w = store.writes[1] /\ w \in W /\ Tail(store.writes) \in Seq(W)
    BY <1>1, <1>3
  <2>2. \A i \in DOMAIN Tail(store.writes) : i + 1 \in DOMAIN store.writes /\ Tail(store.writes)[i] = store.writes[i + 1]
    BY <1>1, <1>3
  <2> QED BY <2>1, <2>2
<1>5. w.catalog \in CatalogsUpTo(edits) \cup {NoCatalog} /\ w.generation \in Nat
  BY <1>4
<1>6. v \in V
  BY <1>5 DEF Event, Kinds
<1>7. Append(store.events, v) \in Seq(V)
  <2> HIDE DEF V, v
  <2> QED BY <1>3, <1>6
<1>8. store' = [store EXCEPT !.disk = w.catalog, !.surviving = {w.catalog}, !.writes = Tail(@),
                             !.events = Append(@, v)]
  BY DEF Commit, Told
<1> HIDE DEF v, w
<1>9. /\ store'.disk = w.catalog /\ store'.surviving = {w.catalog} /\ store'.writes = Tail(store.writes)
      /\ store'.events = Append(store.events, v) /\ store'.generation = store.generation
      /\ StoreOk(store', edits)
  BY <1>2, <1>3, <1>4, <1>5, <1>7, <1>8 DEF StoreOk
<1> HIDE DEF W, V
<1>10. PairOk(app, store')
  BY <1>1, <1>2, <1>9, WriteEnds DEF v, w
<1>11. KeyedFrom(store, store', app.secret)
  BY <1>4, <1>9 DEF KeyedFrom, FindableIn
<1> QED BY <1>1, <1>2, <1>10, <1>11, KeptItself, StoreSound

(* A browser's transaction aborts. *)
LEMMA AbortSound == CatalogInv /\ Abort => Sound
<1> SUFFICES ASSUME CatalogInv, Abort PROVE Sound
  OBVIOUS
<1> DEFINE w == Head(store.writes)
           v == Event("failed", w.generation)
           W == [generation : Nat, catalog : CatalogsUpTo(edits) \cup {NoCatalog}]
           V == [kind : Kinds, generation : Nat]
<1>1. /\ up /\ up' = TRUE /\ UNCHANGED <<web, legacy, edits>> /\ app' = app /\ store.writes # << >>
  BY DEF Abort, CatalogInv
<1>2. edits \in Nat /\ PairOk(app, store) /\ StoreOk(store, edits) /\ AppOk(app, edits)
  BY <1>1 DEF CatalogInv, PairOk
<1>3. store.writes \in Seq(W) /\ store.events \in Seq(V) /\ web
  BY <1>1, <1>2 DEF StoreOk
<1>4. w \in W /\ Tail(store.writes) \in Seq(W)
      /\ \A i \in DOMAIN Tail(store.writes) : Tail(store.writes)[i] \in {store.writes[j] : j \in DOMAIN store.writes}
  <2> HIDE DEF W
  <2>1. w \in W /\ Tail(store.writes) \in Seq(W)
    BY <1>1, <1>3
  <2>2. \A i \in DOMAIN Tail(store.writes) : i + 1 \in DOMAIN store.writes /\ Tail(store.writes)[i] = store.writes[i + 1]
    BY <1>1, <1>3
  <2> QED BY <2>1, <2>2
<1>5. w.generation \in Nat
  BY <1>4
<1>6. v \in V
  BY <1>5 DEF Event, Kinds
<1>7. Append(store.events, v) \in Seq(V)
  <2> HIDE DEF V, v
  <2> QED BY <1>3, <1>6
<1> DEFINE failures == store.failures + 1
<1>8. /\ store' = [store EXCEPT !.failures = failures, !.writes = Tail(@), !.events = Append(@, v)]
      /\ failures \in Nat
  BY <1>2 DEF Abort, Told, Fails, StoreOk
<1> HIDE DEF v, w, failures
<1>9. /\ store'.surviving = store.surviving /\ store'.writes = Tail(store.writes)
      /\ store'.events = Append(store.events, v) /\ store'.generation = store.generation
      /\ StoreOk(store', edits)
  BY <1>2, <1>3, <1>4, <1>7, <1>8 DEF StoreOk
<1> HIDE DEF W, V
<1>10. PairOk(app, store')
  BY <1>1, <1>2, <1>9, WriteEnds DEF v, w
<1>11. KeyedFrom(store, store', app.secret)
  BY <1>4, <1>9 DEF KeyedFrom, FindableIn
<1> QED BY <1>1, <1>2, <1>10, <1>11, KeptItself, StoreSound

-----------------------------------------------------------------------------
(* The start of the program, and what it hears. *)

(* The program starts: the key it makes up is none that is stored. *)
LEMMA StartSound == CatalogInv /\ Start => Sound
<1> SUFFICES ASSUME CatalogInv, Start PROVE Sound
  OBVIOUS
<1>1. ~up /\ up' = TRUE /\ UNCHANGED <<web, legacy, edits>> /\ edits \in Nat /\ DownOk(store)
  BY DEF Start, CatalogInv
<1>2. PICK secret \in Secret : app' = Fresh(secret)
  BY <1>1 DEF Start, CatalogInv
<1>3. PICK kind \in {"loaded", "unread"}, failures \in Nat :
        store' = [store EXCEPT !.events = Append(@, Event(kind, 0)), !.failures = failures, !.generation = 0]
  <2>1. StoreOk(store, edits)
    BY <1>1 DEF DownOk
  <2>2. PICK s : /\ store' = [s EXCEPT !.generation = 0]
                 /\ s = Told(store, Event("loaded", 0)) \/ s = Told(Fails(store), Event("unread", 0))
    BY DEF Start
  <2>3. CASE s = Told(store, Event("loaded", 0))
    <3>1. store' = [store EXCEPT !.events = Append(@, Event("loaded", 0)), !.failures = store.failures, !.generation = 0]
      BY <2>1, <2>2, <2>3 DEF StoreOk, Told
    <3> QED BY <2>1, <3>1 DEF StoreOk
  <2>4. CASE s = Told(Fails(store), Event("unread", 0))
    <3> DEFINE f == store.failures + 1
    <3>1. f \in Nat
      BY <2>1 DEF StoreOk
    <3>2. store' = [store EXCEPT !.events = Append(@, Event("unread", 0)), !.failures = f, !.generation = 0]
      BY <2>1, <2>2, <2>4 DEF StoreOk, Told, Fails
    <3> HIDE DEF f
    <3> QED BY <3>1, <3>2
  <2> QED BY <2>2, <2>3, <2>4
<1> DEFINE v == Event(kind, 0)
           events == <<v>>
           none == << >>
           saved == [i \in {Home} |-> 0]
           catalog == [active |-> Home, secret |-> secret, saved |-> saved]
           durability == [confirmed |-> FALSE, latest |-> 0, required |-> 0]
<1>4. events \in Seq([kind : Kinds, generation : Nat])
  <2>1. v \in [kind : Kinds, generation : Nat]
    BY DEF Event, Kinds
  <2> HIDE DEF v
  <2> QED BY <2>1
<1>5. /\ StoreOk(store, edits) /\ store.writes = << >> /\ Append(store.events, Event(kind, 0)) = events
      /\ store' = [store EXCEPT !.events = events, !.failures = failures, !.generation = 0]
  BY <1>1, <1>3 DEF DownOk
<1> HIDE DEF events
<1>6. /\ StoreOk(store', edits) /\ store'.events = events /\ store'.writes = << >> /\ store'.generation = 0
      /\ store'.surviving = store.surviving
  BY <1>4, <1>5 DEF StoreOk
<1>7. saved \in SavedUpTo(edits) /\ DOMAIN saved = {Home}
  <2>1. saved \in [{Home} -> 0..edits] /\ {Home} \in SUBSET Id
    BY <1>1, CatalogAssumption
  <2> QED BY <2>1 DEF SavedUpTo
<1> HIDE DEF saved
<1>8. /\ catalog \in CatalogsUpTo(edits) /\ catalog.active \in Ids(catalog) \ Broken
  BY <1>2, <1>7, CatalogAssumption DEF CatalogsUpTo, Ids
<1>9. durability \in [confirmed : BOOLEAN, latest : Nat, required : Nat]
  OBVIOUS
<1>10. app' = [ready |-> FALSE, disabled |-> FALSE, corrupt |-> FALSE, secret |-> secret,
               durability |-> durability, catalog |-> catalog, doc |-> 0, stamp |-> NoCatalog]
  BY <1>2 DEF Fresh, saved
<1>11. ~durability.confirmed /\ durability.latest = 0
  OBVIOUS
<1> HIDE DEF catalog, durability
<1>12. /\ app'.durability = durability /\ ~app'.ready
       /\ AppOk(app', edits)
  BY <1>1, <1>2, <1>8, <1>9, <1>10 DEF AppOk
<1>13. AsAsked(app', store')
  BY <1>6, <1>11, <1>12 DEF AsAsked
<1>14. WritesOk(app', store')
  BY <1>6 DEF WritesOk
<1>15. Unloaded(app', store')
  BY <1>6, <1>11, <1>12 DEF Unloaded, events, v
<1>16. PairOk(app', store')
  BY <1>6, <1>12, <1>13, <1>14, <1>15 DEF PairOk
<1>17. CatalogInv'
  BY <1>1, <1>16, PairPrimed DEF CatalogInv
<1>18. KeyedFrom(store, store', app.secret)
  BY <1>5, <1>6 DEF KeyedFrom, FindableIn
<1>19. OpenStep
  BY <1>1 DEF OpenStep
<1> QED BY <1>1, <1>17, <1>18, <1>19, KeyedSound DEF Sound

(* The program before it heard of its catalog. *)
LEMMA LoadingIs ==
  ASSUME CatalogInv, up, Loading
  PROVE  /\ edits \in Nat /\ PairOk(app, store) /\ AppOk(app, edits) /\ StoreOk(store, edits)
         /\ ~app.ready /\ Unloaded(app, store) /\ store.generation = 0
<1>1. edits \in Nat /\ PairOk(app, store) /\ AppOk(app, edits) /\ StoreOk(store, edits) /\ AsAsked(app, store)
  BY DEF CatalogInv, PairOk
<1>2. store.events \in Seq([kind : Kinds, generation : Nat])
  BY <1>1 DEF StoreOk
<1>3. ~EventsOk(app, store)
  <2>1. store.events # << >> /\ Head(store.events).kind \in {"loaded", "unread"}
    BY DEF Loading, Heard
  <2>2. 1 \in DOMAIN store.events /\ Head(store.events) = store.events[1]
    BY <1>2, <2>1
  <2> QED BY <2>1, <2>2 DEF EventsOk
<1>4. ~app.ready /\ Unloaded(app, store)
  BY <1>1, <1>3 DEF PairOk
<1> QED BY <1>1, <1>4 DEF Unloaded, AsAsked

(* process_persistence, the event of the load. *)
LEMMA LoadSound == CatalogInv /\ Load => Sound
<1> SUFFICES ASSUME CatalogInv, Load PROVE Sound
  OBVIOUS
<1> DEFINE found == store.disk
           none == << >>
           heard == [store EXCEPT !.events = none]
<1>1. up /\ up' = TRUE /\ UNCHANGED <<web, legacy, edits>> /\ Loading
  BY DEF Load, CatalogInv
<1>2. /\ edits \in Nat /\ PairOk(app, store) /\ AppOk(app, edits) /\ StoreOk(store, edits)
      /\ ~app.ready /\ Unloaded(app, store) /\ store.generation = 0
  BY <1>1, LoadingIs
<1>3. none \in Seq([kind : Kinds, generation : Nat]) /\ DOMAIN none = {}
  OBVIOUS
<1>4. \/ /\ Opens(found) /\ app' = Installed(app, found) /\ store' = heard
      \/ app' = [Ready(app) EXCEPT !.corrupt = TRUE] /\ store' = heard
      \/ app' = [Ready(app) EXCEPT !.disabled = TRUE] /\ store' = heard
      \/ Becomes(persist_now(Ready(app), heard))
  BY DEF Load
<1> HIDE DEF none
<1>5. /\ StoreOk(heard, edits) /\ heard.events = none /\ heard.writes = store.writes
      /\ heard.generation = store.generation /\ heard.surviving = store.surviving /\ heard.disk = store.disk
  BY <1>2, <1>3 DEF StoreOk
<1> HIDE DEF heard
<1>6. EventsOk(app, heard)
  BY <1>3, <1>5 DEF EventsOk
<1>7. KeyedFrom(store, heard, app.secret)
  BY <1>5 DEF KeyedFrom, FindableIn
<1> DEFINE d == require_durable_save(app.durability)
<1>8. d \in [confirmed : BOOLEAN, latest : Nat, required : Nat]
  BY <1>2, RequiredIs DEF AppOk
<1>9. Ready(app) = [app EXCEPT !.ready = TRUE, !.durability = d]
  BY DEF Ready
<1> HIDE DEF d
<1>10. ASSUME NEW a, AppOk(a, edits), a.ready, a.stamp = app.stamp, a.durability = d
       PROVE  PairOk(a, heard)
  BY <1>2, <1>5, <1>6, <1>10, RequiredPair DEF d
<1>11. CASE Opens(found) /\ app' = Installed(app, found) /\ store' = heard
  <2> DEFINE e == [app.durability EXCEPT !.confirmed = TRUE, !.required = 0]
             doc == found.saved[found.active]
  <2>1. found \in CatalogsUpTo(edits) /\ found.active \in Ids(found) \ Broken
    BY <1>2, <1>11 DEF Opens, StoreOk
  <2>2. e \in [confirmed : BOOLEAN, latest : Nat, required : Nat] /\ e.latest = 0
    BY <1>2 DEF AppOk, Unloaded
  <2> HIDE DEF found
  <2>3. doc \in 0..edits
    <3>1. found.saved \in SavedUpTo(edits)
      BY <2>1 DEF CatalogsUpTo
    <3>2. PICK I \in SUBSET Id : found.saved \in [I -> 0..edits]
      BY <3>1 DEF SavedUpTo
    <3> QED BY <2>1, <3>2 DEF Ids
  <2>4. app' = [app EXCEPT !.ready = TRUE, !.secret = found.secret, !.catalog = found,
                           !.doc = doc, !.stamp = found, !.durability = e]
    BY <1>11 DEF Installed
  <2>5. found.secret \in Secret
    BY <2>1 DEF CatalogsUpTo
  <2> HIDE DEF e, doc
  <2>6. AppOk(app', edits)
    BY <1>2, <2>1, <2>2, <2>3, <2>4, <2>5 DEF AppOk
  <2>7. /\ app'.ready /\ app'.secret = found.secret /\ app'.stamp = found /\ app'.durability = e
    BY <1>2, <2>4 DEF AppOk
  <2>8. Landed(app', heard)
    BY <1>2, <1>5, <2>7 DEF Landed, Unloaded, found
  <2>9. AsAsked(app', heard)
    BY <1>2, <1>5, <1>11, <2>2, <2>7, <2>8 DEF AsAsked
  <2>10. WritesOk(app', heard)
    BY <2>8 DEF WritesOk, Landed
  <2>11. EventsOk(app', heard)
    BY <1>3, <1>5 DEF EventsOk
  <2>12. PairOk(app', store')
    BY <1>5, <1>11, <2>6, <2>7, <2>9, <2>10, <2>11 DEF PairOk
  <2> QED BY <1>1, <1>2, <1>7, <1>11, <2>12, StoreSound
<1>12. CASE app' = [Ready(app) EXCEPT !.corrupt = TRUE] /\ store' = heard
  <2>1. app' = [[app EXCEPT !.ready = TRUE, !.durability = d] EXCEPT !.corrupt = TRUE]
    BY <1>9, <1>12
  <2>2. AppOk(app', edits) /\ app'.ready /\ app'.stamp = app.stamp /\ app'.durability = d
    BY <1>2, <1>8, <2>1 DEF AppOk
  <2>3. PairOk(app', store')
    BY <1>10, <1>12, <2>2
  <2> QED BY <1>1, <1>2, <1>7, <1>12, <2>3, StoreSound
<1>13. CASE app' = [Ready(app) EXCEPT !.disabled = TRUE] /\ store' = heard
  <2>1. app' = [[app EXCEPT !.ready = TRUE, !.durability = d] EXCEPT !.disabled = TRUE]
    BY <1>9, <1>13
  <2>2. AppOk(app', edits) /\ app'.ready /\ app'.stamp = app.stamp /\ app'.durability = d
    BY <1>2, <1>8, <2>1 DEF AppOk
  <2>3. PairOk(app', store')
    BY <1>10, <1>13, <2>2
  <2> QED BY <1>1, <1>2, <1>7, <1>13, <2>3, StoreSound
<1>14. CASE Becomes(persist_now(Ready(app), heard))
  <2> DEFINE a == Ready(app)
  <2>1. PICK p \in persist_now(a, heard) : app' = p[1] /\ store' = p[2]
    BY <1>14 DEF Becomes
  <2>2. /\ AppOk(a, edits) /\ a.ready /\ a.stamp = app.stamp /\ a.durability = d
        /\ a.secret = app.secret
    BY <1>2, <1>8, <1>9 DEF AppOk
  <2> HIDE DEF a
  <2>3. PairOk(a, heard)
    BY <1>10, <2>2
  <2>4. PairOk(app', store') /\ KeyedFrom(heard, store', app.secret)
    BY <1>2, <2>1, <2>2, <2>3, PersistFollows DEF Follows
  <2>5. KeyedFrom(store, store', app.secret)
    BY <1>7, <2>4 DEF KeyedFrom
  <2> QED BY <1>1, <1>2, <2>4, <2>5, StoreSound
<1> QED BY <1>4, <1>11, <1>12, <1>13, <1>14

(* A set of naturals that is not empty has a least element. *)
LEMMA Least ==
  ASSUME NEW T, T \subseteq Nat, T # {}
  PROVE  \E x \in T : \A y \in T : ~(y < x)
<1>1. IsWellFoundedOn(OpToRel(<, Nat), Nat)
  BY NatLessThanWellFounded DEF OpToRel
<1>2. \E x \in T : \A y \in T : ~(<<y, x>> \in OpToRel(<, Nat))
  BY <1>1, WFMin DEF OpToRel
<1> QED BY <1>2 DEF OpToRel

(* Induction: a set that holds zero and, with a number, the next one holds
   every natural. *)
LEMMA Counting ==
  ASSUME NEW S, 0 \in S, \A n \in Nat : n \in S => n + 1 \in S
  PROVE  Nat \subseteq S
<1> SUFFICES ASSUME Nat \ S # {} PROVE FALSE
  OBVIOUS
<1>1. PICK x \in Nat \ S : \A y \in Nat \ S : ~(y < x)
  BY Least
<1>2. x # 0 /\ x - 1 \in Nat
  BY <1>1
<1>3. x - 1 \in S
  BY <1>1, <1>2
<1>4. x \in S
  BY <1>2, <1>3
<1> QED BY <1>1, <1>4

(* The programs that process_persistence goes through. *)
Heedings(f, a, events, n) ==
  f = [i \in 0..n |-> IF i = 0 THEN a ELSE Heeds(f[i - 1], events[i])]

(* There is such a sequence, so HeedsAll is what its equations say. *)
LEMMA HeedingsExist ==
  ASSUME NEW a, NEW events, NEW n \in Nat
  PROVE  \E f : Heedings(f, a, events, n)
<1> DEFINE S == {k \in Nat : \E f : Heedings(f, a, events, k)}
<1>1. 0 \in S
  <2>1. Heedings([i \in 0..0 |-> a], a, events, 0)
    BY DEF Heedings
  <2> QED BY <2>1
<1>2. ASSUME NEW k \in Nat, k \in S PROVE k + 1 \in S
  <2>1. PICK f : Heedings(f, a, events, k)
    BY <1>2
  <2> DEFINE h == [i \in 0..k + 1 |-> IF i = k + 1 THEN Heeds(f[k], events[k + 1]) ELSE f[i]]
  <2>2. \A i \in 0..k : h[i] = f[i]
    OBVIOUS
  <2>3. ASSUME NEW i \in 0..k + 1 PROVE h[i] = IF i = 0 THEN a ELSE Heeds(h[i - 1], events[i])
    <3>1. CASE i = k + 1
      BY <3>1, <2>2
    <3>2. CASE i \in 0..k
      <4>1. f[i] = IF i = 0 THEN a ELSE Heeds(f[i - 1], events[i])
        BY <2>1, <3>2 DEF Heedings
      <4>2. i # 0 => h[i - 1] = f[i - 1]
        BY <2>2, <3>2
      <4> HIDE DEF h
      <4> QED BY <2>2, <3>2, <4>1, <4>2
    <3> QED BY <3>1, <3>2
  <2>4. h = [i \in 0..k + 1 |-> h[i]]
    OBVIOUS
  <2> HIDE DEF h
  <2>5. Heedings(h, a, events, k + 1)
    BY <2>3, <2>4 DEF Heedings
  <2> QED BY <2>5
<1> HIDE DEF S
<1>3. Nat \subseteq S
  BY <1>1, <1>2, Counting
<1> QED BY <1>3 DEF S

(* A program b on the way from a, which knows no more of the store than is so. *)
Informed(a, s, b) ==
  /\ AppOk(b, edits) /\ b.ready = a.ready /\ b.secret = a.secret /\ b.stamp = a.stamp
  /\ b.catalog = a.catalog /\ b.doc = a.doc
  /\ b.durability.latest = a.durability.latest /\ b.durability.required = a.durability.required
  /\ b.durability.confirmed => Landed(a, s) /\ a.stamp.secret = a.secret /\ Opens(a.stamp)

(* A result that is heard confirms only what landed. *)
LEMMA HeedsInformed ==
  ASSUME edits \in Nat, NEW a, NEW s, PairOk(a, s), NEW b, Informed(a, s, b), NEW e,
         e.generation \in 1..s.generation,
         e.kind = "saved" /\ e.generation = s.generation => Landed(a, s)
  PROVE  Informed(a, s, Heeds(b, e))
<1> DEFINE d == b.durability
           c == Heeds(b, e)
<1>1. /\ AppOk(b, edits) /\ AsAsked(a, s) /\ d.latest = s.generation /\ s.generation \in Nat
      /\ d.required = a.durability.required /\ a.durability.latest = s.generation
  BY DEF PairOk, AsAsked, Informed, StoreOk
<1>2. d \in [confirmed : BOOLEAN, latest : Nat, required : Nat]
  BY <1>1 DEF AppOk
<1> HIDE DEF d
<1>3. CASE e.kind = "saved"
  <2> DEFINE known == d.confirmed \/ (e.generation = d.latest /\ e.generation >= d.required)
  <2>1. known \in BOOLEAN
    BY <1>2
  <2>2. known => Landed(a, s) /\ a.stamp.secret = a.secret /\ Opens(a.stamp)
    BY <1>1, <1>2, <1>3 DEF Informed, AsAsked, d
  <2>3. ConfirmedBy(d, e.generation) = [d EXCEPT !.confirmed = known]
    BY DEF ConfirmedBy
  <2> HIDE DEF known
  <2> DEFINE n == [d EXCEPT !.confirmed = known]
  <2>4. /\ n \in [confirmed : BOOLEAN, latest : Nat, required : Nat]
        /\ n.latest = d.latest /\ n.required = d.required /\ n.confirmed = known
    BY <1>2, <2>1
  <2>5. c = [b EXCEPT !.durability = n]
    BY <1>3, <2>3 DEF Heeds, d
  <2> HIDE DEF n, c
  <2>6. /\ AppOk(c, edits) /\ c.ready = b.ready /\ c.secret = b.secret /\ c.stamp = b.stamp
        /\ c.catalog = b.catalog /\ c.doc = b.doc /\ c.durability = n
    BY <1>1, <2>4, <2>5 DEF AppOk
  <2>7. Informed(a, s, c)
    BY <2>2, <2>4, <2>6 DEF Informed, d
  <2> QED BY <2>7 DEF c
<1>4. CASE e.kind # "saved"
  <2> DEFINE known == d.confirmed /\ e.generation # d.latest
             off == b.disabled \/ e.generation = b.durability.latest
  <2>1. known \in BOOLEAN /\ (known => d.confirmed)
    BY <1>2
  <2>2. off \in BOOLEAN
    BY <1>1 DEF AppOk
  <2>3. FailedBy(d, e.generation) = [d EXCEPT !.confirmed = known]
    BY DEF FailedBy
  <2> HIDE DEF known
  <2> DEFINE n == [d EXCEPT !.confirmed = known]
  <2>4. /\ n \in [confirmed : BOOLEAN, latest : Nat, required : Nat]
        /\ n.latest = d.latest /\ n.required = d.required /\ n.confirmed = known
    BY <1>2, <2>1
  <2>5. c = [b EXCEPT !.durability = n, !.disabled = off]
    BY <1>1, <1>4, <2>3 DEF Heeds, d, AppOk
  <2> HIDE DEF n, c, off
  <2>6. /\ AppOk(c, edits) /\ c.ready = b.ready /\ c.secret = b.secret /\ c.stamp = b.stamp
        /\ c.catalog = b.catalog /\ c.doc = b.doc /\ c.durability = n
    BY <1>1, <2>2, <2>4, <2>5 DEF AppOk
  <2>7. Informed(a, s, c)
    BY <2>1, <2>4, <2>6 DEF Informed, d
  <2> QED BY <2>7 DEF c
<1> QED BY <1>3, <1>4

(* So do all the results together, by induction over them. *)
LEMMA HeedsAllInformed ==
  ASSUME edits \in Nat, NEW a, NEW s, PairOk(a, s), EventsOk(a, s)
  PROVE  Informed(a, s, HeedsAll(a, s.events))
<1> DEFINE n == Len(s.events)
           F == CHOOSE f : f = [i \in 0..n |-> IF i = 0 THEN a ELSE Heeds(f[i - 1], s.events[i])]
<1>1. n \in Nat /\ \A i \in Nat : i # 0 /\ i <= n => i \in DOMAIN s.events
  <2>1. s.events \in Seq([kind : Kinds, generation : Nat])
    BY DEF PairOk, StoreOk
  <2> QED BY <2>1
<1>2. Heedings(F, a, s.events, n)
  <2>1. \E f : Heedings(f, a, s.events, n)
    BY <1>1, HeedingsExist
  <2> QED BY <2>1 DEF Heedings
<1>3. HeedsAll(a, s.events) = F[n]
  BY DEF HeedsAll
<1> HIDE DEF F, n
<1>4. \A i \in 0..n : F[i] = IF i = 0 THEN a ELSE Heeds(F[i - 1], s.events[i])
  BY <1>2 DEF Heedings
<1> DEFINE S == {i \in Nat : i <= n => Informed(a, s, F[i])}
<1>5. 0 \in S
  <2>1. F[0] = a
    BY <1>1, <1>4
  <2>2. Informed(a, s, a)
    BY DEF Informed, PairOk, AsAsked
  <2> QED BY <2>1, <2>2
<1>6. ASSUME NEW i \in Nat, i \in S PROVE i + 1 \in S
  <2> SUFFICES ASSUME i + 1 <= n PROVE Informed(a, s, F[i + 1])
    OBVIOUS
  <2> DEFINE e == s.events[i + 1]
             b == F[i]
  <2>1. F[i + 1] = Heeds(b, e)
    BY <1>1, <1>4
  <2>2. Informed(a, s, b)
    BY <1>1, <1>6
  <2>3. i + 1 \in DOMAIN s.events
    BY <1>1
  <2>4. /\ e.generation \in 1..s.generation
        /\ e.kind = "saved" /\ e.generation = s.generation => Landed(a, s)
    BY <2>3 DEF EventsOk
  <2> HIDE DEF b, e
  <2>5. Informed(a, s, Heeds(b, e))
    BY <2>2, <2>4, HeedsInformed
  <2> QED BY <2>1, <2>5
<1> HIDE DEF S
<1>7. Nat \subseteq S
  BY <1>5, <1>6, Counting
<1> QED BY <1>1, <1>3, <1>7 DEF S

(* process_persistence, the outcomes of saves. *)
LEMMA DrainSound == CatalogInv /\ Drain => Sound
<1> SUFFICES ASSUME CatalogInv, Drain PROVE Sound
  OBVIOUS
<1> DEFINE none == << >>
<1>1. /\ up /\ up' = TRUE /\ UNCHANGED <<web, legacy, edits>> /\ ~Loading /\ store.events # << >>
      /\ app' = HeedsAll(app, store.events)
  BY DEF Drain, CatalogInv
<1>2. store' = [store EXCEPT !.events = none] /\ none \in Seq([kind : Kinds, generation : Nat]) /\ DOMAIN none = {}
  BY DEF Drain
<1> HIDE DEF none
<1>3. /\ edits \in Nat /\ PairOk(app, store) /\ StoreOk(store, edits) /\ AsAsked(app, store)
      /\ WritesOk(app, store) /\ AppOk(app, edits)
  BY <1>1 DEF CatalogInv, PairOk
<1>4. app.ready /\ EventsOk(app, store)
  <2>1. ~Unloaded(app, store)
    BY <1>1 DEF Unloaded, Loading, Heard, Event
  <2> QED BY <1>3, <2>1 DEF PairOk
<1>5. Informed(app, store, app')
  BY <1>1, <1>3, <1>4, HeedsAllInformed
<1>6. /\ store'.events = none /\ store'.writes = store.writes /\ store'.surviving = store.surviving
      /\ store'.generation = store.generation /\ store'.disk = store.disk
      /\ StoreOk(store', edits)
  BY <1>2, <1>3 DEF StoreOk
<1>7. AppOk(app', edits) /\ app'.ready
  BY <1>4, <1>5 DEF Informed
<1>8. AsAsked(app', store')
  BY <1>3, <1>5, <1>6 DEF AsAsked, Informed, Landed
<1>9. WritesOk(app', store')
  BY <1>3, <1>5, <1>6 DEF WritesOk, Informed
<1>10. EventsOk(app', store')
  BY <1>2, <1>6 DEF EventsOk
<1>11. PairOk(app', store')
  BY <1>6, <1>7, <1>8, <1>9, <1>10 DEF PairOk
<1>12. KeyedFrom(store, store', app.secret)
  BY <1>6 DEF KeyedFrom, FindableIn
<1>13. Kept(app, app', {})
  <2>1. Kept(app, app, {})
    BY <1>3, KeptItself
  <2> QED BY <1>5, <2>1 DEF Kept, Content, Informed
<1> QED BY <1>1, <1>11, <1>12, <1>13, StoreSound

-----------------------------------------------------------------------------

(* The program is not running at first. *)
LEMMA CatalogInit == Init => CatalogInv
<1> SUFFICES ASSUME Init PROVE CatalogInv
  OBVIOUS
<1> DEFINE none == << >>
<1>1. /\ web \in BOOLEAN /\ up = FALSE /\ edits = 0 /\ legacy \in Secret \cup {NoSecret}
  BY DEF Init
<1>2. PICK found \in Found :
        store = [disk |-> found, surviving |-> {found}, writes |-> none,
                 events |-> none, generation |-> 0, failures |-> 0]
  BY DEF Init
<1>3. found \in CatalogsUpTo(0) \cup {NoCatalog}
  <2>1. SavedUpTo(0) = UNION {[I -> {0}] : I \in SUBSET Id}
    <3>1. 0..0 = {0}
      OBVIOUS
    <3> QED BY <3>1 DEF SavedUpTo
  <2> QED BY <2>1, CatalogAssumption DEF Catalogs, CatalogsUpTo
<1>4. none \in Seq([generation : Nat, catalog : CatalogsUpTo(0) \cup {NoCatalog}])
  OBVIOUS
<1>5. none \in Seq([kind : Kinds, generation : Nat]) /\ none = << >>
  OBVIOUS
<1> HIDE DEF none
<1>6. StoreOk(store, 0)
  BY <1>2, <1>3, <1>4, <1>5 DEF StoreOk
<1> QED BY <1>1, <1>2, <1>5, <1>6 DEF CatalogInv, DownOk

(* Every step does what it owes. *)
LEMMA StepIsSound == CatalogInv /\ Next => Sound
<1> SUFFICES ASSUME CatalogInv, Next PROVE Sound
  OBVIOUS
<1>1. CASE User
  BY <1>1, EditSound, StartFreshSound, SwitchSound, CreateSound, DuplicateSound, ImportSound,
     DeleteSound, ImportKeySound DEF User
<1> QED BY <1>1, StartSound, LoadSound, DrainSound, AutosaveSound, SaveStateSound, ExitSound,
           CrashSound, PowerLossSound, CommitSound, AbortSound DEF Next

(* A stuttering step keeps the invariant. *)
LEMMA StutterKeeps == CatalogInv /\ UNCHANGED vars => CatalogInv'
BY DEF vars, CatalogInv, PairOk, DownOk, AppOk, StoreOk, AsAsked, WritesOk, EventsOk, Unloaded, Landed, Opens, Ids, Event

(* A durable save that the program believes in is on the device, in every
   state: the inductive invariant, by one lemma for each action. *)
THEOREM CatalogInvariant == Spec => []CatalogInv
<1>1. CatalogInv /\ [Next]_vars => CatalogInv'
  BY StepIsSound, StutterKeeps DEF Sound
<1> QED BY <1>1, CatalogInit, PTL DEF Spec

(* Whenever the program shows all changes as saved (persistence_is_durable, and
   the catalog unchanged since), the catalog on the device is the program's own:
   no save that failed, was overtaken or belongs to an earlier request counts. *)
THEOREM CleanIsSaved == Spec => []CleanIsOnDisk
<1>1. CatalogInv => CleanIsOnDisk
  BY DEF CatalogInv, PairOk, AsAsked, Landed, CleanIsOnDisk
<1> QED BY <1>1, CatalogInvariant, PTL

(* The key in use, once stored for good in eframe's copy or in the catalog, stays
   stored through saves that fail, crashes, power losses and restarts: save
   erases eframe's copy only when a catalog with the key has landed. *)
THEOREM KeyIsKept == Spec => KeyStaysStored
<1>1. CatalogInv /\ [Next]_vars =>
        [ReadForGood /\ app'.secret = app.secret /\ Stored(app.secret) => Stored(app.secret)']_vars
  BY StepIsSound DEF Sound, KeyStep
<1> QED BY <1>1, CatalogInvariant, PTL DEF Spec, KeyStaysStored

(* While the program runs, no step loses a workspace the user has not deleted or
   takes back an edit of it, whichever workspaces are switched to, made,
   duplicated, imported or deleted, and whether or not the saves in between
   succeed. *)
THEOREM OpenIsKept == Spec => NothingOpenIsLost
<1>1. CatalogInv /\ [Next]_vars =>
        [up /\ up' /\ app.ready =>
           \A id \in Ids(app.catalog) \ deleted' :
             id \in Ids(app'.catalog) /\ Content(app, id) <= Content(app', id)]_vars
  BY StepIsSound DEF Sound, OpenStep
<1> QED BY <1>1, CatalogInvariant, PTL DEF Spec, NothingOpenIsLost
=============================================================================
