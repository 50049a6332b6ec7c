--------------------------- MODULE SwiftMigration ---------------------------
(***************************************************************************)
(* The import as the application makes it: what apply() is given is what   *)
(* prepare() made of a package it accepted, and fingerprints tell packages *)
(* apart.                                                                  *)
(***************************************************************************)
EXTENDS SwiftPackage, SwiftImport

CONSTANT Raw    \* Raw[n]: the decoded package of the name n

Names == {b[c] : b \in Offers, c \in Clients}

\* The decoded records have the fields of the wire format.
IsWord(w) == w = [id |-> w.id, upper |-> w.upper]
IsProject(q) ==
    /\ q = [source |-> q.source, legacy |-> q.legacy, slug |-> q.slug]
    /\ IsWord(q.source) /\ IsWord(q.legacy)
IsAlias(a) ==
    /\ a = [slug |-> a.slug, project |-> a.project, status |-> a.status, retired |-> a.retired]
    /\ IsWord(a.project)
IsMemory(m) ==
    /\ m = [source |-> m.source, project |-> m.project, alias |-> m.alias,
            visibility |-> m.visibility, trust |-> m.trust, into |-> m.into,
            omitted |-> m.omitted]
    /\ IsWord(m.source) /\ IsWord(m.project) /\ IsWord(m.into)
IsEdge(e) ==
    /\ e = [source |-> e.source, from |-> e.from, to |-> e.to, type |-> e.type,
            project |-> e.project, alias |-> e.alias]
    /\ IsWord(e.from) /\ IsWord(e.to) /\ IsWord(e.project)

Listed(s) == s \in Seq({s[i] : i \in DOMAIN s})

IsConversation(c) ==
    /\ c = [store |-> c.store, session |-> c.session, project |-> c.project, kind |-> c.kind,
            runtime |-> c.runtime, last |-> c.last, omitted |-> c.omitted, items |-> c.items,
            fine |-> c.fine]
    /\ IsWord(c.project) /\ Listed(c.items)
IsArchive(a) ==
    Listed(a.conversations) /\ Every(a.conversations, IsConversation) /\ Listed(a.images)

IsPackage(p) ==
    /\ Listed(p.projects) /\ Every(p.projects, IsProject)
    /\ Listed(p.aliases) /\ Every(p.aliases, IsAlias)
    /\ Listed(p.memories) /\ Every(p.memories, IsMemory)
    /\ Listed(p.edges) /\ Every(p.edges, IsEdge)
    /\ Listed(p.archive) /\ Every(p.archive, IsArchive)

\* apply() gets what prepare() returned for an accepted package.
ASSUME PreparedFromAccepted ==
    \A n \in Names : /\ IsPackage(Raw[n]) /\ Accepted(Raw[n])
                     /\ Prepared(n).entities = EntitiesOf(Raw[n])
                     /\ Prepared(n).archive = Raw[n].archive

\* A ledger entry's stored source is hashed by the same function.
ASSUME StoredAsHashed ==
    \A n \in Names : \A i \in DOMAIN Prepared(n).entities :
        LET e == Prepared(n).entities[i]
        IN  StoredHash(e.kind, e.source) = SourceHash(e.kind, e.source)

\* Two packages have one batch fingerprint exactly when they say the same.
ASSUME FingerprintsTell ==
    \A m, n \in Names :
        /\ Prepared(m).fp = Prepared(n).fp
             <=> BatchFingerprint(Raw[m]) = BatchFingerprint(Raw[n])
        /\ Prepared(m).fp = Prepared(n).fp <=> Prepared(m).says = Prepared(n).says

\* What the application stores of an accepted archive can be inspected again,
\* each row alone and all of them in any order, with the fingerprints the
\* batch has bound: an import is never followed by an archive its own
\* validators refuse.
ArchivesInspect ==
    \A c \in Clients :
        \A i \in DOMAIN Package(c).archive : ArchiveInspects(Package(c).archive[i])

(***************************************************************************)
(* The inductive invariant                                                 *)
(***************************************************************************)

BatchOf(c) == [id |-> c, fp |-> Package(c).fp, of |-> brought[c]]

\* What c's transaction sees before it inserts entity k.
Partial(c, k) ==
    LET entities == Package(c).entities
        done == {i \in DOMAIN entities : i < k}
    IN  [batch |-> BatchOf(c), history |-> FALSE,
         ledger |-> {Entry(entities[i], c) : i \in done},
         rows |-> {entities[i].row : i \in done}]

Foreign(r) == r = Alien \/ r.data = Overwritten

\* The file holds one client's whole import or none, of which others may have
\* taken ledger entries, and to whose rows they may have added foreign ones.
FileSound ==
    /\ file = [batch |-> file.batch, ledger |-> file.ledger, rows |-> file.rows,
               history |-> file.history]
    /\ file.history \in BOOLEAN
    /\ file.batch = NoBatch \/ \E c \in Clients : file.batch = BatchOf(c)
    /\ IsFiniteSet(file.rows)
    /\ file.ledger \subseteq Pristine(file.batch).ledger
    /\ file.rows = Pristine(file.batch).rows \/ \E r \in file.rows : Foreign(r)

Touched == file # Pristine(file.batch)
Held == IF file.batch = NoBatch THEN Nothing ELSE Prepared(file.batch.of).says

\* The closure's result, once it has one, is a receipt that is backed by the
\* file or an error that still is one.
ResultSound(c) ==
    LET r == outcome[c]
    IN  /\ r = [ok |-> r.ok, what |-> r.what, batch |-> r.batch]
        /\ r.ok \in BOOLEAN
        /\ r.ok => r.what \in {"created", "already"}
        /\ ~r.ok => r.what \in {"database", "conflict", "history"}
        /\ r.what = "conflict" => Touched \/ Held \notin {Nothing, Package(c).says}
        /\ r.what = "history" => file.history

\* What c's transaction sees is the file, its own import so far, or the whole
\* of it.
ViewSound(c) ==
    /\ stage[c] = "inspect" => view[c] = file
    /\ stage[c] = "insert" =>
          /\ file = Empty /\ next[c] \in 1 .. Len(Package(c).entities) + 1
          /\ view[c] = Partial(c, next[c])
    /\ stage[c] = "commit" =>
          /\ outcome[c].ok
          /\ \/ outcome[c].what = "already" /\ view[c] = file
             \/ outcome[c].what = "created" /\ file = Empty /\ view[c] = Pristine(BatchOf(c))

CallSound(c) ==
    /\ stage[c] \in {"inspect", "insert", "commit"} => writer = c
    /\ stage[c] \in {"begin", "readback"} => open[c] = "no"
    /\ stage[c] = "clean" => open[c] # "read"
    /\ told[c] = "pending" <=> stage[c] # "idle"
    /\ stage[c] \in {"begin", "inspect", "insert", "commit"} => ~landed[c]
    /\ stage[c] \in {"clean", "readback"} /\ outcome[c].what = "created" => landed[c]

Typed ==
    /\ brought \in Offers
    /\ view = [c \in Clients |-> view[c]]
    /\ outcome = [c \in Clients |-> outcome[c]]
    /\ TypeOK

IInv ==
    /\ Typed
    /\ FileSound
    /\ \A c \in Clients : ResultSound(c) /\ ViewSound(c) /\ CallSound(c)
=============================================================================
