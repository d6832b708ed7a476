------------------------------ MODULE Archives -------------------------------
(***************************************************************************)
(* The archives of packages: the storage service (pkg/storagesvc), the     *)
(* commands and builders that upload an archive and then write its URL     *)
(* into a package, spec apply, which uses an archive again when some       *)
(* package has one with the same checksum, and the pruner, which removes   *)
(* archives that no package names and that are older than a minute.        *)
(***************************************************************************)
EXTENDS Integers, FiniteSets

CONSTANTS Packages,   \* names of packages
          Clients,    \* commands and builders that run at the same time
          Sums,       \* checksums of the files they have
          MaxUploads, \* archives uploaded in a behaviour
          MaxWrites,  \* commands that write or delete a package
          MaxFaults   \* calls that fail

ASSUME ArchivesAssumption ==
  /\ Sums # {}
  /\ MaxUploads \in Nat /\ MaxWrites \in Nat /\ MaxFaults \in Nat

VARIABLES
  packages,    \* source and deployment archive of every package
  storage,     \* IDs of the files in the container
  uploads,     \* the last ID; every upload has a new one
  sum,         \* checksum of every archive uploaded
  old,         \* archives that are more than a minute old
  clients,     \* what every client does
  pruner,      \* where the pruner is
  referenced,  \* archives that the pruner found in packages
  orphans,     \* archives that it will remove
  writes,      \* commands started so far
  faults,      \* failures so far
  interrupted  \* archives that a package named and then none did

storeVars == <<storage, uploads, sum, old>>
prunerVars == <<pruner, referenced, orphans>>
boundVars == <<writes, faults>>
vars == <<packages, storeVars, clients, prunerVars, boundVars, interrupted>>

Ids == 1 .. MaxUploads

\* An archive of a package: none, one that is not in the storage (its bytes are
\* in the package itself, or its URL is of another server), or an ID.
NoArchive == -1
Elsewhere == 0
Refs == {NoArchive, Elsewhere} \union Ids

Fields == {"source", "deployment"}
Idle == [pc |-> "idle"]

\* A client that has an archive and will write it into a package.
Writing(ref, p, f, new) ==
  [pc |-> "write", ref |-> ref, package |-> p, field |-> f, uploaded |-> new]

\* spec apply has seen the archives that packages name, with this checksum.
Listed(k, p, f, found) ==
  [pc |-> "listed", sum |-> k, package |-> p, field |-> f, available |-> found]

ClientStates ==
  {Idle}
  \union [pc : {"write"}, ref : Refs, package : Packages, field : Fields, uploaded : BOOLEAN]
  \union [pc : {"listed"}, sum : Sums, package : Packages, field : Fields,
          available : SUBSET Ids]

\* Types of the variables.
TypeOK ==
  /\ packages \in [Packages -> [Fields -> Refs]]
  /\ storage \in SUBSET Ids /\ uploads \in 0 .. MaxUploads
  /\ sum \in [Ids -> Sums] /\ old \in SUBSET Ids
  /\ clients \in [Clients -> ClientStates]
  /\ pruner \in {"sleep", "packages", "storage", "remove"}
  /\ referenced \in SUBSET Ids /\ orphans \in SUBSET Ids
  /\ writes \in 0 .. MaxWrites /\ faults \in 0 .. MaxFaults
  /\ interrupted \in SUBSET Ids

Init ==
  /\ packages = [p \in Packages |-> [f \in Fields |-> NoArchive]]
  /\ storage = {} /\ uploads = 0 /\ sum = [i \in Ids |-> CHOOSE k \in Sums : TRUE]
  /\ old = {}
  /\ clients = [c \in Clients |-> Idle]
  /\ pruner = "sleep" /\ referenced = {} /\ orphans = {}
  /\ writes = 0 /\ faults = 0 /\ interrupted = {}

Named(ps) == {ps[p][f] : p \in Packages, f \in Fields} \intersect Ids

Fault == faults < MaxFaults /\ faults' = faults + 1

------------------------------------------------------------------------------
\* uploadHandler and putFile: the file is stored under a new ID.
PutFile(k) ==
  /\ uploads < MaxUploads /\ uploads' = uploads + 1
  /\ storage' = storage \union {uploads + 1}
  /\ sum' = [sum EXCEPT ![uploads + 1] = k]
  /\ UNCHANGED old

\* UploadArchiveFile: a client goes on with the archive, or fails after the file
\* was stored.
Upload(c, k, p, f) ==
  /\ PutFile(k)
  /\ \/ clients' = [clients EXCEPT ![c] = Writing(uploads + 1, p, f, TRUE)]
        /\ UNCHANGED faults
     \/ clients' = [clients EXCEPT ![c] = Idle] /\ Fault

Begin(c) == clients[c] = Idle /\ writes < MaxWrites /\ writes' = writes + 1

\* UploadHandler of the fetcher: a builder uploads what it has built.
UploadHandler(c) ==
  /\ Begin(c)
  /\ \E k \in Sums, p \in Packages : Upload(c, k, p, "deployment")
  /\ UNCHANGED <<packages, prunerVars, interrupted>>

\* A command makes an archive of a file and uploads it.
CreateArchive(c) ==
  /\ Begin(c)
  /\ \E k \in Sums, p \in Packages, f \in Fields : Upload(c, k, p, f)
  /\ UNCHANGED <<packages, prunerVars, interrupted>>

\* A small file is kept in the package, a URL is taken as it is.
CreateWithout(c) ==
  /\ Begin(c)
  /\ \E p \in Packages, f \in Fields :
       clients' = [clients EXCEPT ![c] = Writing(Elsewhere, p, f, FALSE)]
  /\ UNCHANGED <<packages, storeVars, prunerVars, faults, interrupted>>

\* applyArchives lists the packages: the archives with the file's checksum.
Available(k) == {i \in Named(packages) : sum[i] = k}

ApplyList(c) ==
  /\ Begin(c)
  /\ \E k \in Sums, p \in Packages, f \in Fields :
       clients' = [clients EXCEPT ![c] = Listed(k, p, f, Available(k))]
  /\ UNCHANGED <<packages, storeVars, prunerVars, faults, interrupted>>

\* applyArchives uploads what it did not find, and uses again what it found.
ApplyArchive(c) ==
  /\ clients[c].pc = "listed"
  /\ LET l == clients[c] IN
     IF l.available = {} THEN Upload(c, l.sum, l.package, l.field)
     ELSE /\ \E i \in l.available :
               clients' = [clients EXCEPT ![c] = Writing(i, l.package, l.field, FALSE)]
          /\ UNCHANGED <<storeVars, faults>>
  /\ UNCHANGED <<packages, prunerVars, writes, interrupted>>

\* A package now is as in new.
Write(new) ==
  /\ packages' = new
  /\ interrupted' = interrupted \union (Named(packages) \ Named(new))

\* The client creates or updates the package; it may fail, and what was
\* uploaded for it stays in the storage.
WritePackage(c) ==
  /\ clients[c].pc = "write"
  /\ clients' = [clients EXCEPT ![c] = Idle]
  /\ LET w == clients[c] IN
     \/ Write([packages EXCEPT ![w.package][w.field] = w.ref]) /\ UNCHANGED faults
     \/ Fault /\ UNCHANGED <<packages, interrupted>>
  /\ UNCHANGED <<storeVars, prunerVars, writes>>

\* A package is deleted; its archives stay.
DeletePackage ==
  /\ writes < MaxWrites /\ writes' = writes + 1
  /\ \E p \in Packages :
       /\ \E f \in Fields : packages[p][f] # NoArchive
       /\ Write([packages EXCEPT ![p] = [f \in Fields |-> NoArchive]])
  /\ UNCHANGED <<storeVars, clients, prunerVars, faults>>

------------------------------------------------------------------------------
\* The ticker starts getOrphanArchives.
Wake ==
  /\ pruner = "sleep" /\ pruner' = "packages"
  /\ UNCHANGED <<packages, storeVars, clients, referenced, orphans, boundVars, interrupted>>

\* Mutant: the list of a round is not emptied before the next.
ReferencedSoFar(ps) == Named(ps) \union referenced

\* The archives named by the listed packages.  (A URL of another server has no
\* id, and the empty string is the ID of no archive.)
ReferencedBy(ps) == Named(ps)

\* The packages are listed; on an error the round ends.
ListPackages ==
  /\ pruner = "packages"
  /\ \/ pruner' = "storage" /\ referenced' = ReferencedBy(packages) /\ UNCHANGED faults
     \/ pruner' = "sleep" /\ UNCHANGED referenced /\ Fault
  /\ UNCHANGED <<packages, storeVars, clients, orphans, writes, interrupted>>

\* Mutant: new archives are not left out.
CandidatesAll == storage

\* getItemIDsWithFilter with filterItemCreatedAMinuteAgo.
Candidates == storage \intersect old

\* The archives are listed; the orphans are those that are old and not named.
ListStorage ==
  /\ pruner = "storage"
  /\ \/ pruner' = "remove" /\ orphans' = Candidates \ referenced /\ UNCHANGED faults
     \/ pruner' = "sleep" /\ UNCHANGED orphans /\ Fault
  /\ UNCHANGED <<packages, storeVars, clients, referenced, writes, interrupted>>

\* pruneArchives removes one archive after the other, and goes on after errors.
Remove ==
  /\ pruner = "remove"
  /\ \E i \in orphans :
       /\ \/ storage' = storage \ {i} /\ UNCHANGED faults
          \/ Fault /\ UNCHANGED storage
       /\ orphans' = orphans \ {i}
  /\ UNCHANGED <<packages, uploads, sum, old, clients, pruner, referenced, writes, interrupted>>

Sleep ==
  /\ pruner = "remove" /\ orphans = {} /\ pruner' = "sleep"
  /\ UNCHANGED <<packages, storeVars, clients, referenced, orphans, boundVars, interrupted>>

\* An archive becomes a minute old.  That does not happen while the client that
\* uploaded it has still to write its package, nor between the two lists of the
\* pruner if the package was written after the first.
Age ==
  /\ \E i \in storage \ old :
       /\ \A c \in Clients : ~(clients[c].pc = "write" /\ clients[c].ref = i
                               /\ clients[c].uploaded)
       /\ ~(pruner = "storage" /\ i \notin referenced)
       /\ old' = old \union {i}
  /\ UNCHANGED <<packages, storage, uploads, sum, clients, prunerVars, boundVars, interrupted>>

PrunerStep == Wake \/ ListPackages \/ ListStorage \/ Remove \/ Sleep
ClientStep(c) == ApplyArchive(c) \/ WritePackage(c)

Next ==
  \/ \E c \in Clients :
       \/ CreateArchive(c) \/ CreateWithout(c) \/ UploadHandler(c)
       \/ ApplyList(c) \/ ClientStep(c)
  \/ DeletePackage \/ PrunerStep \/ Age

\* The pruner's goroutines run on, commands end, and archives grow old.
Fairness ==
  /\ WF_vars(PrunerStep) /\ SF_vars(Age)
  /\ \A c \in Clients : WF_vars(ClientStep(c))

Spec == Init /\ [][Next]_vars /\ Fairness

------------------------------------------------------------------------------
\* An archive that some package has named ever since it was written is in the
\* storage: whatever the order of uploads, writes, and the two lists of
\* getOrphanArchives, the pruner does not remove it.  (One that no package named
\* for a while may be named again by applyArchives when it is already doomed.)
ReferencedKept == Named(packages) \subseteq storage \union interrupted

\* No archives but those that packages name: none of uploads whose command
\* failed, none of packages that were changed or deleted.
NoOrphans == storage \subseteq Named(packages)
==============================================================================
