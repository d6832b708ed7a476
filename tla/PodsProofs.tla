----------------------------- MODULE PodsProofs -----------------------------
(***************************************************************************)
(* What a pod needs to serve its function, for every size of the cluster:  *)
(* its archive is kept, its account keeps its grants, and what it loads is *)
(* whole.                                                                  *)
(***************************************************************************)
EXTENDS Archives, RoleBindings, Fetcher, FiniteSetTheorems, TLAPS

-----------------------------------------------------------------------------
(* The archives: no archive that a package names is pruned, for any number *)
(* of packages, clients, uploads and failing calls.                        *)

\* Archives that some package names or has named.
EverNamed == Named(packages) \union interrupted

\* Only what was uploaded grows old, and only what is old is an orphan.
AgesOK ==
  /\ storage \subseteq 1 .. uploads /\ old \subseteq 1 .. uploads
  /\ orphans \subseteq old

\* What a client has just uploaded is in the storage and is new.
UploadOK(c) ==
  clients[c].pc = "write" /\ clients[c].uploaded =>
    clients[c].ref \in Ids /\ clients[c].ref \in storage \ old

\* What a client uses again was named when it was listed.
ReuseOK(c) ==
  /\ clients[c].pc = "write" /\ ~clients[c].uploaded /\ clients[c].ref \in Ids =>
       clients[c].ref \in EverNamed
  /\ clients[c].pc = "listed" => clients[c].available \subseteq EverNamed

\* An old archive that is named when the storage is listed was in the list of
\* packages.
ListCovers ==
  pruner = "storage" => Named(packages) \intersect old \subseteq referenced \union interrupted

\* An archive that is about to be removed and is named was not named for a while.
DoomedWasFree == orphans \intersect Named(packages) \subseteq interrupted

ArchivesInv ==
  /\ TypeOK /\ AgesOK
  /\ \A c \in Clients : UploadOK(c) /\ ReuseOK(c)
  /\ ListCovers /\ DoomedWasFree /\ ReferencedKept

------------------------------------------------------------------------------
\* Types.

LEMMA IdleState == Idle \in ClientStates
BY DEF ClientStates

LEMMA WritingState ==
  ASSUME NEW ref \in Refs, NEW p \in Packages, NEW f \in Fields, NEW new \in BOOLEAN
  PROVE  Writing(ref, p, f, new) \in ClientStates
BY DEF ClientStates, Writing

LEMMA ListedState ==
  ASSUME NEW k \in Sums, NEW p \in Packages, NEW f \in Fields, NEW found \in SUBSET Ids
  PROVE  Listed(k, p, f, found) \in ClientStates
BY DEF ClientStates, Listed

LEMMA WriteFields ==
  ASSUME NEW s \in ClientStates, s.pc = "write"
  PROVE  /\ s.ref \in Refs /\ s.package \in Packages /\ s.field \in Fields
         /\ s.uploaded \in BOOLEAN
BY DEF ClientStates, Idle

LEMMA ListFields ==
  ASSUME NEW s \in ClientStates, s.pc = "listed"
  PROVE  /\ s.sum \in Sums /\ s.package \in Packages /\ s.field \in Fields
         /\ s.available \in SUBSET Ids
BY DEF ClientStates, Idle

\* An upload, whichever client makes it: the file is new, and the client goes on
\* with it or has failed.
LEMMA UploadFacts ==
  ASSUME TypeOK, NEW c \in Clients, NEW k \in Sums, NEW p \in Packages, NEW f \in Fields,
         Upload(c, k, p, f)
  PROVE  /\ uploads + 1 \in Ids /\ uploads' = uploads + 1 /\ uploads' \in 0 .. MaxUploads
         /\ storage' = storage \union {uploads + 1} /\ storage' \in SUBSET Ids
         /\ sum' \in [Ids -> Sums] /\ old' = old
         /\ faults' \in 0 .. MaxFaults
         /\ \E s \in {Idle, Writing(uploads + 1, p, f, TRUE)} :
               s \in ClientStates /\ clients' = [clients EXCEPT ![c] = s]
<1>1. uploads + 1 \in Ids /\ uploads' = uploads + 1 /\ uploads' \in 0 .. MaxUploads
  BY ArchivesAssumption DEF TypeOK, Upload, PutFile, Ids
<1>2. storage' = storage \union {uploads + 1} /\ old' = old
  BY DEF Upload, PutFile
<1>3. sum' \in [Ids -> Sums]
  BY <1>1 DEF TypeOK, Upload, PutFile
<1>4. faults' \in 0 .. MaxFaults
  <2>1. UNCHANGED faults \/ Fault
    BY DEF Upload
  <2> QED BY <2>1, ArchivesAssumption DEF TypeOK, Fault
<1>5. Writing(uploads + 1, p, f, TRUE) \in ClientStates
  BY <1>1, WritingState DEF Refs
<1>6. \E s \in {Idle, Writing(uploads + 1, p, f, TRUE)} :
         s \in ClientStates /\ clients' = [clients EXCEPT ![c] = s]
  BY <1>5, IdleState DEF Upload
<1> QED BY <1>1, <1>2, <1>3, <1>4, <1>6 DEF TypeOK

LEMMA NamedType ==
  ASSUME NEW ps
  PROVE  Named(ps) \subseteq Ids
BY DEF Named

LEMMA BeginType ==
  ASSUME TypeOK, NEW c \in Clients, Begin(c)
  PROVE  writes' \in 0 .. MaxWrites
BY ArchivesAssumption DEF TypeOK, Begin

LEMMA ClientType ==
  ASSUME TypeOK, NEW c \in Clients, NEW s \in ClientStates,
         clients' = [clients EXCEPT ![c] = s]
  PROVE  clients' \in [Clients -> ClientStates]
BY DEF TypeOK

LEMMA WriteType ==
  ASSUME TypeOK, NEW new \in [Packages -> [Fields -> Refs]], Write(new)
  PROVE  packages' \in [Packages -> [Fields -> Refs]] /\ interrupted' \in SUBSET Ids
BY NamedType DEF TypeOK, Write

LEMMA TypeStep ==
  ASSUME TypeOK, [Next]_vars
  PROVE  TypeOK'
<1>1. ASSUME NEW c \in Clients, CreateArchive(c) PROVE TypeOK'
  <2>1. PICK k \in Sums, p \in Packages, f \in Fields : Upload(c, k, p, f)
    BY <1>1 DEF CreateArchive
  <2>2. clients' \in [Clients -> ClientStates]
    BY <2>1, UploadFacts, ClientType
  <2> QED BY <1>1, <2>1, <2>2, UploadFacts, BeginType DEF CreateArchive, TypeOK, prunerVars
<1>2. ASSUME NEW c \in Clients, UploadHandler(c) PROVE TypeOK'
  <2>1. PICK k \in Sums, p \in Packages : Upload(c, k, p, "deployment")
    BY <1>2 DEF UploadHandler
  <2>2. "deployment" \in Fields
    BY DEF Fields
  <2>3. clients' \in [Clients -> ClientStates]
    BY <2>1, <2>2, UploadFacts, ClientType
  <2> QED BY <1>2, <2>1, <2>2, <2>3, UploadFacts, BeginType DEF UploadHandler, TypeOK, prunerVars
<1>3. ASSUME NEW c \in Clients, CreateWithout(c) PROVE TypeOK'
  <2>1. PICK p \in Packages, f \in Fields :
           clients' = [clients EXCEPT ![c] = Writing(Elsewhere, p, f, FALSE)]
    BY <1>3 DEF CreateWithout
  <2>2. Writing(Elsewhere, p, f, FALSE) \in ClientStates
    BY WritingState DEF Refs
  <2>3. clients' \in [Clients -> ClientStates]
    BY <2>1, <2>2, ClientType
  <2> QED BY <1>3, <2>3, BeginType DEF CreateWithout, TypeOK, storeVars, prunerVars
<1>4. ASSUME NEW c \in Clients, ApplyList(c) PROVE TypeOK'
  <2>1. PICK k \in Sums, p \in Packages, f \in Fields :
           clients' = [clients EXCEPT ![c] = Listed(k, p, f, Available(k))]
    BY <1>4 DEF ApplyList
  <2>2. Listed(k, p, f, Available(k)) \in ClientStates
    BY ListedState, NamedType DEF Available
  <2>3. clients' \in [Clients -> ClientStates]
    BY <2>1, <2>2, ClientType
  <2> QED BY <1>4, <2>3, BeginType DEF ApplyList, TypeOK, storeVars, prunerVars
<1>5. ASSUME NEW c \in Clients, ApplyArchive(c) PROVE TypeOK'
  <2> DEFINE l == clients[c]
  <2>1. l \in ClientStates /\ l.pc = "listed"
    BY <1>5 DEF ApplyArchive, TypeOK
  <2>2. /\ l.sum \in Sums /\ l.package \in Packages /\ l.field \in Fields
        /\ l.available \in SUBSET Ids
    BY <2>1, ListFields
  <2>3. CASE l.available = {}
    <3>1. Upload(c, l.sum, l.package, l.field)
      BY <1>5, <2>3 DEF ApplyArchive
    <3>2. clients' \in [Clients -> ClientStates]
      BY <2>2, <3>1, UploadFacts, ClientType
    <3> QED BY <1>5, <2>2, <3>1, <3>2, UploadFacts DEF ApplyArchive, TypeOK, prunerVars
  <2>4. CASE l.available # {}
    <3>1. PICK i \in l.available :
             clients' = [clients EXCEPT ![c] = Writing(i, l.package, l.field, FALSE)]
      BY <1>5, <2>4 DEF ApplyArchive
    <3>2. Writing(i, l.package, l.field, FALSE) \in ClientStates
      BY <2>2, WritingState DEF Refs
    <3>3. clients' \in [Clients -> ClientStates]
      BY <3>1, <3>2, ClientType
    <3> QED BY <1>5, <2>4, <3>3 DEF ApplyArchive, TypeOK, storeVars, prunerVars
  <2> QED BY <2>3, <2>4
<1>6. ASSUME NEW c \in Clients, WritePackage(c) PROVE TypeOK'
  <2> DEFINE w == clients[c]
             new == [packages EXCEPT ![w.package][w.field] = w.ref]
  <2>1. w \in ClientStates /\ w.pc = "write"
    BY <1>6 DEF WritePackage, TypeOK
  <2>2. w.ref \in Refs /\ w.package \in Packages /\ w.field \in Fields
    BY <2>1, WriteFields
  <2>3. new \in [Packages -> [Fields -> Refs]]
    BY <2>2 DEF TypeOK
  <2>4. clients' \in [Clients -> ClientStates]
    BY <1>6, IdleState, ClientType DEF WritePackage
  <2>5. /\ packages' \in [Packages -> [Fields -> Refs]] /\ interrupted' \in SUBSET Ids
        /\ faults' \in 0 .. MaxFaults
    <3>1. CASE Write(new) /\ UNCHANGED faults
      BY <2>3, <3>1, WriteType DEF TypeOK
    <3>2. CASE Fault /\ UNCHANGED <<packages, interrupted>>
      BY <3>2, ArchivesAssumption DEF Fault, TypeOK
    <3> QED BY <1>6, <3>1, <3>2 DEF WritePackage
  <2> QED BY <1>6, <2>4, <2>5 DEF WritePackage, TypeOK, storeVars, prunerVars
<1>7. ASSUME DeletePackage PROVE TypeOK'
  <2>1. PICK p \in Packages : Write([packages EXCEPT ![p] = [f \in Fields |-> NoArchive]])
    BY <1>7 DEF DeletePackage
  <2>2. [packages EXCEPT ![p] = [f \in Fields |-> NoArchive]] \in [Packages -> [Fields -> Refs]]
    BY DEF TypeOK, Refs
  <2>3. writes' \in 0 .. MaxWrites
    BY <1>7, ArchivesAssumption DEF DeletePackage, TypeOK
  <2> QED BY <1>7, <2>1, <2>2, <2>3, WriteType DEF DeletePackage, TypeOK, storeVars, prunerVars
<1>8. ASSUME PrunerStep PROVE TypeOK'
  <2>1. CASE Wake
    BY <2>1 DEF Wake, TypeOK, storeVars, boundVars
  <2>2. CASE ListPackages
    <3>1. ReferencedBy(packages) \in SUBSET Ids
      BY NamedType DEF ReferencedBy
    <3> QED BY <2>2, <3>1, ArchivesAssumption DEF ListPackages, TypeOK, storeVars, Fault
  <2>3. CASE ListStorage
    BY <2>3, ArchivesAssumption DEF ListStorage, TypeOK, storeVars, Fault, Candidates
  <2>4. CASE Remove
    BY <2>4, ArchivesAssumption DEF Remove, TypeOK, Fault
  <2>5. CASE Sleep
    BY <2>5 DEF Sleep, TypeOK, storeVars, boundVars
  <2> QED BY <1>8, <2>1, <2>2, <2>3, <2>4, <2>5 DEF PrunerStep
<1>9. ASSUME Age PROVE TypeOK'
  BY <1>9 DEF Age, TypeOK, prunerVars, boundVars
<1>10. ASSUME UNCHANGED vars PROVE TypeOK'
  BY <1>10 DEF TypeOK, vars, storeVars, prunerVars, boundVars
<1> QED BY <1>1, <1>2, <1>3, <1>4, <1>5, <1>6, <1>7, <1>8, <1>9, <1>10 DEF Next, ClientStep
------------------------------------------------------------------------------
\* What the steps leave alone.

Safe == ListCovers /\ DoomedWasFree /\ ReferencedKept

LEMMA ClientMoves ==
  ASSUME TypeOK, NEW c \in Clients, NEW s, clients' = [clients EXCEPT ![c] = s]
  PROVE  /\ clients'[c] = s
         /\ \A d \in Clients \ {c} : clients'[d] = clients[d]
BY DEF TypeOK

LEMMA UploadKept ==
  ASSUME NEW d \in Clients, UploadOK(d), clients'[d] = clients[d],
         storage \ old \subseteq storage' \ old'
  PROVE  UploadOK(d)'
BY DEF UploadOK

LEMMA ReuseKept ==
  ASSUME NEW d \in Clients, ReuseOK(d), clients'[d] = clients[d],
         EverNamed \subseteq EverNamed'
  PROVE  ReuseOK(d)'
BY DEF ReuseOK

LEMMA SafeKept ==
  ASSUME Safe, UNCHANGED <<packages, old, prunerVars, interrupted>>, storage \subseteq storage'
  PROVE  Safe'
BY DEF Safe, ListCovers, DoomedWasFree, ReferencedKept, Named, prunerVars

\* Clients that have nothing yet, or an archive that is not in the storage.
LEMMA IdleOK ==
  ASSUME NEW c \in Clients,
         clients'[c].pc # "listed",
         clients'[c].pc = "write" => ~clients'[c].uploaded /\ clients'[c].ref \notin Ids
  PROVE  UploadOK(c)' /\ ReuseOK(c)'
BY DEF UploadOK, ReuseOK

\* A client that only begins or goes on, with an archive or a list.
LEMMA ClientStepOK ==
  ASSUME ArchivesInv, NEW c \in Clients, NEW s, clients' = [clients EXCEPT ![c] = s],
         UNCHANGED <<packages, old, prunerVars, interrupted>>, storage \subseteq storage',
         TypeOK', AgesOK', UploadOK(c)', ReuseOK(c)'
  PROVE  ArchivesInv'
<1>1. /\ clients'[c] = s
      /\ \A d \in Clients \ {c} : clients'[d] = clients[d]
  BY ClientMoves DEF ArchivesInv
<1>2. EverNamed' = EverNamed
  BY DEF EverNamed, Named
<1>3. \A d \in Clients \ {c} : UploadOK(d)' /\ ReuseOK(d)'
  BY <1>1, <1>2, UploadKept, ReuseKept DEF ArchivesInv
<1>4. Safe'
  BY SafeKept DEF ArchivesInv, Safe
<1> QED BY <1>3, <1>4 DEF ArchivesInv, Safe

LEMMA UploadStepOK ==
  ASSUME ArchivesInv, NEW c \in Clients, NEW k \in Sums, NEW p \in Packages, NEW f \in Fields,
         Upload(c, k, p, f), UNCHANGED <<packages, prunerVars, interrupted>>, TypeOK'
  PROVE  ArchivesInv'
<1>1. TypeOK
  BY DEF ArchivesInv
<1>2. PICK s \in {Idle, Writing(uploads + 1, p, f, TRUE)} : clients' = [clients EXCEPT ![c] = s]
  BY DEF Upload
<1>3. clients'[c] = s
  BY <1>1, <1>2, ClientMoves
<1>4. /\ uploads + 1 \in Ids /\ uploads' = uploads + 1 /\ old' = old
      /\ storage' = storage \union {uploads + 1}
  BY <1>1, UploadFacts
<1>5. uploads \in Int /\ uploads + 1 \notin old
  BY <1>1, ArchivesAssumption DEF ArchivesInv, AgesOK, TypeOK
<1>6. UploadOK(c)' /\ ReuseOK(c)'
  <2>1. CASE s = Idle
    BY <1>3, <2>1 DEF UploadOK, ReuseOK, Idle
  <2>2. CASE s = Writing(uploads + 1, p, f, TRUE)
    BY <1>3, <1>4, <1>5, <2>2 DEF UploadOK, ReuseOK, Writing
  <2> QED BY <2>1, <2>2
<1>7. AgesOK'
  <2>1. orphans' = orphans
    BY DEF prunerVars
  <2>2. uploads \in Nat
    BY <1>1, ArchivesAssumption DEF TypeOK
  <2> QED BY <1>4, <2>1, <2>2 DEF ArchivesInv, AgesOK
<1> QED BY <1>2, <1>4, <1>6, <1>7, ClientStepOK

\* Packages are written: what they name now was named before, or is an archive
\* that a client has just uploaded or has found.
LEMMA WriteOK ==
  ASSUME ArchivesInv, NEW new, Write(new),
         \A i \in Named(new) : i \in EverNamed \/ i \in storage \ old,
         \A c \in Clients : clients'[c] = clients[c] \/ clients'[c] = Idle,
         UNCHANGED <<storeVars, prunerVars>>, TypeOK'
  PROVE  ArchivesInv'
<1>1. /\ packages' = new /\ interrupted' = interrupted \union (Named(packages) \ Named(new))
      /\ Named(packages)' = Named(new)
  BY DEF Write, Named
<1>2. EverNamed \subseteq EverNamed'
  BY <1>1 DEF EverNamed
<1>3. /\ storage' = storage /\ old' = old /\ uploads' = uploads
      /\ pruner' = pruner /\ referenced' = referenced /\ orphans' = orphans
  BY DEF storeVars, prunerVars
<1>4. \A c \in Clients : UploadOK(c)' /\ ReuseOK(c)'
  <2> SUFFICES ASSUME NEW c \in Clients PROVE UploadOK(c)' /\ ReuseOK(c)'
    OBVIOUS
  <2>1. CASE clients'[c] = Idle
    BY <2>1 DEF UploadOK, ReuseOK, Idle
  <2>2. CASE clients'[c] = clients[c]
    BY <1>2, <1>3, <2>2, UploadKept, ReuseKept DEF ArchivesInv
  <2> QED BY <2>1, <2>2
<1>5. AgesOK'
  BY <1>3 DEF ArchivesInv, AgesOK
<1>6. ReferencedKept'
  BY <1>1, <1>3 DEF ArchivesInv, ReferencedKept, EverNamed
<1>7. DoomedWasFree'
  BY <1>1, <1>3 DEF ArchivesInv, AgesOK, DoomedWasFree, EverNamed
<1>8. ListCovers'
  BY <1>1, <1>3 DEF ArchivesInv, ListCovers, EverNamed
<1> QED BY <1>4, <1>5, <1>6, <1>7, <1>8 DEF ArchivesInv

\* What a package names after one of its archives was written.
LEMMA NamedAfterWrite ==
  ASSUME packages \in [Packages -> [Fields -> Refs]],
         NEW p \in Packages, NEW f \in Fields, NEW ref \in Refs
  PROVE  \A i \in Named([packages EXCEPT ![p][f] = ref]) : i \in Named(packages) \/ i = ref
BY DEF Named

LEMMA NamedAfterDelete ==
  ASSUME packages \in [Packages -> [Fields -> Refs]], NEW p \in Packages
  PROVE  \A i \in Named([packages EXCEPT ![p] = [f \in Fields |-> NoArchive]]) :
            i \in Named(packages)
BY DEF Named, Ids, NoArchive
------------------------------------------------------------------------------
\* The steps.

LEMMA ClientPreserves ==
  ASSUME ArchivesInv, TypeOK', NEW c \in Clients,
         \/ CreateArchive(c) \/ CreateWithout(c) \/ UploadHandler(c)
         \/ ApplyList(c) \/ ClientStep(c)
  PROVE  ArchivesInv'
<1>0. TypeOK
  BY DEF ArchivesInv
<1>1. CASE CreateArchive(c)
  BY <1>1, UploadStepOK DEF CreateArchive
<1>2. CASE UploadHandler(c)
  BY <1>2, UploadStepOK DEF UploadHandler, Fields
<1>3. CASE CreateWithout(c)
  <2>1. PICK p \in Packages, f \in Fields :
           clients' = [clients EXCEPT ![c] = Writing(Elsewhere, p, f, FALSE)]
    BY <1>3 DEF CreateWithout
  <2>2. clients'[c] = Writing(Elsewhere, p, f, FALSE)
    BY <1>0, <2>1, ClientMoves
  <2>3. UploadOK(c)' /\ ReuseOK(c)'
    BY <2>2, IdleOK DEF Writing, Elsewhere, Ids
  <2>4. /\ UNCHANGED <<packages, old, prunerVars, interrupted>>
        /\ storage' = storage /\ uploads' = uploads /\ uploads \in Int
    BY <1>0, <1>3, ArchivesAssumption DEF CreateWithout, storeVars, TypeOK
  <2>5. storage \subseteq storage' /\ AgesOK'
    BY <2>4 DEF ArchivesInv, AgesOK, prunerVars
  <2> QED BY <2>1, <2>3, <2>4, <2>5, ClientStepOK
<1>4. CASE ApplyList(c)
  <2>1. PICK k \in Sums, p \in Packages, f \in Fields :
           clients' = [clients EXCEPT ![c] = Listed(k, p, f, Available(k))]
    BY <1>4 DEF ApplyList
  <2>2. clients'[c] = Listed(k, p, f, Available(k))
    BY <1>0, <2>1, ClientMoves
  <2>3. UNCHANGED <<packages, old, prunerVars, interrupted, storage, uploads>>
        /\ uploads \in Int
    BY <1>0, <1>4, ArchivesAssumption DEF ApplyList, storeVars, TypeOK
  <2>4. Available(k) \subseteq EverNamed'
    BY <2>3 DEF Available, EverNamed, Named
  <2>5. UploadOK(c)' /\ ReuseOK(c)'
    BY <2>2, <2>4 DEF UploadOK, ReuseOK, Listed
  <2>6. storage \subseteq storage' /\ AgesOK'
    BY <2>3 DEF ArchivesInv, AgesOK, prunerVars
  <2> QED BY <2>1, <2>3, <2>5, <2>6, ClientStepOK
<1>5. CASE ApplyArchive(c)
  <2> DEFINE l == clients[c]
  <2>1. l \in ClientStates /\ l.pc = "listed"
    BY <1>0, <1>5 DEF ApplyArchive, TypeOK
  <2>2. /\ l.sum \in Sums /\ l.package \in Packages /\ l.field \in Fields
        /\ l.available \in SUBSET Ids
    BY <2>1, ListFields
  <2>3. CASE l.available = {}
    <3>1. Upload(c, l.sum, l.package, l.field)
      BY <1>5, <2>3 DEF ApplyArchive
    <3> QED BY <1>5, <2>2, <3>1, UploadStepOK DEF ApplyArchive
  <2>4. CASE l.available # {}
    <3>1. PICK i \in l.available :
             clients' = [clients EXCEPT ![c] = Writing(i, l.package, l.field, FALSE)]
      BY <1>5, <2>4 DEF ApplyArchive
    <3>2. clients'[c] = Writing(i, l.package, l.field, FALSE)
      BY <1>0, <3>1, ClientMoves
    <3>3. UNCHANGED <<packages, old, prunerVars, interrupted, storage, uploads>>
          /\ uploads \in Int
      <4>1. UNCHANGED <<packages, prunerVars, interrupted>> /\ uploads \in Int
        BY <1>0, <1>5, ArchivesAssumption DEF ApplyArchive, TypeOK
      <4>2. UNCHANGED storeVars
        BY <1>5, <2>4 DEF ApplyArchive
      <4> QED BY <4>1, <4>2 DEF storeVars
    <3>4. i \in EverNamed'
      <4>1. l.available \subseteq EverNamed
        BY <2>1 DEF ArchivesInv, ReuseOK
      <4> QED BY <3>1, <3>3, <4>1 DEF EverNamed, Named
    <3>5. UploadOK(c)' /\ ReuseOK(c)'
      BY <3>2, <3>4 DEF UploadOK, ReuseOK, Writing
    <3>6. storage \subseteq storage' /\ AgesOK'
      BY <3>3 DEF ArchivesInv, AgesOK, prunerVars
    <3> QED BY <3>1, <3>3, <3>5, <3>6, ClientStepOK
  <2> QED BY <2>3, <2>4
<1>6. CASE WritePackage(c)
  <2> DEFINE w == clients[c]
             new == [packages EXCEPT ![w.package][w.field] = w.ref]
  <2>1. w \in ClientStates /\ w.pc = "write"
    BY <1>0, <1>6 DEF WritePackage, TypeOK
  <2>2. w.ref \in Refs /\ w.package \in Packages /\ w.field \in Fields /\ w.uploaded \in BOOLEAN
    BY <2>1, WriteFields
  <2>3. /\ clients' = [clients EXCEPT ![c] = Idle] /\ clients'[c] = Idle
        /\ \A d \in Clients \ {c} : clients'[d] = clients[d]
    BY <1>0, <1>6, ClientMoves DEF WritePackage
  <2>4. UNCHANGED <<storeVars, prunerVars>>
    BY <1>6 DEF WritePackage
  <2>5. CASE Write(new)
    <3>1. \A i \in Named(new) : i \in Named(packages) \/ i = w.ref
      BY <1>0, <2>2, NamedAfterWrite DEF TypeOK
    <3>2. w.ref \in Ids => w.ref \in EverNamed \/ w.ref \in storage \ old
      BY <2>1, <2>2 DEF ArchivesInv, UploadOK, ReuseOK
    <3>3. \A i \in Named(new) : i \in EverNamed \/ i \in storage \ old
      BY <3>1, <3>2, NamedType DEF EverNamed
    <3> HIDE DEF new
    <3> QED BY <2>3, <2>4, <2>5, <3>3, WriteOK
  <2>6. CASE UNCHANGED <<packages, interrupted>>
    <3>1. UploadOK(c)' /\ ReuseOK(c)'
      BY <2>3, IdleOK DEF Idle
    <3>2. /\ UNCHANGED <<packages, old, prunerVars, interrupted, storage, uploads>>
          /\ uploads \in Int
      BY <1>0, <2>4, <2>6, ArchivesAssumption DEF storeVars, TypeOK
    <3>3. storage \subseteq storage' /\ AgesOK'
      BY <3>2 DEF ArchivesInv, AgesOK, prunerVars
    <3> QED BY <2>3, <3>1, <3>2, <3>3, ClientStepOK
  <2> QED BY <1>6, <2>5, <2>6 DEF WritePackage
<1> QED BY <1>1, <1>2, <1>3, <1>4, <1>5, <1>6 DEF ClientStep

LEMMA DeletePreserves ==
  ASSUME ArchivesInv, TypeOK', DeletePackage
  PROVE  ArchivesInv'
<1>1. PICK p \in Packages : Write([packages EXCEPT ![p] = [f \in Fields |-> NoArchive]])
  BY DEF DeletePackage
<1> DEFINE new == [packages EXCEPT ![p] = [f \in Fields |-> NoArchive]]
<1>2. \A i \in Named(new) : i \in EverNamed
  BY NamedAfterDelete DEF ArchivesInv, TypeOK, EverNamed
<1>3. UNCHANGED <<storeVars, prunerVars, clients>> /\ Write(new)
  BY <1>1 DEF DeletePackage
<1> HIDE DEF new
<1> QED BY <1>2, <1>3, WriteOK

\* A step that leaves packages and clients alone keeps what is said of them.
LEMMA OthersKept ==
  ASSUME ArchivesInv, UNCHANGED <<packages, clients, interrupted>>,
         \A c \in Clients : clients[c].pc = "write" /\ clients[c].uploaded =>
                              clients[c].ref \in storage' \ old'
  PROVE  /\ \A c \in Clients : UploadOK(c)' /\ ReuseOK(c)'
         /\ Named(packages)' = Named(packages)
<1>1. Named(packages)' = Named(packages) /\ EverNamed' = EverNamed
  BY DEF EverNamed, Named
<1>2. \A c \in Clients : ReuseOK(c)'
  BY <1>1, ReuseKept DEF ArchivesInv
<1>3. \A c \in Clients : UploadOK(c)'
  BY DEF ArchivesInv, UploadOK
<1> QED BY <1>1, <1>2, <1>3

LEMMA PrunerPreserves ==
  ASSUME ArchivesInv, TypeOK', PrunerStep
  PROVE  ArchivesInv'
<1>0. \A c \in Clients : clients[c].pc = "write" /\ clients[c].uploaded =>
                           clients[c].ref \in storage \ old
  BY DEF ArchivesInv, UploadOK
<1>1. CASE Wake
  <2>1. UNCHANGED <<packages, clients, interrupted, storage, old, uploads, orphans, referenced>>
        /\ pruner' = "packages"
    BY <1>1 DEF Wake, storeVars
  <2> QED BY <1>0, <2>1, OthersKept
          DEF ArchivesInv, AgesOK, ListCovers, DoomedWasFree, ReferencedKept
<1>2. CASE ListPackages
  <2>1. /\ UNCHANGED <<packages, clients, interrupted, storage, old, uploads, orphans>>
        /\ pruner' = "storage" => referenced' = Named(packages)
    BY <1>2 DEF ListPackages, storeVars, ReferencedBy
  <2> QED BY <1>0, <2>1, OthersKept
          DEF ArchivesInv, AgesOK, ListCovers, DoomedWasFree, ReferencedKept
<1>3. CASE ListStorage
  <2>1. /\ UNCHANGED <<packages, clients, interrupted, storage, old, uploads, referenced>>
        /\ pruner = "storage" /\ pruner' # "storage"
        /\ orphans' = orphans \/ orphans' = (storage \intersect old) \ referenced
    BY <1>3 DEF ListStorage, storeVars, Candidates
  <2> QED BY <1>0, <2>1, OthersKept
          DEF ArchivesInv, AgesOK, ListCovers, DoomedWasFree, ReferencedKept
<1>4. CASE Remove
  <2>1. PICK i \in orphans : /\ storage' = storage \ {i} \/ storage' = storage
                             /\ orphans' = orphans \ {i}
    BY <1>4 DEF Remove
  <2>2. UNCHANGED <<packages, clients, interrupted, old, uploads, pruner, referenced>>
    BY <1>4 DEF Remove
  <2>3. i \in old
    BY DEF ArchivesInv, AgesOK
  <2>4. storage \ old \subseteq storage' \ old'
    BY <2>1, <2>2, <2>3
  <2>5. /\ \A c \in Clients : UploadOK(c)' /\ ReuseOK(c)'
        /\ Named(packages)' = Named(packages)
    BY <1>0, <2>2, <2>4, OthersKept
  <2>6. ReferencedKept'
    BY <2>1, <2>2, <2>5 DEF ArchivesInv, DoomedWasFree, ReferencedKept
  <2> QED BY <2>1, <2>2, <2>5, <2>6 DEF ArchivesInv, AgesOK, ListCovers, DoomedWasFree
<1>5. CASE Sleep
  <2>1. UNCHANGED <<packages, clients, interrupted, storage, old, uploads, orphans, referenced>>
        /\ pruner' = "sleep"
    BY <1>5 DEF Sleep, storeVars
  <2> QED BY <1>0, <2>1, OthersKept
          DEF ArchivesInv, AgesOK, ListCovers, DoomedWasFree, ReferencedKept
<1> QED BY <1>1, <1>2, <1>3, <1>4, <1>5 DEF PrunerStep

LEMMA AgePreserves ==
  ASSUME ArchivesInv, TypeOK', Age
  PROVE  ArchivesInv'
<1>1. PICK i \in storage \ old :
         /\ \A c \in Clients : ~(clients[c].pc = "write" /\ clients[c].ref = i
                                 /\ clients[c].uploaded)
         /\ ~(pruner = "storage" /\ i \notin referenced)
         /\ old' = old \union {i}
  BY DEF Age
<1>2. UNCHANGED <<packages, clients, interrupted, storage, uploads, pruner, referenced, orphans>>
  BY DEF Age, prunerVars
<1>3. \A c \in Clients : clients[c].pc = "write" /\ clients[c].uploaded =>
                           clients[c].ref \in storage' \ old'
  BY <1>1, <1>2 DEF ArchivesInv, UploadOK
<1>4. /\ \A c \in Clients : UploadOK(c)' /\ ReuseOK(c)'
      /\ Named(packages)' = Named(packages)
  BY <1>2, <1>3, OthersKept
<1> QED BY <1>1, <1>2, <1>4
        DEF ArchivesInv, AgesOK, ListCovers, DoomedWasFree, ReferencedKept
------------------------------------------------------------------------------
LEMMA InitOK == Init => ArchivesInv
<1> SUFFICES ASSUME Init PROVE ArchivesInv
  OBVIOUS
<1>1. (CHOOSE k \in Sums : TRUE) \in Sums
  BY ArchivesAssumption
<1>2. sum \in [Ids -> Sums]
  BY <1>1 DEF Init
<1>3. clients \in [Clients -> ClientStates]
  BY IdleState DEF Init
<1>4. TypeOK
  BY <1>2, <1>3, ArchivesAssumption DEF Init, TypeOK, Refs
<1>5. Named(packages) = {}
  BY DEF Init, Named, Ids, NoArchive
<1>6. \A c \in Clients : UploadOK(c) /\ ReuseOK(c)
  BY DEF Init, UploadOK, ReuseOK, Idle
<1>7. AgesOK /\ ListCovers /\ DoomedWasFree /\ ReferencedKept
  BY <1>5 DEF Init, AgesOK, ListCovers, DoomedWasFree, ReferencedKept
<1> QED BY <1>4, <1>6, <1>7 DEF ArchivesInv

LEMMA NextOK == ArchivesInv /\ [Next]_vars => ArchivesInv'
<1> SUFFICES ASSUME ArchivesInv, [Next]_vars PROVE ArchivesInv'
  OBVIOUS
<1>1. TypeOK'
  BY TypeStep DEF ArchivesInv
<1>2. ASSUME NEW c \in Clients,
             \/ CreateArchive(c) \/ CreateWithout(c) \/ UploadHandler(c)
             \/ ApplyList(c) \/ ClientStep(c)
      PROVE  ArchivesInv'
  BY <1>1, <1>2, ClientPreserves
<1>3. ASSUME UNCHANGED vars PROVE ArchivesInv'
  <2>1. UNCHANGED <<packages, clients, interrupted, storage, old, uploads,
                    pruner, orphans, referenced>>
    BY <1>3 DEF vars, storeVars, prunerVars
  <2>2. \A c \in Clients : clients[c].pc = "write" /\ clients[c].uploaded =>
                             clients[c].ref \in storage' \ old'
    BY <2>1 DEF ArchivesInv, UploadOK
  <2> QED BY <1>1, <2>1, <2>2, OthersKept
          DEF ArchivesInv, AgesOK, ListCovers, DoomedWasFree, ReferencedKept
<1> QED BY <1>1, <1>2, <1>3, DeletePreserves, PrunerPreserves, AgePreserves DEF Next

\* The variables have their types in every state of every behaviour.
THEOREM ArchivesTypeCorrect == Spec => []TypeOK
<1>1. ArchivesInv => TypeOK
  BY DEF ArchivesInv
<1> QED BY <1>1, InitOK, NextOK, PTL DEF Spec

\* An archive that some package has named ever since it was written is in the
\* storage: the pruner, which lists packages and archives at different times
\* while commands upload, re-use and replace archives, does not remove it.
THEOREM PrunerSafety == Spec => []ReferencedKept
<1>1. ArchivesInv => ReferencedKept
  BY DEF ArchivesInv
<1> QED BY <1>1, InitOK, NextOK, PTL DEF Spec

-----------------------------------------------------------------------------
(* The role bindings: grants that are needed are kept, for any number of   *)
(* functions, namespaces, edits, errors and restarts.                      *)

(* A handler that works has an account to set up.                          *)
SetupsOK == \A w \in Workers : setups[w].pc # "idle" => setups[w].todo # << >>

(* A grant is kept for a reason that is still there.                       *)
Justified == \A k \in kept : Holds(k, fns, envs)

(* The reaper removes nothing that is kept: neither what it has decided    *)
(* on, ...                                                                 *)
RemoveSpares ==
    /\ reaper.pc = "functions" => reaper.remove = {}
    /\ reaper.pc \in {"environments", "get", "update"} =>
          \A k \in kept : k.rb = reaper.rb => k.sa \notin reaper.remove

(* ... nor what it has still to decide on, as the functions it has listed  *)
(* tell it, ...                                                            *)
UsedCovers ==
    reaper.pc = "environments" =>
        \A k \in kept : k.rb = reaper.rb /\ k.why = "function" /\ k.sa \in reaper.undecided =>
            k.sa \in reaper.used

(* ... nor with a whole role binding, ...                                  *)
DeleteSpares == reaper.pc = "delete" => \A k \in kept : k.rb # reaper.rb

(* ... nor with an update of a role binding that has not changed since.    *)
UpdateFits ==
    reaper.pc = "update" /\ reaper.fresh => reaper.new = binding[reaper.rb] \ reaper.remove

ReaperSpares == RemoveSpares /\ UsedCovers /\ DeleteSpares /\ UpdateFits

GrantInv == GrantTypeOK /\ SetupsOK /\ Justified /\ ReaperSpares /\ GrantKept

-----------------------------------------------------------------------------
(* Types.                                                                  *)

EventType(w) == EventsOf(IF w \in {"package", "build"} THEN Namespaces \union {NoNs} ELSE Fns)
SetupType == [pc : {"idle", "get", "create", "patch", "recreate"}, todo : Seq(Grants),
              tries : 0 .. MaxRetries]
ReaperType == [pc : Phases, left : SUBSET Binding, listed : [Binding -> SUBSET Accounts],
               used : SUBSET Accounts, undecided : SUBSET Accounts, remove : SUBSET Accounts,
               new : SUBSET Accounts, tries : 0 .. MaxRetries, fresh : BOOLEAN, rb : Binding]
KeptType == [rb : Binding, sa : Accounts, why : Reasons]

LEMMA Types ==
    GrantTypeOK <=>
      /\ binding \in [Binding -> SUBSET Accounts]
      /\ fns \in [Functions -> Fns] /\ package \in Namespaces \union {NoNs}
      /\ envs \in SUBSET Namespaces /\ deployed \in SUBSET Functions
      /\ DOMAIN events = Workers /\ \A w \in Workers : events[w] \in Seq(EventType(w))
      /\ setups \in [Workers -> SetupType] /\ reaper \in ReaperType
      /\ edits \in 0 .. MaxEdits /\ errors \in 0 .. MaxErrors
      /\ kept \in SUBSET KeptType
BY DEF GrantTypeOK, EventType, SetupType, ReaperType, KeptType

(* The constants of the model.                                             *)
LEMMA Constants ==
    /\ Unemployed \in SetupType /\ Unemployed.pc = "idle"
    /\ Asleep \in ReaperType /\ Asleep.pc = "sleep" /\ Asleep.remove = {}
    /\ \A n \in Namespaces : Fetcher(n) \in Accounts /\ BuilderAccount(n) \in Accounts
    /\ \A b \in Binding, a \in Accounts :
          Grant(b, a) \in Grants /\ Grant(b, a).rb = b /\ Grant(b, a).sa = a
    /\ \A g \in Grants : g.rb \in Binding /\ g.sa \in Accounts
    /\ "package" \in Binding /\ "secret" \in Binding
<1>1. Unemployed \in SetupType /\ Unemployed.pc = "idle"
    BY GrantAssumption DEF Unemployed, SetupType
<1>2. Asleep \in ReaperType /\ Asleep.pc = "sleep" /\ Asleep.remove = {}
    BY GrantAssumption DEF Asleep, ReaperType, Phases, Binding, Absent
<1>3. /\ \A n \in Namespaces : Fetcher(n) \in Accounts /\ BuilderAccount(n) \in Accounts
      /\ "package" \in Binding /\ "secret" \in Binding
    BY DEF Fetcher, BuilderAccount, Accounts, Binding
<1>4. /\ \A b \in Binding, a \in Accounts :
            Grant(b, a) \in Grants /\ Grant(b, a).rb = b /\ Grant(b, a).sa = a
      /\ \A g \in Grants : g.rb \in Binding /\ g.sa \in Accounts
    BY DEF Grant, Grants
<1> QED
    BY <1>1, <1>2, <1>3, <1>4

(* What a handler sets up for an event are grants.                         *)
LEMMA TodoGrants ==
    ASSUME GrantTypeOK, NEW w \in Workers, NEW e \in EventType(w)
    PROVE  Todo(w, e) \in Seq(Grants)
<1> USE Constants
<1>1. \A g, h \in Grants : << >> \in Seq(Grants) /\ <<g>> \in Seq(Grants)
                           /\ <<g, h>> \in Seq(Grants)
    OBVIOUS
<1>6. << >> \in Seq(Grants)
    OBVIOUS
<1>2. CASE w = "function"
  <2>1. e.new \in Fns /\ e.old \in Fns
      BY <1>2 DEF EventType, EventsOf
  <2>2. e.new = NoFn \/ e.new.env \in Namespaces
      BY <2>1 DEF Fns
  <2>3. e.new # NoFn => <<Grant("secret", Fetcher(e.new.env))>> \in Seq(Grants)
      BY <1>1, <2>2
  <2> QED
      BY <1>6, <1>2, <2>3 DEF Todo, FunctionEvent, FunctionAdded, FunctionUpdated
<1>3. CASE w = "package"
  <2>1. e.new # NoNs => e.new \in Namespaces
      BY <1>3 DEF EventType, EventsOf
  <2>2. e.new # NoNs => <<Grant("package", Fetcher(e.new))>> \in Seq(Grants)
      BY <1>1, <2>1
  <2> QED
      BY <1>6, <1>3, <2>2 DEF Todo, PackageEvent
<1>4. CASE w = "build"
  <2>1. e.new \in envs => <<Grant("package", BuilderAccount(e.new))>> \in Seq(Grants)
      BY <1>1, Types
  <2> QED
      BY <1>6, <1>4, <2>1 DEF Todo, BuildEvent
<1>5. CASE w \notin {"function", "package", "build"}
  <2>1. <<Grant("package", Fetcher(Own)), Grant("secret", Fetcher(Own))>> \in Seq(Grants)
      BY <1>1, GrantAssumption
  <2>2. Todo(w, e) = DeploymentEvent(w, e)
      BY <1>5 DEF Todo
  <2> QED
      BY <1>6, <2>1, <2>2 DEF DeploymentEvent, SetupRBACObjs
<1> QED
    BY <1>2, <1>3, <1>4, <1>5

LEMMA SetupGrants == \A f : SetupRBACObjs(f) \in Seq(Grants)
<1>1. <<Grant("package", Fetcher(Own)), Grant("secret", Fetcher(Own))>> \in Seq(Grants)
    BY Constants, GrantAssumption
<1> QED
    BY <1>1 DEF SetupRBACObjs

LEMMA WorkingType ==
    ASSUME NEW todo \in Seq(Grants)
    PROVE  /\ Working(todo) \in SetupType
           /\ Working(todo).pc # "idle" => Working(todo).todo # << >>
<1>1. CASE todo = << >>
    BY <1>1, Constants DEF Working
<1>2. CASE todo # << >>
    BY <1>2, GrantAssumption DEF Working, SetupType
<1> QED
    BY <1>1, <1>2

(* The setup at hand, and the others after it.                             *)
LEMMA CurrentGrant ==
    ASSUME GrantTypeOK, SetupsOK, NEW w \in Workers, setups[w].pc # "idle"
    PROVE  Current(w) \in Grants /\ Tail(setups[w].todo) \in Seq(Grants)
<1>1. setups[w].todo \in Seq(Grants) /\ setups[w].todo # << >>
    BY Types DEF SetupType, SetupsOK
<1> QED
    BY <1>1 DEF Current

(* Handlers after one of them was given a new state.                       *)
LEMMA SetupsAfter ==
    ASSUME GrantTypeOK, SetupsOK, NEW w \in Workers, NEW x \in SetupType,
           x.pc # "idle" => x.todo # << >>, setups' = [setups EXCEPT ![w] = x]
    PROVE  setups' \in [Workers -> SetupType] /\ SetupsOK'
BY Types DEF SetupsOK

LEMMA GotoType ==
    ASSUME GrantTypeOK, SetupsOK, NEW w \in Workers, setups[w].pc # "idle",
           NEW l \in {"get", "create", "patch", "recreate"}, Goto(w, l)
    PROVE  setups' \in [Workers -> SetupType] /\ SetupsOK'
<1> DEFINE x == [setups[w] EXCEPT !.pc = l]
<1>1. setups[w] \in SetupType /\ setups[w].todo # << >>
    BY Types DEF SetupsOK
<1>2. x \in SetupType /\ x.todo # << >>
    BY <1>1 DEF SetupType
<1>3. setups' = [setups EXCEPT ![w] = x]
    BY Types, <1>1 DEF Goto, SetupType
<1> HIDE DEF x
<1> QED
    BY <1>2, <1>3, SetupsAfter

LEMMA AbandonType ==
    ASSUME GrantTypeOK, SetupsOK, NEW w \in Workers, Abandon(w)
    PROVE  setups' \in [Workers -> SetupType] /\ SetupsOK' /\ UNCHANGED <<deployed, kept>>
<1>1. setups' = [setups EXCEPT ![w] = Unemployed] /\ UNCHANGED <<deployed, kept>>
    BY DEF Abandon
<1> QED
    BY <1>1, Constants, SetupsAfter

LEMMA AgainType ==
    ASSUME GrantTypeOK, SetupsOK, NEW w \in Workers, setups[w].pc # "idle", Again(w)
    PROVE  setups' \in [Workers -> SetupType] /\ SetupsOK' /\ UNCHANGED <<deployed, kept>>
<1> DEFINE x == [setups[w] EXCEPT !.pc = "patch", !.tries = @ + 1]
<1>1. setups[w] \in SetupType /\ setups[w].todo # << >>
    BY Types DEF SetupsOK
<1>2. CASE setups[w].tries + 1 < MaxRetries
  <2>1. setups[w].tries + 1 \in 0 .. MaxRetries
      BY <1>1, <1>2, GrantAssumption DEF SetupType
  <2>2. x \in SetupType /\ x.todo # << >>
      BY <1>1, <2>1 DEF SetupType
  <2>3. setups' = [setups EXCEPT ![w] = x] /\ UNCHANGED <<deployed, kept>>
      BY Types, <1>1, <1>2 DEF Again, SetupType
  <2> HIDE DEF x
  <2> QED
      BY <2>2, <2>3, SetupsAfter
<1>3. CASE ~(setups[w].tries + 1 < MaxRetries)
    BY <1>3, AbandonType DEF Again
<1> QED
    BY <1>2, <1>3

-----------------------------------------------------------------------------
(* Steps that leave the role bindings and the reaper alone, and keep no    *)
(* grant that was not kept, spare what is kept.                            *)
LEMMA SparesFrame ==
    ASSUME GrantInv, UNCHANGED <<binding, reaper>>, kept' \subseteq kept
    PROVE  ReaperSpares' /\ GrantKept'
<1> USE DEF GrantInv, ReaperSpares
<1>1. RemoveSpares'
    BY DEF RemoveSpares
<1>2. UsedCovers' /\ DeleteSpares' /\ UpdateFits'
    BY DEF UsedCovers, DeleteSpares, UpdateFits
<1>3. GrantKept'
    BY DEF GrantKept
<1> QED
    BY <1>1, <1>2, <1>3

(* An event for some handlers.                                             *)
LEMMA NotifyType ==
    ASSUME GrantTypeOK, NEW e, NEW ws \in SUBSET Workers, Notify(e, ws),
           \A w \in ws : e \in EventType(w)
    PROVE  DOMAIN events' = Workers /\ \A w \in Workers : events'[w] \in Seq(EventType(w))
<1>1. events' = [w \in Workers |-> IF w \in ws THEN Append(events[w], e) ELSE events[w]]
    BY DEF Notify
<1>2. ASSUME NEW w \in Workers PROVE events'[w] \in Seq(EventType(w))
  <2>1. events[w] \in Seq(EventType(w))
      BY Types
  <2>2. CASE w \in ws
    <3>1. Append(events[w], e) \in Seq(EventType(w))
        BY <2>1, <2>2
    <3> QED
        BY <1>1, <2>2, <3>1
  <2>3. CASE w \notin ws
      BY <1>1, <2>1, <2>3
  <2> QED
      BY <2>2, <2>3
<1> QED
    BY <1>1, <1>2

LEMMA EditCounts == ASSUME GrantTypeOK, Edit PROVE edits' \in 0 .. MaxEdits
<1>1. edits \in 0 .. MaxEdits /\ edits < MaxEdits /\ edits' = edits + 1
    BY Types DEF Edit
<1> QED
    BY <1>1, GrantAssumption

LEMMA ErrorCounts ==
    ASSUME GrantTypeOK, errors < MaxErrors, errors' = errors + 1
    PROVE  errors' \in 0 .. MaxErrors
<1>1. errors \in 0 .. MaxErrors
    BY Types
<1> QED
    BY <1>1, GrantAssumption

(* A change that takes a reason away takes the grant off the kept ones.    *)
LEMMA EditFunctionStep ==
    ASSUME GrantInv, NEW f \in Functions, EditFunction(f)
    PROVE  GrantInv'
<1> USE DEF GrantInv
<1>1. PICK new \in Fns : /\ fns' = [fns EXCEPT ![f] = new]
                         /\ Notify([old |-> fns[f], new |-> new], {"function", f})
                         /\ kept' = {k \in kept : Holds(k, fns', envs)}
    BY DEF EditFunction, KeptAfter
<1>2. UNCHANGED <<binding, package, envs, deployed, setups, reaper, errors>> /\ Edit
    BY DEF EditFunction
<1>3. fns \in [Functions -> Fns] /\ fns' \in [Functions -> Fns]
    BY <1>1, Types
<1>4. DOMAIN events' = Workers /\ \A w \in Workers : events'[w] \in Seq(EventType(w))
  <2>1. [old |-> fns[f], new |-> new] \in EventsOf(Fns)
      BY <1>3 DEF EventsOf
  <2>2. {"function", f} \in SUBSET Workers
        /\ \A w \in {"function", f} : EventType(w) = EventsOf(Fns)
      BY GrantAssumption DEF Workers, EventType
  <2>3. \A w \in {"function", f} : [old |-> fns[f], new |-> new] \in EventType(w)
      BY <2>1, <2>2
  <2> QED
      BY <1>1, <2>2, <2>3, NotifyType
<1>5. edits' \in 0 .. MaxEdits
    BY <1>2, EditCounts
<1>6. kept' \subseteq kept /\ Justified'
    BY <1>1, <1>2 DEF Justified
<1>7. GrantTypeOK'
  <2>1. /\ binding' \in [Binding -> SUBSET Accounts] /\ package' \in Namespaces \union {NoNs}
        /\ envs' \in SUBSET Namespaces /\ deployed' \in SUBSET Functions
        /\ setups' \in [Workers -> SetupType] /\ reaper' \in ReaperType
        /\ errors' \in 0 .. MaxErrors /\ kept' \in SUBSET KeptType
      BY <1>2, <1>6, Types
  <2> QED
      BY <1>3, <1>4, <1>5, <2>1 DEF GrantTypeOK, EventType, SetupType, ReaperType, KeptType
<1>8. SetupsOK'
    BY <1>2 DEF SetupsOK
<1> QED
    BY <1>2, <1>6, <1>7, <1>8, SparesFrame

LEMMA EditPackageStep ==
    ASSUME GrantInv, EditPackage
    PROVE  GrantInv'
<1> USE DEF GrantInv
<1>1. PICK new \in Namespaces \union {NoNs} :
          package' = new /\ Notify([old |-> package, new |-> new], {"package", "build"})
    BY DEF EditPackage
<1>2. UNCHANGED <<binding, fns, envs, deployed, setups, reaper, errors, kept>> /\ Edit
    BY DEF EditPackage
<1>3. DOMAIN events' = Workers /\ \A w \in Workers : events'[w] \in Seq(EventType(w))
  <2>1. [old |-> package, new |-> new] \in EventsOf(Namespaces \union {NoNs})
      BY Types DEF EventsOf
  <2>2. {"package", "build"} \in SUBSET Workers
      BY DEF Workers
  <2>3. \A w \in {"package", "build"} : [old |-> package, new |-> new] \in EventType(w)
      BY <2>1 DEF EventType
  <2> QED
      BY <1>1, <2>2, <2>3, NotifyType
<1>4. edits' \in 0 .. MaxEdits
    BY <1>2, EditCounts
<1>5. kept' \subseteq kept /\ Justified' /\ SetupsOK'
    BY <1>2 DEF Justified, SetupsOK
<1>6. GrantTypeOK'
  <2>1. /\ binding' \in [Binding -> SUBSET Accounts] /\ fns' \in [Functions -> Fns]
        /\ envs' \in SUBSET Namespaces /\ deployed' \in SUBSET Functions
        /\ setups' \in [Workers -> SetupType] /\ reaper' \in ReaperType
        /\ errors' \in 0 .. MaxErrors /\ kept' \in SUBSET KeptType
      BY <1>2, Types
  <2> QED
      BY <1>1, <1>3, <1>4, <2>1 DEF GrantTypeOK, EventType, SetupType, ReaperType, KeptType
<1> QED
    BY <1>2, <1>5, <1>6, SparesFrame

LEMMA EditEnvironmentStep ==
    ASSUME GrantInv, EditEnvironment
    PROVE  GrantInv'
<1> USE DEF GrantInv
<1>1. /\ envs' \in SUBSET Namespaces
      /\ kept' = {k \in kept : Holds(k, fns, envs')}
    BY Types DEF EditEnvironment, KeptAfter
<1>2. UNCHANGED <<binding, fns, package, deployed, events, setups, reaper, errors>> /\ Edit
    BY DEF EditEnvironment
<1>3. edits' \in 0 .. MaxEdits
    BY <1>2, EditCounts
<1>4. kept' \subseteq kept /\ Justified' /\ SetupsOK'
    BY <1>1, <1>2 DEF Justified, SetupsOK
<1>5. GrantTypeOK'
    BY <1>1, <1>2, <1>3, <1>4 DEF GrantTypeOK
<1> QED
    BY <1>2, <1>4, <1>5, SparesFrame

(* The handlers start and give up.                                         *)
LEMMA HandleStep ==
    ASSUME GrantInv, NEW w \in Workers, Handle(w)
    PROVE  GrantInv'
<1> USE DEF GrantInv
<1> DEFINE e == Head(events[w])
<1>1. /\ UNCHANGED <<binding, fns, package, envs, reaper, edits, errors, kept>>
      /\ setups' = [setups EXCEPT ![w] = Working(Todo(w, e))]
      /\ events' = [events EXCEPT ![w] = Tail(events[w])] /\ events[w] # << >>
      /\ deployed' \in {deployed, deployed \ {w}}
    BY DEF Handle, countVars
<1>2. events[w] \in Seq(EventType(w)) /\ DOMAIN events = Workers
    BY Types
<1>3. e \in EventType(w) /\ Tail(events[w]) \in Seq(EventType(w))
    BY <1>1, <1>2
<1> HIDE DEF e
<1>4. setups' \in [Workers -> SetupType] /\ SetupsOK'
    BY <1>1, <1>3, TodoGrants, WorkingType, SetupsAfter
<1>5. DOMAIN events' = Workers /\ \A v \in Workers : events'[v] \in Seq(EventType(v))
  <2>1. \A v \in Workers : events[v] \in Seq(EventType(v))
      BY Types
  <2> QED
      BY <1>1, <1>2, <1>3, <2>1
<1>6. GrantTypeOK'
  <2>1. /\ binding' \in [Binding -> SUBSET Accounts] /\ fns' \in [Functions -> Fns]
        /\ package' \in Namespaces \union {NoNs}
        /\ envs' \in SUBSET Namespaces /\ deployed' \in SUBSET Functions /\ reaper' \in ReaperType
        /\ edits' \in 0 .. MaxEdits /\ errors' \in 0 .. MaxErrors /\ kept' \in SUBSET KeptType
      BY <1>1, Types
  <2> QED
      BY <1>4, <1>5, <2>1 DEF GrantTypeOK, EventType, SetupType, ReaperType, KeptType
<1>7. Justified'
    BY <1>1 DEF Justified
<1> QED
    BY <1>1, <1>4, <1>6, <1>7, SparesFrame

(* A step of a handler that changes no more than its state.                *)
LEMMA HandlerFrame ==
    ASSUME GrantInv, setups' \in [Workers -> SetupType], SetupsOK',
           deployed' \in SUBSET Functions, errors' \in 0 .. MaxErrors,
           UNCHANGED <<binding, fns, package, envs, events, reaper, edits, kept>>
    PROVE  GrantInv'
<1> USE DEF GrantInv
<1>1. GrantTypeOK'
    BY DEF GrantTypeOK, SetupType
<1>2. Justified'
    BY DEF Justified
<1> QED
    BY <1>1, <1>2, SparesFrame

LEMMA RequestDeploymentStep ==
    ASSUME GrantInv, NEW f \in Functions, RequestDeployment(f)
    PROVE  GrantInv'
<1> USE DEF GrantInv
<1>1. /\ UNCHANGED <<binding, fns, package, envs, deployed, events, reaper, edits, errors, kept>>
      /\ setups' = [setups EXCEPT ![f] = Working(SetupRBACObjs(f))]
    BY DEF RequestDeployment, clusterVars, countVars
<1>2. f \in Workers /\ deployed \in SUBSET Functions /\ errors \in 0 .. MaxErrors
    BY Types DEF Workers
<1>3. setups' \in [Workers -> SetupType] /\ SetupsOK'
    BY <1>1, <1>2, SetupGrants, WorkingType, SetupsAfter
<1> QED
    BY <1>1, <1>2, <1>3, HandlerFrame

LEMMA SetupErrorStep ==
    ASSUME GrantInv, NEW w \in Workers, SetupError(w)
    PROVE  GrantInv'
<1> USE DEF GrantInv
<1>1. /\ UNCHANGED <<binding, fns, package, envs, events, reaper, edits>>
      /\ setups[w].pc # "idle" /\ (Abandon(w) \/ Again(w))
    BY DEF SetupError
<1>2. errors' \in 0 .. MaxErrors
    BY ErrorCounts DEF SetupError
<1>3. setups' \in [Workers -> SetupType] /\ SetupsOK' /\ UNCHANGED <<deployed, kept>>
    BY <1>1, AbandonType, AgainType
<1>4. deployed' \in SUBSET Functions
    BY <1>3, Types
<1> QED
    BY <1>1, <1>2, <1>3, <1>4, HandlerFrame

-----------------------------------------------------------------------------
(* A setup succeeds: what it adds to the kept grants has a reason, and is  *)
(* not doomed.                                                             *)
LEMMA SucceedFacts ==
    ASSUME GrantTypeOK, SetupsOK, NEW w \in Workers, setups[w].pc # "idle", Succeed(w)
    PROVE  /\ setups' \in [Workers -> SetupType] /\ SetupsOK'
           /\ deployed' \in SUBSET Functions /\ kept' \in SUBSET KeptType
           /\ \A k \in kept' : \/ k \in kept
                               \/ /\ k.rb = Current(w).rb /\ k.sa = Current(w).sa
                                  /\ Holds(k, fns, envs) /\ ~Doomed(Current(w), k.why)
<1> DEFINE g == Current(w)
           added == {k \in {Keep(g, why) : why \in Reasons} :
                        Holds(k, fns, envs) /\ ~Doomed(g, k.why)}
<1>1. /\ setups' = [setups EXCEPT ![w] = Working(Tail(setups[w].todo))]
      /\ deployed' \in {deployed, deployed \union {w}} /\ (deployed' # deployed => w \in Functions)
      /\ kept' = kept \union added
    BY DEF Succeed
<1>2. g \in Grants /\ Tail(setups[w].todo) \in Seq(Grants)
    BY CurrentGrant
<1> HIDE DEF g
<1>3. setups' \in [Workers -> SetupType] /\ SetupsOK'
    BY <1>1, <1>2, WorkingType, SetupsAfter
<1>4. deployed' \in SUBSET Functions
    BY <1>1, Types
<1>5. \A why \in Reasons : Keep(g, why) \in KeptType /\ Keep(g, why).rb = g.rb
                           /\ Keep(g, why).sa = g.sa
    BY <1>2, Constants DEF Keep, KeptType
<1>6. \A k \in added : k \in KeptType /\ k.rb = g.rb /\ k.sa = g.sa /\ Holds(k, fns, envs)
                       /\ ~Doomed(g, k.why)
    BY <1>5
<1> HIDE DEF added
<1>7. kept' \in SUBSET KeptType
    BY <1>1, <1>6, Types
<1> QED
    BY <1>1, <1>3, <1>4, <1>6, <1>7 DEF g

(* The account is in the role binding, which may have grown, and the       *)
(* reaper knows if it has.                                                 *)
LEMMA SucceedStep ==
    ASSUME GrantInv, NEW w \in Workers, setups[w].pc # "idle", Succeed(w),
           binding' \in [Binding -> SUBSET Accounts],
           \A b \in Binding : binding[b] \subseteq binding'[b],
           Current(w).sa \in binding'[Current(w).rb],
           reaper' \in {reaper, [reaper EXCEPT !.fresh = FALSE]},
           reaper'.fresh => binding'[reaper.rb] = binding[reaper.rb],
           UNCHANGED <<fns, package, envs, events, edits, errors>>
    PROVE  GrantInv'
<1> USE DEF GrantInv, ReaperSpares
<1> DEFINE g == Current(w)
<1>1. /\ setups' \in [Workers -> SetupType] /\ SetupsOK'
      /\ deployed' \in SUBSET Functions /\ kept' \in SUBSET KeptType
      /\ \A k \in kept' : \/ k \in kept
                          \/ /\ k.rb = g.rb /\ k.sa = g.sa
                             /\ Holds(k, fns, envs) /\ ~Doomed(g, k.why)
    BY SucceedFacts
<1>2. reaper \in ReaperType
    BY Types
<1>3. /\ reaper' \in ReaperType
      /\ reaper'.pc = reaper.pc /\ reaper'.rb = reaper.rb /\ reaper'.remove = reaper.remove
      /\ reaper'.undecided = reaper.undecided /\ reaper'.used = reaper.used
      /\ reaper'.new = reaper.new /\ (reaper'.fresh => reaper.fresh)
  <2>1. CASE reaper' = reaper
      BY <1>2, <2>1
  <2>2. CASE reaper' = [reaper EXCEPT !.fresh = FALSE]
      BY <1>2, <2>2 DEF ReaperType
  <2> QED
      BY <2>1, <2>2
<1> HIDE DEF g
<1>4. GrantTypeOK'
    BY <1>1, <1>3 DEF GrantTypeOK, SetupType, ReaperType, KeptType
<1>5. Justified'
    BY <1>1 DEF Justified
<1>6. RemoveSpares' /\ UsedCovers' /\ DeleteSpares'
    BY <1>1, <1>3 DEF RemoveSpares, UsedCovers, DeleteSpares, Doomed
<1>7. UpdateFits'
    BY <1>3 DEF UpdateFits
<1>8. GrantKept'
  <2> SUFFICES ASSUME NEW k \in kept' PROVE k.sa \in binding'[k.rb]
      BY DEF GrantKept
  <2>1. CASE k \in kept
    <3>1. k.sa \in binding[k.rb] /\ k.rb \in Binding
        BY <2>1, Types DEF GrantKept, KeptType
    <3> QED
        BY <3>1
  <2>2. CASE k.rb = g.rb /\ k.sa = g.sa
      BY <2>2 DEF g
  <2> QED
      BY <1>1, <2>1, <2>2
<1> QED
    BY <1>1, <1>4, <1>5, <1>6, <1>7, <1>8

(* The account is added.                                                   *)
LEMMA AddAccountStep ==
    ASSUME GrantInv, NEW w \in Workers, setups[w].pc # "idle", Succeed(w),
           AddAccount(Current(w).rb, Current(w).sa),
           UNCHANGED <<fns, package, envs, events, edits, errors>>
    PROVE  GrantInv'
<1> USE DEF GrantInv
<1> DEFINE g == Current(w)
<1>1. g.rb \in Binding /\ g.sa \in Accounts
    BY CurrentGrant, Constants
<1>2. /\ binding' = [binding EXCEPT ![g.rb] = binding[g.rb] \union {g.sa}]
      /\ reaper' = IF reaper.rb = g.rb THEN [reaper EXCEPT !.fresh = FALSE] ELSE reaper
    BY DEF AddAccount
<1>3. binding \in [Binding -> SUBSET Accounts] /\ reaper \in ReaperType
    BY Types
<1> HIDE DEF g
<1>4. /\ binding' \in [Binding -> SUBSET Accounts]
      /\ \A b \in Binding : binding[b] \subseteq binding'[b]
      /\ \A b \in Binding : b # g.rb => binding'[b] = binding[b]
      /\ g.sa \in binding'[g.rb]
    BY <1>1, <1>2, <1>3
<1>5. reaper' \in {reaper, [reaper EXCEPT !.fresh = FALSE]}
    BY <1>2
<1>6. reaper'.fresh => binding'[reaper.rb] = binding[reaper.rb]
  <2>1. CASE reaper.rb = g.rb
      BY <1>2, <1>3, <2>1 DEF ReaperType
  <2>2. CASE reaper.rb # g.rb
      BY <1>3, <1>4, <2>2 DEF ReaperType
  <2> QED
      BY <2>1, <2>2
<1> QED
    BY <1>4, <1>5, <1>6, SucceedStep DEF g

LEMMA SetupStep ==
    ASSUME GrantInv, NEW w \in Workers, Setup(w)
    PROVE  GrantInv'
<1> USE DEF GrantInv
<1> DEFINE g == Current(w)
<1>1. /\ UNCHANGED <<fns, package, envs, events, edits, errors>> /\ setups[w].pc # "idle"
    BY DEF Setup, SetupGet, SetupCreate, SetupPatch, SetupRecreate, countVars, SetupAt
<1>2. deployed \in SUBSET Functions /\ errors' \in 0 .. MaxErrors /\ g.rb \in Binding
      /\ binding \in [Binding -> SUBSET Accounts]
    BY <1>1, Types, CurrentGrant, Constants
<1> HIDE DEF g
<1>3. CASE g.sa \in binding[g.rb] /\ Succeed(w) /\ UNCHANGED <<binding, reaper>>
    BY <1>1, <1>2, <1>3, SucceedStep DEF g
<1>4. CASE AddAccount(g.rb, g.sa) /\ Succeed(w)
    BY <1>1, <1>4, AddAccountStep DEF g
<1>5. ASSUME NEW l \in {"get", "create", "patch", "recreate"}, Goto(w, l),
             UNCHANGED <<binding, deployed, reaper, kept>>
      PROVE  GrantInv'
  <2>1. setups' \in [Workers -> SetupType] /\ SetupsOK'
      BY <1>1, <1>5, GotoType
  <2> QED
      BY <1>1, <1>2, <1>5, <2>1, HandlerFrame
<1>6. CASE Again(w) /\ UNCHANGED <<binding, reaper>>
  <2>1. setups' \in [Workers -> SetupType] /\ SetupsOK' /\ UNCHANGED <<deployed, kept>>
      BY <1>1, <1>6, AgainType
  <2> QED
      BY <1>1, <1>2, <1>6, <2>1, HandlerFrame
<1>7. CASE SetupGet(w)
  <2>1. /\ UNCHANGED <<binding, reaper>>
        /\ \/ g.sa \in binding[g.rb] /\ Succeed(w)
           \/ (Goto(w, "create") \/ Goto(w, "patch")) /\ UNCHANGED <<deployed, kept>>
      BY <1>7 DEF SetupGet, g
  <2> QED
      BY <1>3, <1>5, <2>1
<1>8. CASE SetupCreate(w)
    BY <1>4, <1>5, <1>8 DEF SetupCreate, g
<1>9. CASE SetupPatch(w)
    BY <1>4, <1>5, <1>9 DEF SetupPatch, g
<1>10. CASE SetupRecreate(w)
    BY <1>4, <1>6, <1>10 DEF SetupRecreate, g
<1> QED
    BY <1>7, <1>8, <1>9, <1>10 DEF Setup

-----------------------------------------------------------------------------
(* The reaper.                                                             *)

(* The next role binding starts with nothing to remove.                    *)
LEMMA NextBindingType ==
    ASSUME NEW r \in ReaperType
    PROVE  /\ NextBinding(r) \in ReaperType
           /\ NextBinding(r).pc \in {"sleep", "functions"} /\ NextBinding(r).remove = {}
<1>1. r.left \in SUBSET Binding /\ r.listed \in [Binding -> SUBSET Accounts]
    BY DEF ReaperType
<1>2. Asleep \in ReaperType /\ Asleep.pc = "sleep" /\ Asleep.remove = {}
    BY Constants
<1> DEFINE x == [Asleep EXCEPT !.pc = "functions", !.left = r.left, !.listed = r.listed]
<1>3. x \in ReaperType /\ x.pc = "functions" /\ x.remove = {}
    BY <1>1, <1>2 DEF ReaperType, Phases
<1> HIDE DEF x
<1> QED
    BY <1>2, <1>3 DEF NextBinding, x

(* What the reaper's step has to show.                                     *)
LEMMA ReaperFrame ==
    ASSUME GrantInv, reaper' \in ReaperType, binding' \in [Binding -> SUBSET Accounts],
           errors' \in 0 .. MaxErrors, ReaperSpares', GrantKept',
           UNCHANGED <<fns, package, envs, deployed, events, setups, edits, kept>>
    PROVE  GrantInv'
<1> USE DEF GrantInv
<1>1. GrantTypeOK'
    BY DEF GrantTypeOK, ReaperType
<1>2. SetupsOK' /\ Justified'
    BY DEF SetupsOK, Justified
<1> QED
    BY <1>1, <1>2

(* Between two role bindings there is nothing to spare.                    *)
LEMMA RestSpares ==
    ASSUME reaper'.pc \in {"sleep", "functions"}, reaper'.remove = {}
    PROVE  ReaperSpares'
BY DEF ReaperSpares, RemoveSpares, UsedCovers, DeleteSpares, UpdateFits

LEMMA ReaperRests ==
    ASSUME GrantInv, NEW r \in ReaperType, reaper' = NextBinding(r), GrantKept',
           binding' \in [Binding -> SUBSET Accounts], errors' \in 0 .. MaxErrors,
           UNCHANGED <<fns, package, envs, deployed, events, setups, edits, kept>>
    PROVE  GrantInv'
BY NextBindingType, RestSpares, ReaperFrame

(* It is decided what to remove, and nothing of that is kept.              *)
LEMMA DecidedStep ==
    ASSUME GrantInv, NEW r \in ReaperType, reaper' = Decided(r), errors' \in 0 .. MaxErrors,
           \A k \in kept : k.rb = r.rb => k.sa \notin r.remove,
           UNCHANGED <<binding, fns, package, envs, deployed, events, setups, edits, kept>>
    PROVE  GrantInv'
<1>1. binding' \in [Binding -> SUBSET Accounts] /\ GrantKept'
    BY Types DEF GrantInv, GrantKept
<1>2. CASE r.remove = {}
    BY <1>1, <1>2, ReaperRests DEF Decided
<1>3. CASE r.remove # {}
  <2>1. reaper' = [r EXCEPT !.pc = "get"]
      BY <1>3 DEF Decided
  <2>2. /\ reaper' \in ReaperType /\ reaper'.pc = "get" /\ reaper'.rb = r.rb
        /\ reaper'.remove = r.remove
      BY <2>1 DEF ReaperType, Phases
  <2>3. ReaperSpares'
      BY <2>2 DEF ReaperSpares, RemoveSpares, UsedCovers, DeleteSpares, UpdateFits
  <2> QED
      BY <1>1, <2>2, <2>3, ReaperFrame
<1> QED
    BY <1>2, <1>3

LEMMA ListBindingsStep ==
    ASSUME GrantInv, ListBindings
    PROVE  GrantInv'
<1> USE DEF GrantInv
<1> DEFINE r == [Asleep EXCEPT !.left = {b \in Binding : binding[b] # Absent}, !.listed = binding]
<1>1. /\ UNCHANGED <<binding, fns, package, envs, deployed, events, setups, edits, errors, kept>>
      /\ reaper' = NextBinding(r)
    BY DEF ListBindings, ReaperReads, clusterVars
<1>2. binding \in [Binding -> SUBSET Accounts] /\ errors \in 0 .. MaxErrors
    BY Types
<1>3. r \in ReaperType
    BY <1>2, Constants DEF ReaperType
<1> HIDE DEF r
<1>4. GrantKept'
    BY <1>1 DEF GrantKept
<1> QED
    BY <1>1, <1>2, <1>3, <1>4, ReaperRests

(* A function that needs a kept account is among those that are listed.    *)
LEMMA ListFunctionsStep ==
    ASSUME GrantInv, NEW b \in Binding, ListFunctions(b)
    PROVE  GrantInv'
<1> USE DEF GrantInv
<1> DEFINE accounts == reaper.listed[b]
<1>1. /\ UNCHANGED <<binding, fns, package, envs, deployed, events, setups, edits, errors, kept>>
      /\ reaper.pc = "functions"
    BY DEF ListFunctions, ReaperReads, clusterVars
<1>2. /\ reaper \in ReaperType /\ reaper.remove = {} /\ accounts \in SUBSET Accounts
      /\ binding' \in [Binding -> SUBSET Accounts] /\ errors' \in 0 .. MaxErrors
    BY <1>1, Types DEF ReaperType, ReaperSpares, RemoveSpares
<1>3. PICK used \in SUBSET accounts :
         /\ {s \in accounts : FunctionNeeds(s, fns)} \subseteq used
         /\ LET r == [reaper EXCEPT !.rb = b, !.left = @ \ {b}, !.used = used] IN
            reaper' = IF b = "package"
                        THEN [r EXCEPT !.pc = "environments", !.undecided = accounts]
                        ELSE Decided([r EXCEPT !.remove = accounts \ used])
    BY DEF ListFunctions
<1> DEFINE r == [reaper EXCEPT !.rb = b, !.left = @ \ {b}, !.used = used]
<1>4. r \in ReaperType /\ r.rb = b /\ r.used = used /\ r.remove = {}
    BY <1>2 DEF ReaperType
<1>5. ASSUME NEW k \in kept, k.rb = b, k.why = "function", k.sa \in accounts
      PROVE  k.sa \in used
  <2>1. FunctionNeeds(k.sa, fns)
      BY <1>5 DEF Justified, Holds
  <2> QED
      BY <1>3, <1>5, <2>1
<1> HIDE DEF accounts
<1>6. CASE b = "package"
  <2>1. reaper' = [r EXCEPT !.pc = "environments", !.undecided = accounts]
      BY <1>3, <1>6
  <2> HIDE DEF r
  <2>2. /\ reaper' \in ReaperType /\ reaper'.pc = "environments" /\ reaper'.rb = b
        /\ reaper'.undecided = accounts /\ reaper'.used = used /\ reaper'.remove = {}
      BY <1>2, <1>4, <2>1 DEF ReaperType, Phases
  <2>3. ReaperSpares'
      BY <1>1, <1>5, <2>2 DEF ReaperSpares, RemoveSpares, UsedCovers, DeleteSpares, UpdateFits
  <2>4. GrantKept'
      BY <1>1 DEF GrantKept
  <2> QED
      BY <1>1, <1>2, <2>2, <2>3, <2>4, ReaperFrame
<1>7. CASE b # "package"
  <2> DEFINE q == [r EXCEPT !.remove = accounts \ used]
  <2>1. reaper' = Decided(q)
      BY <1>3, <1>7
  <2> HIDE DEF r
  <2>2. q \in ReaperType /\ q.rb = b /\ q.remove = accounts \ used
      BY <1>2, <1>4 DEF ReaperType
  <2> HIDE DEF q
  <2>3. ASSUME NEW k \in kept, k.rb = q.rb PROVE k.sa \notin q.remove
    <3>1. k.rb = b /\ k.why = "function"
        BY <1>7, <2>2, <2>3, Types DEF Justified, Holds, KeptType, Reasons
    <3> QED
        BY <1>5, <2>2, <3>1
  <2> QED
      BY <1>1, <1>2, <2>1, <2>2, <2>3, DecidedStep
<1> QED
    BY <1>6, <1>7

(* An account leaves those that are not decided on; it is to be removed    *)
(* only if no function that was listed and no environment needs it.        *)
LEMMA DecideAccount ==
    ASSUME GrantInv, NEW s, reaper.pc = "environments", s \in reaper.undecided,
           NEW remove \in SUBSET Accounts, errors' \in 0 .. MaxErrors,
           \A k \in kept : k.rb = reaper.rb => k.sa \notin remove,
           LET r == [reaper EXCEPT !.undecided = @ \ {s}, !.remove = remove]
           IN  reaper' = IF r.undecided = {} THEN Decided(r) ELSE r,
           UNCHANGED <<binding, fns, package, envs, deployed, events, setups, edits, kept>>
    PROVE  GrantInv'
<1> USE DEF GrantInv
<1> DEFINE r == [reaper EXCEPT !.undecided = @ \ {s}, !.remove = remove]
<1>1. reaper \in ReaperType /\ binding' \in [Binding -> SUBSET Accounts]
    BY Types
<1>2. /\ r \in ReaperType /\ r.pc = "environments" /\ r.rb = reaper.rb /\ r.used = reaper.used
      /\ r.remove = remove /\ r.undecided = reaper.undecided \ {s}
    BY <1>1 DEF ReaperType
<1>3. reaper' = IF r.undecided = {} THEN Decided(r) ELSE r
    OBVIOUS
<1> HIDE DEF r
<1>4. CASE r.undecided = {}
    BY <1>2, <1>3, <1>4, DecidedStep
<1>5. CASE r.undecided # {}
  <2>1. reaper' = r
      BY <1>3, <1>5
  <2>2. ReaperSpares'
      BY <1>2, <2>1 DEF ReaperSpares, RemoveSpares, UsedCovers, DeleteSpares, UpdateFits
  <2>3. GrantKept'
      BY DEF GrantKept
  <2> QED
      BY <1>1, <1>2, <2>1, <2>2, <2>3, ReaperFrame
<1> QED
    BY <1>4, <1>5

LEMMA ListEnvironmentsStep ==
    ASSUME GrantInv, NEW s \in Accounts, ListEnvironments(s)
    PROVE  GrantInv'
<1> USE DEF GrantInv
<1> DEFINE remove == IF s.ns \in envs \/ s \in reaper.used THEN reaper.remove
                     ELSE reaper.remove \union {s}
<1>1. /\ UNCHANGED <<binding, fns, package, envs, deployed, events, setups, edits, errors, kept>>
      /\ reaper.pc = "environments" /\ s \in reaper.undecided
      /\ LET r == [reaper EXCEPT !.undecided = @ \ {s}, !.remove = remove]
         IN  reaper' = IF r.undecided = {} THEN Decided(r) ELSE r
    BY DEF ListEnvironments, ReaperReads, clusterVars
<1>2. remove \in SUBSET Accounts /\ errors' \in 0 .. MaxErrors
    BY <1>1, Types DEF ReaperType
<1>3. ASSUME NEW k \in kept, k.rb = reaper.rb PROVE k.sa \notin remove
  <2>1. k.sa \notin reaper.remove
      BY <1>1, <1>3 DEF ReaperSpares, RemoveSpares
  <2>2. ASSUME k.sa = s, s \notin reaper.used PROVE s.ns \in envs
    <3>1. k.why # "function"
        BY <1>1, <1>3, <2>2 DEF ReaperSpares, UsedCovers
    <3> QED
        BY <2>2, <3>1 DEF Justified, Holds
  <2> QED
      BY <2>1, <2>2
<1> HIDE DEF remove
<1> QED
    BY <1>1, <1>2, <1>3, DecideAccount

(* A kept account of the role binding that is read keeps it from deletion. *)
LEMMA ReaperGetStep ==
    ASSUME GrantInv, ReaperGet
    PROVE  GrantInv'
<1> USE DEF GrantInv
<1> DEFINE new == binding[reaper.rb] \ reaper.remove
<1>1. /\ UNCHANGED <<binding, fns, package, envs, deployed, events, setups, edits, errors, kept>>
      /\ reaper.pc = "get"
      /\ reaper' = IF binding[reaper.rb] = Absent THEN NextBinding(reaper)
                   ELSE IF new = {} THEN [reaper EXCEPT !.pc = "delete"]
                   ELSE [reaper EXCEPT !.pc = "update", !.new = new, !.fresh = TRUE]
    BY DEF ReaperGet, ReaperReads, clusterVars
<1>2. /\ reaper \in ReaperType /\ binding' \in [Binding -> SUBSET Accounts]
      /\ errors' \in 0 .. MaxErrors /\ new \in SUBSET Accounts
    BY <1>1, Types DEF ReaperType
<1>3. GrantKept'
    BY <1>1 DEF GrantKept
<1>4. ASSUME NEW k \in kept, k.rb = reaper.rb PROVE k.sa \in new /\ k.sa \notin reaper.remove
    BY <1>1, <1>4 DEF GrantKept, ReaperSpares, RemoveSpares
<1> HIDE DEF new
<1>5. CASE reaper' = NextBinding(reaper)
    BY <1>1, <1>2, <1>3, <1>5, ReaperRests
<1>6. CASE new = {} /\ reaper' = [reaper EXCEPT !.pc = "delete"]
  <2>1. reaper' \in ReaperType /\ reaper'.pc = "delete" /\ reaper'.rb = reaper.rb
      BY <1>2, <1>6 DEF ReaperType, Phases
  <2>2. ReaperSpares'
      BY <1>1, <1>4, <1>6, <2>1 DEF ReaperSpares, RemoveSpares, UsedCovers, DeleteSpares,
         UpdateFits
  <2> QED
      BY <1>1, <1>2, <1>3, <2>1, <2>2, ReaperFrame
<1>7. CASE reaper' = [reaper EXCEPT !.pc = "update", !.new = new, !.fresh = TRUE]
  <2>1. /\ reaper' \in ReaperType /\ reaper'.pc = "update" /\ reaper'.rb = reaper.rb
        /\ reaper'.remove = reaper.remove /\ reaper'.new = new
      BY <1>2, <1>7 DEF ReaperType, Phases
  <2>2. ReaperSpares'
      BY <1>1, <1>4, <2>1 DEF ReaperSpares, RemoveSpares, UsedCovers, DeleteSpares,
         UpdateFits, new
  <2> QED
      BY <1>1, <1>2, <1>3, <2>1, <2>2, ReaperFrame
<1> QED
    BY <1>1, <1>5, <1>6, <1>7

(* An update of a role binding that has not changed removes what was       *)
(* decided on, and no more.                                                *)
LEMMA ReaperUpdateStep ==
    ASSUME GrantInv, ReaperUpdate
    PROVE  GrantInv'
<1> USE DEF GrantInv
<1>1. /\ UNCHANGED <<fns, package, envs, deployed, events, setups, edits, errors, kept>>
      /\ reaper.pc = "update"
    BY DEF ReaperUpdate, ReaperWrites, countVars
<1>2. /\ reaper \in ReaperType /\ binding \in [Binding -> SUBSET Accounts]
      /\ errors' \in 0 .. MaxErrors /\ kept \in SUBSET KeptType
    BY <1>1, Types
<1>3. CASE /\ UpToDate /\ binding' = [binding EXCEPT ![reaper.rb] = reaper.new]
           /\ reaper' = NextBinding(reaper)
  <2>1. reaper.rb \in Binding /\ reaper.new \in SUBSET Accounts
        /\ reaper.new = binding[reaper.rb] \ reaper.remove
      BY <1>1, <1>2, <1>3 DEF ReaperType, ReaperSpares, UpdateFits, UpToDate
  <2>2. binding' \in [Binding -> SUBSET Accounts]
      BY <1>2, <1>3, <2>1
  <2>3. ASSUME NEW k \in kept PROVE k.sa \in binding'[k.rb]
    <3>1. k.rb \in Binding /\ k.sa \in binding[k.rb]
        BY <1>2 DEF KeptType, GrantKept
    <3>2. k.rb = reaper.rb => k.sa \notin reaper.remove
        BY <1>1 DEF ReaperSpares, RemoveSpares
    <3> QED
        BY <1>2, <1>3, <2>1, <3>1, <3>2
  <2>4. GrantKept'
      BY <1>1, <2>3 DEF GrantKept
  <2> QED
      BY <1>1, <1>2, <1>3, <2>2, <2>4, ReaperRests
<1>4. CASE /\ UNCHANGED binding
           /\ reaper' = IF reaper.tries + 1 < MaxRetries
                          THEN [reaper EXCEPT !.pc = "get", !.new = {}, !.fresh = TRUE,
                                              !.tries = @ + 1]
                          ELSE NextBinding(reaper)
  <2>1. GrantKept' /\ binding' \in [Binding -> SUBSET Accounts]
      BY <1>1, <1>2, <1>4 DEF GrantKept
  <2>2. CASE ~(reaper.tries + 1 < MaxRetries)
      BY <1>1, <1>2, <1>4, <2>1, <2>2, ReaperRests
  <2>3. CASE reaper.tries + 1 < MaxRetries
    <3>1. reaper.tries + 1 \in 0 .. MaxRetries
        BY <1>2, <2>3, GrantAssumption DEF ReaperType
    <3>2. reaper' = [reaper EXCEPT !.pc = "get", !.new = {}, !.fresh = TRUE, !.tries = @ + 1]
        BY <1>4, <2>3
    <3>3. /\ reaper' \in ReaperType /\ reaper'.pc = "get" /\ reaper'.rb = reaper.rb
          /\ reaper'.remove = reaper.remove
        BY <1>2, <3>1, <3>2 DEF ReaperType, Phases
    <3>4. ReaperSpares'
        BY <1>1, <3>3 DEF ReaperSpares, RemoveSpares, UsedCovers, DeleteSpares, UpdateFits
    <3> QED
        BY <1>1, <1>2, <2>1, <3>3, <3>4, ReaperFrame
  <2> QED
      BY <2>2, <2>3
<1> QED
    BY <1>3, <1>4 DEF ReaperUpdate

LEMMA ReaperDeleteStep ==
    ASSUME GrantInv, ReaperDelete
    PROVE  GrantInv'
<1> USE DEF GrantInv
<1>1. /\ UNCHANGED <<fns, package, envs, deployed, events, setups, edits, errors, kept>>
      /\ reaper.pc = "delete" /\ binding' = [binding EXCEPT ![reaper.rb] = {}]
      /\ reaper' = NextBinding(reaper)
    BY DEF ReaperDelete, ReaperWrites, countVars, Absent
<1>2. /\ reaper \in ReaperType /\ binding \in [Binding -> SUBSET Accounts]
      /\ errors' \in 0 .. MaxErrors /\ kept \in SUBSET KeptType
    BY <1>1, Types
<1>3. binding' \in [Binding -> SUBSET Accounts]
    BY <1>1, <1>2
<1>4. GrantKept'
    BY <1>1, <1>2 DEF GrantKept, ReaperSpares, DeleteSpares, KeptType
<1> QED
    BY <1>1, <1>2, <1>3, <1>4, ReaperRests

LEMMA ReaperErrorStep ==
    ASSUME GrantInv, ReaperError
    PROVE  GrantInv'
<1> USE DEF GrantInv
<1>1. UNCHANGED <<binding, fns, package, envs, deployed, events, setups, edits, kept>>
    BY DEF ReaperError, ReaperReads, clusterVars
<1>2. errors' \in 0 .. MaxErrors
    BY ErrorCounts DEF ReaperError
<1>3. /\ reaper \in ReaperType /\ binding' \in [Binding -> SUBSET Accounts]
    BY <1>1, Types
<1>4. GrantKept'
    BY <1>1 DEF GrantKept
<1>5. ASSUME NEW b \in reaper.left, reaper' = NextBinding([reaper EXCEPT !.left = @ \ {b}])
      PROVE  GrantInv'
  <2>1. [reaper EXCEPT !.left = @ \ {b}] \in ReaperType
      BY <1>3 DEF ReaperType
  <2> QED
      BY <1>1, <1>2, <1>3, <1>4, <1>5, <2>1, ReaperRests
<1>6. ASSUME reaper.pc = "environments", NEW s \in reaper.undecided,
             LET r == [reaper EXCEPT !.undecided = @ \ {s}]
             IN  reaper' = IF r.undecided = {} THEN Decided(r) ELSE r
      PROVE  GrantInv'
  <2>1. /\ reaper.remove \in SUBSET Accounts
        /\ [reaper EXCEPT !.undecided = @ \ {s}]
              = [reaper EXCEPT !.undecided = @ \ {s}, !.remove = reaper.remove]
      BY <1>3 DEF ReaperType
  <2>2. \A k \in kept : k.rb = reaper.rb => k.sa \notin reaper.remove
      BY <1>6 DEF ReaperSpares, RemoveSpares
  <2> QED
      BY <1>1, <1>2, <1>6, <2>1, <2>2, DecideAccount
<1>7. CASE reaper' = NextBinding(reaper)
    BY <1>1, <1>2, <1>3, <1>4, <1>7, ReaperRests
<1> QED
    BY <1>5, <1>6, <1>7 DEF ReaperError

-----------------------------------------------------------------------------
(* The executor restarts: the reaper forgets its round.                    *)

(* An order of a finite set is a sequence.                                 *)
LEMMA OrdersAreSequences ==
    ASSUME NEW S, IsFiniteSet(S), NEW order \in Orders(S)
    PROVE  /\ Cardinality(S) \in Nat /\ DOMAIN order = 1 .. Cardinality(S)
           /\ \A i \in DOMAIN order : order[i] \in S
BY FS_CardinalityType DEF Orders

LEMMA AddedAgainType ==
    ASSUME GrantTypeOK, NEW order \in Orders({f \in Functions : fns[f] # NoFn}),
           NEW w \in Workers
    PROVE  AddedAgain(w, order) \in Seq(EventType(w))
<1>1. /\ fns \in [Functions -> Fns] /\ events[w] \in Seq(EventType(w))
      /\ package \in Namespaces \union {NoNs} /\ NoFn \in Fns
    BY Types DEF Fns
<1>2. \A f \in Functions : Added(f) \in EventsOf(Fns)
    BY <1>1 DEF Added, EventsOf
<1>3. CASE w = "build"
    BY <1>1, <1>3 DEF AddedAgain
<1>4. CASE w = "package"
  <2>1. [old |-> NoNs, new |-> package] \in EventType(w)
      BY <1>1, <1>4 DEF EventType, EventsOf
  <2>2. <<[old |-> NoNs, new |-> package]>> \in Seq(EventType(w)) /\ << >> \in Seq(EventType(w))
      BY <2>1
  <2> QED
      BY <1>4, <2>2 DEF AddedAgain
<1>5. CASE w = "function"
  <2> DEFINE S == {f \in Functions : fns[f] # NoFn}
  <2>1. IsFiniteSet(S)
      BY FS_Subset, GrantAssumption
  <2>2. /\ Cardinality(S) \in Nat /\ DOMAIN order = 1 .. Cardinality(S)
        /\ \A i \in DOMAIN order : order[i] \in Functions
      BY <2>1, OrdersAreSequences
  <2>3. EventType(w) = EventsOf(Fns)
      BY <1>5 DEF EventType
  <2> HIDE DEF S
  <2>4. [i \in 1 .. Cardinality(S) |-> Added(order[i])] \in Seq(EventType(w))
      BY <1>2, <2>2, <2>3
  <2> QED
      BY <1>5, <2>2, <2>4 DEF AddedAgain
<1>6. CASE w \notin {"build", "package", "function"}
  <2>1. w \in Functions /\ EventType(w) = EventsOf(Fns)
      BY <1>6 DEF Workers, EventType
  <2>2. <<Added(w)>> \in Seq(EventType(w)) /\ << >> \in Seq(EventType(w))
      BY <1>2, <2>1
  <2> QED
      BY <1>6, <2>2 DEF AddedAgain
<1> QED
    BY <1>3, <1>4, <1>5, <1>6

LEMMA ExecutorRestartStep ==
    ASSUME GrantInv, ExecutorRestart
    PROVE  GrantInv'
<1> USE DEF GrantInv
<1>1. /\ UNCHANGED <<binding, fns, package, envs, edits, kept>> /\ reaper' = Asleep
      /\ setups' = [w \in Workers |-> IF w = "build" THEN setups[w] ELSE Unemployed]
      /\ deployed' \subseteq deployed
    BY DEF ExecutorRestart
<1>2. errors' \in 0 .. MaxErrors
    BY ErrorCounts DEF ExecutorRestart
<1>3. DOMAIN events' = Workers /\ \A w \in Workers : events'[w] \in Seq(EventType(w))
    BY AddedAgainType DEF ExecutorRestart
<1>4. setups' \in [Workers -> SetupType] /\ SetupsOK'
    BY <1>1, Constants, Types DEF SetupsOK
<1>5. reaper' \in ReaperType /\ ReaperSpares'
    BY <1>1, Constants, RestSpares
<1>6. GrantTypeOK'
  <2>1. /\ binding' \in [Binding -> SUBSET Accounts] /\ fns' \in [Functions -> Fns]
        /\ package' \in Namespaces \union {NoNs}
        /\ envs' \in SUBSET Namespaces /\ deployed' \in SUBSET Functions
        /\ edits' \in 0 .. MaxEdits /\ kept' \in SUBSET KeptType
      BY <1>1, Types
  <2> QED
      BY <1>2, <1>3, <1>4, <1>5, <2>1 DEF GrantTypeOK, EventType, SetupType, ReaperType, KeptType
<1>7. Justified' /\ GrantKept'
    BY <1>1 DEF Justified, GrantKept
<1> QED
    BY <1>4, <1>5, <1>6, <1>7

-----------------------------------------------------------------------------
LEMMA InitGrantInv == GrantInit => GrantInv
<1> SUFFICES ASSUME GrantInit PROVE GrantInv
    OBVIOUS
<1>1. /\ binding \in [Binding -> SUBSET Accounts] /\ fns \in [Functions -> Fns]
    BY Constants, GrantAssumption DEF GrantInit, Fns
<1>2. /\ setups \in [Workers -> SetupType] /\ SetupsOK /\ reaper \in ReaperType
    BY Constants DEF GrantInit, SetupsOK
<1>3. DOMAIN events = Workers /\ \A w \in Workers : events[w] \in Seq(EventType(w))
    BY DEF GrantInit
<1>4. /\ package \in Namespaces \union {NoNs} /\ envs \in SUBSET Namespaces
      /\ deployed \in SUBSET Functions /\ kept \in SUBSET KeptType
      /\ edits \in 0 .. MaxEdits /\ errors \in 0 .. MaxErrors
    BY GrantAssumption DEF GrantInit
<1>5. GrantTypeOK
    BY <1>1, <1>2, <1>3, <1>4, Types
<1>6. ReaperSpares
    BY Constants DEF GrantInit, ReaperSpares, RemoveSpares, UsedCovers, DeleteSpares, UpdateFits
<1> QED
    BY <1>2, <1>5, <1>6 DEF GrantInit, GrantInv, Justified, GrantKept

LEMMA GrantStutter == ASSUME GrantInv, UNCHANGED grantVars PROVE GrantInv'
<1> USE DEF GrantInv, grantVars, clusterVars, countVars
<1>1. GrantTypeOK' /\ SetupsOK' /\ Justified' /\ GrantKept'
    BY DEF GrantTypeOK, SetupsOK, Justified, GrantKept
<1>2. ReaperSpares'
    BY SparesFrame
<1> QED
    BY <1>1, <1>2

LEMMA NextGrantInv == GrantInv /\ [GrantNext]_grantVars => GrantInv'
<1> SUFFICES ASSUME GrantInv, [GrantNext]_grantVars PROVE GrantInv'
    OBVIOUS
<1>1. CASE \E f \in Functions : EditFunction(f) \/ RequestDeployment(f)
    BY <1>1, EditFunctionStep, RequestDeploymentStep
<1>2. CASE EditPackage \/ EditEnvironment
    BY <1>2, EditPackageStep, EditEnvironmentStep
<1>3. CASE \E w \in Workers : Handle(w) \/ Setup(w) \/ SetupError(w)
    BY <1>3, HandleStep, SetupStep, SetupErrorStep
<1>4. CASE Reaper
    BY <1>4, ListBindingsStep, ListFunctionsStep, ListEnvironmentsStep, ReaperGetStep,
       ReaperUpdateStep, ReaperDeleteStep DEF Reaper
<1>5. CASE ReaperError \/ ExecutorRestart
    BY <1>5, ReaperErrorStep, ExecutorRestartStep
<1> QED
    BY <1>1, <1>2, <1>3, <1>4, <1>5, GrantStutter DEF GrantNext

(* The inductive invariant holds always.                                   *)
THEOREM GrantInvariance == GrantSpec => []GrantInv
BY InitGrantInv, NextGrantInv, PTL DEF GrantSpec

(* Every variable of the role bindings' model keeps its type.              *)
THEOREM GrantTypeCorrect == GrantSpec => []GrantTypeOK
<1>1. GrantInv => GrantTypeOK
    BY DEF GrantInv
<1> QED
    BY <1>1, GrantInvariance, PTL

(* However setups, edits, errors, restarts and the rounds of               *)
(* CleanupRoleBindings interleave, a grant that was set up stays as long   *)
(* as a function or an environment needs it, with the two exceptions that  *)
(* GrantKept names.                                                        *)
THEOREM GrantSafety == GrantSpec => []GrantKept
<1>1. GrantInv => GrantKept
    BY DEF GrantInv
<1> QED
    BY <1>1, GrantInvariance, PTL

-----------------------------------------------------------------------------
(* The fetcher: what a pod loads, for any number of attempts, retries,     *)
(* versions, lost answers and restarts.                                    *)

(* The attempt has still to be sent.                                       *)
Unsent(n) == n > client.n \/ (n = client.n /\ client.state = "send")

(* Only versions that were built are taken for built.                      *)
BuiltOK ==
    /\ pkg.built => pkg.ver \in built
    /\ \A n \in Requests : handlers[n].built => handlers[n].ver \in built

(* A handler that has got past the check of the build status.              *)
Fetching(n) == handlers[n].pc \in {"open", "write", "verify", "unarchive", "rename"}

(* The file that attempt n creates if there is no .tmp file.               *)
OwnFile(n) == [kind |-> "file", by |-> n]

(* A file that holds some of a version that was built, and all of it.      *)
Good(f) == contents[f].ver \in built
Whole(f) == Good(f) /\ contents[f].whole

(* What a handler relies on where it is.                                   *)
HandlerOK(n) ==
    /\ Unsent(n) => At(n, "none")
    /\ Fetching(n) => handlers[n].built
    /\ At(n, "write") => handlers[n].file \in Files /\ handlers[n].file.kind = "file"
    /\ At(n, "rename") /\ handlers[n].file.kind = "dir" =>
          handlers[n].file \in Files /\ Whole(handlers[n].file)
    /\ At(n, "secrets") => target # NoFile
    /\ handlers[n].pc \in {"load", "ok"} => target # NoFile /\ secrets

HandlersOK == \A n \in Requests : HandlerOK(n)

(* The two names are of two files, both new to an attempt that has not     *)
(* opened its file.                                                        *)
NamesOK ==
    /\ tmp.kind # "dir"
    /\ tmp # NoFile => tmp # target
    /\ \A n \in Requests : Unsent(n) \/ handlers[n].pc \in {"package", "stat", "open"} =>
          tmp # OwnFile(n) /\ target # OwnFile(n)

(* What is in the files, and if no two handlers were at the .tmp file at   *)
(* the same time, what the only one has made of it.                        *)
FilesOK ==
    /\ tmp # NoFile => Good(tmp)
    /\ target # NoFile => Good(target) /\ (~overlapped => contents[target].whole)
    /\ target.kind = "dir" => Whole(target)

AloneOK ==
    ~overlapped =>
      /\ \A m, n \in Requests : UsesTmp(m) /\ UsesTmp(n) => m = n
      /\ \A n \in Requests :
           /\ At(n, "write") => tmp = handlers[n].file
           /\ handlers[n].pc \in {"verify", "unarchive"} =>
                tmp # NoFile /\ contents[tmp].whole
           /\ At(n, "rename") /\ handlers[n].file.kind # "dir" =>
                tmp # NoFile /\ contents[tmp].whole

(* What was loaded.                                                        *)
LoadOK == \A n \in Requests : At(n, "ok") => env.loaded # Empty

FetchInv ==
    /\ FetchTypeOK /\ BuiltOK /\ HandlersOK /\ NamesOK /\ FilesOK /\ AloneOK
    /\ LoadOK /\ LoadedIsWhole

-----------------------------------------------------------------------------

(* How a step of handler n leaves the handlers: what it decided, where it   *)
(* is, and all others as they were.                                        *)
HandlerType == [pc : Steps, ver : 0 .. MaxVersion, built : BOOLEAN,
                file : Files \union {NoFile}, tries : Nat, cancelled : BOOLEAN]

Moves(n, pc, file) ==
    /\ handlers' \in [Requests -> HandlerType]
    /\ \A m \in Requests : m # n => handlers'[m] = handlers[m]
    /\ handlers'[n].pc = pc /\ handlers'[n].file = file

SameVersion(n) == handlers'[n].ver = handlers[n].ver /\ handlers'[n].built = handlers[n].built

(* Step and Retry move one handler.                                        *)
LEMMA StepMoves ==
    ASSUME FetchTypeOK, NEW n \in Requests, NEW pc \in Steps, Step(n, pc)
    PROVE  Moves(n, pc, handlers[n].file) /\ SameVersion(n)
<1>1. handlers \in [Requests -> HandlerType]
    BY DEF FetchTypeOK, HandlerType
<1>2. handlers' = [handlers EXCEPT ![n] = [handlers[n] EXCEPT !.pc = pc, !.tries = 0]]
    BY <1>1 DEF Step, HandlerType
<1>3. [handlers[n] EXCEPT !.pc = pc, !.tries = 0] \in HandlerType
    BY <1>1 DEF HandlerType
<1> QED
    BY <1>1, <1>2, <1>3 DEF Moves, SameVersion, HandlerType

LEMMA RetryMoves ==
    ASSUME FetchTypeOK, NEW n \in Requests, Retry(n)
    PROVE  Moves(n, handlers[n].pc, handlers[n].file) /\ SameVersion(n)
BY DEF FetchTypeOK, Retry, Moves, SameVersion, HandlerType

LEMMA LoseCounts == ASSUME FetchTypeOK, Lose PROVE lost' \in 0 .. MaxLost
BY FetcherAssumption DEF FetchTypeOK, Lose

(* The files that attempts create, and the two kinds.                      *)
LEMMA FileKinds ==
    /\ NoFile.kind = "none" /\ NoFile \notin Files
    /\ \A f \in Files : f.kind \in {"file", "dir"}
    /\ \A n \in Requests : OwnFile(n) \in Files /\ OwnFile(n).kind = "file"
    /\ \A n \in Requests : [kind |-> "dir", by |-> n] \in Files
BY DEF NoFile, Files, OwnFile

(* The invariant holds initially.                                          *)
LEMMA FetchInitInv == FetchInit => FetchInv
<1> SUFFICES ASSUME FetchInit PROVE FetchInv
    OBVIOUS
<1>1. FetchTypeOK
  <2>1. NotRunning \in HandlerType
      BY FetcherAssumption DEF NotRunning, HandlerType, Steps
  <2>2. Empty \in [ver : 0 .. MaxVersion, whole : BOOLEAN]
      BY FetcherAssumption DEF Empty, Content
  <2>3. client \in [n : Requests, state : {"send", "wait", "ok", "failed"}]
      BY FetcherAssumption DEF FetchInit, Requests
  <2>4. /\ handlers \in [Requests -> HandlerType]
        /\ contents \in [Files -> [ver : 0 .. MaxVersion, whole : BOOLEAN]]
        /\ env \in [up : BOOLEAN, loaded : [ver : 0 .. MaxVersion, whole : BOOLEAN]]
      BY <2>1, <2>2 DEF FetchInit
  <2>5. /\ pkg \in [ver : 0 .. MaxVersion, built : BOOLEAN]
        /\ built \in SUBSET (1 .. MaxVersion) /\ lost \in 0 .. MaxLost
      BY FetcherAssumption DEF FetchInit
  <2>6. /\ tmp \in Files \union {NoFile} /\ target \in Files \union {NoFile}
        /\ secrets \in BOOLEAN /\ overlapped \in BOOLEAN
      BY DEF FetchInit
  <2> QED
      BY <2>3, <2>4, <2>5, <2>6 DEF FetchInit, FetchTypeOK, HandlerType
<1>2. \A n \in Requests : handlers[n] = NotRunning
    BY DEF FetchInit
<1>3. BuiltOK /\ HandlersOK /\ NamesOK /\ FilesOK /\ AloneOK
    BY <1>2, FileKinds DEF FetchInit, BuiltOK, HandlersOK, HandlerOK, NamesOK, FilesOK, AloneOK,
       NotRunning, Fetching, UsesTmp, At
<1>4. LoadOK /\ LoadedIsWhole
    BY <1>2 DEF FetchInit, LoadOK, LoadedIsWhole, NotRunning, At
<1> QED
    BY <1>1, <1>3, <1>4 DEF FetchInv

(* A step of handler n that touches neither the volumes nor the package    *)
(* nor the environment keeps the invariant if what it needs at its next    *)
(* place is there.                                                         *)
Allowed(n, pc) ==
    /\ pc \notin {"none", "write", "rename"}
    /\ pc \in {"package", "stat", "open"} =>
          Unsent(n) \/ handlers[n].pc \in {"package", "stat", "open"}
    /\ pc = "open" => handlers'[n].built
    /\ pc \in {"verify", "unarchive"} => UsesTmp(n) /\ handlers'[n].built
    /\ pc \in {"verify", "unarchive"} /\ ~overlapped => tmp # NoFile /\ contents[tmp].whole
    /\ pc = "secrets" => target # NoFile
    /\ pc \in {"load", "ok"} => target # NoFile /\ secrets
    /\ pc = "ok" => env.loaded # Empty

LEMMA QuietStep ==
    ASSUME FetchInv, NEW n \in Requests, NEW pc \in Steps, Moves(n, pc, handlers[n].file),
           Allowed(n, pc), ~Unsent(n),
           handlers'[n].built => handlers'[n].ver \in built,
           UNCHANGED <<setting, pkg, built, tmp, target, contents, secrets, env, client,
                       overlapped>>,
           lost' \in 0 .. MaxLost
    PROVE  FetchInv'
<1> USE DEF FetchInv
<1>1. FetchTypeOK'
    BY DEF FetchTypeOK, Moves, HandlerType
<1>2. BuiltOK'
    BY DEF BuiltOK, Moves
<1>3. HandlersOK'
  <2> SUFFICES ASSUME NEW m \in Requests
               PROVE  HandlerOK(m)'
      BY DEF HandlersOK
  <2>1. CASE m = n
      BY <2>1 DEF HandlerOK, Moves, Allowed, Unsent, At, Fetching
  <2>2. CASE m # n
      BY <2>2 DEF HandlersOK, HandlerOK, Moves, Unsent, At, Fetching, Whole, Good
  <2> QED
      BY <2>1, <2>2
<1>4. NamesOK'
    BY DEF NamesOK, Moves, Allowed, Unsent, OwnFile
<1>5. FilesOK'
    BY DEF FilesOK, Good, Whole
<1>6. AloneOK'
    BY DEF AloneOK, Moves, Allowed, UsesTmp, At
<1>7. LoadOK' /\ LoadedIsWhole'
    BY DEF LoadOK, LoadedIsWhole, Moves, Allowed, At
<1> QED
    BY <1>1, <1>2, <1>3, <1>4, <1>5, <1>6, <1>7

-----------------------------------------------------------------------------
(* The handler's steps that leave the volumes alone.                       *)

(* A handler that runs has been sent.                                      *)
LEMMA Running ==
    ASSUME FetchInv, NEW n \in Requests, handlers[n].pc # "none"
    PROVE  ~Unsent(n)
BY DEF FetchInv, HandlersOK, HandlerOK, At

LEMMA GetPkgInformationStep ==
    ASSUME FetchInv, NEW n \in Requests, GetPkgInformation(n)
    PROVE  FetchInv'
<1> USE DEF FetchInv
<1>1. /\ handlers[n].pc = "package" /\ ~Unsent(n) /\ lost' \in 0 .. MaxLost
      /\ UNCHANGED <<setting, pkg, built, tmp, target, contents, secrets, env, client, overlapped>>
    BY Running DEF GetPkgInformation, At, packageVars, volumeVars, FetchTypeOK
<1>2. CASE handlers' = [handlers EXCEPT ![n].pc = "stat", ![n].tries = 0,
                                        ![n].ver = pkg.ver, ![n].built = pkg.built]
  <2>1. /\ handlers \in [Requests -> HandlerType]
        /\ pkg \in [ver : 0 .. MaxVersion, built : BOOLEAN]
      BY DEF FetchTypeOK, HandlerType
  <2> DEFINE h == [handlers[n] EXCEPT !.pc = "stat", !.tries = 0, !.ver = pkg.ver,
                                      !.built = pkg.built]
  <2>2. handlers' = [handlers EXCEPT ![n] = h]
      BY <1>2, <2>1 DEF HandlerType
  <2>3. h \in HandlerType /\ h.pc = "stat" /\ h.file = handlers[n].file /\ h.ver = pkg.ver
        /\ h.built = pkg.built
      BY <2>1 DEF HandlerType, Steps
  <2> HIDE DEF h
  <2>4. Moves(n, "stat", handlers[n].file) /\ handlers'[n] = h
      BY <2>1, <2>2, <2>3 DEF Moves
  <2>5. Allowed(n, "stat") /\ (handlers'[n].built => handlers'[n].ver \in built)
      BY <1>1, <2>3, <2>4 DEF Allowed, BuiltOK
  <2> QED
      BY <1>1, <2>4, <2>5, QuietStep DEF Steps
<1>3. CASE Retry(n)
    BY <1>1, <1>3, RetryMoves, QuietStep DEF SameVersion, Allowed, BuiltOK, Steps
<1>4. CASE Step(n, "error")
    BY <1>1, <1>4, StepMoves, QuietStep DEF SameVersion, Allowed, BuiltOK, Steps
<1> QED
    BY <1>2, <1>3, <1>4 DEF GetPkgInformation

(* Every other step of this kind is a Step: one lemma for the next places. *)
LEMMA QuietTo ==
    ASSUME FetchInv, NEW n \in Requests, NEW pc \in Steps, handlers[n].pc # "none",
           Step(n, pc), lost' \in 0 .. MaxLost,
           pc \notin {"none", "package", "stat", "write", "rename"},
           pc = "open" => handlers[n].built /\ handlers[n].pc \in {"package", "stat", "open"},
           pc \in {"verify", "unarchive"} => UsesTmp(n),
           pc \in {"verify", "unarchive"} /\ ~overlapped => tmp # NoFile /\ contents[tmp].whole,
           pc = "secrets" => target # NoFile,
           pc \in {"load", "ok"} => target # NoFile /\ secrets,
           pc = "ok" => env.loaded # Empty,
           UNCHANGED <<setting, pkg, built, tmp, target, contents, secrets, env, client,
                       overlapped>>
    PROVE  FetchInv'
<1>1. Moves(n, pc, handlers[n].file) /\ SameVersion(n)
    BY StepMoves DEF FetchInv
<1>2. ~Unsent(n)
    BY Running
<1>3. handlers'[n].built => handlers'[n].ver \in built
    BY <1>1 DEF FetchInv, BuiltOK, SameVersion
<1>4. UsesTmp(n) => handlers[n].built
    BY DEF FetchInv, HandlersOK, HandlerOK, UsesTmp, Fetching
<1>5. Allowed(n, pc)
    BY <1>1, <1>4 DEF Allowed, SameVersion
<1> QED
    BY <1>1, <1>2, <1>3, <1>5, QuietStep

LEMMA FetchStatStep ==
    ASSUME FetchInv, NEW n \in Requests, FetchStat(n)
    PROVE  FetchInv'
<1>1. /\ handlers[n].pc = "stat" /\ lost' \in 0 .. MaxLost
      /\ UNCHANGED <<setting, pkg, built, tmp, target, contents, secrets, env, client, overlapped>>
    BY DEF FetchStat, At, packageVars, volumeVars, FetchInv, FetchTypeOK
<1>2. CASE target # NoFile
  <2>1. Step(n, "secrets")
      BY <1>2, Zenon DEF FetchStat
  <2> QED
      BY <1>1, <1>2, <2>1, QuietTo DEF Steps
<1>3. CASE target = NoFile /\ handlers[n].built
  <2>1. Step(n, "open")
      BY <1>3, Zenon DEF FetchStat, Fetchable
  <2> QED
      BY <1>1, <1>3, <2>1, QuietTo DEF Steps
<1>4. CASE target = NoFile /\ ~handlers[n].built
  <2>1. Step(n, "error")
      BY <1>4, Zenon DEF FetchStat, Fetchable
  <2> QED
      BY <1>1, <2>1, QuietTo DEF Steps
<1> QED
    BY <1>2, <1>3, <1>4

LEMMA FetchBrokenStep ==
    ASSUME FetchInv, NEW n \in Requests, FetchBroken(n)
    PROVE  FetchInv'
<1>1. /\ handlers[n].pc = "write" /\ lost' \in 0 .. MaxLost
  <2>1. (UNCHANGED lost \/ Lose) /\ FetchTypeOK /\ handlers[n].pc = "write"
      BY DEF FetchBroken, At, FetchInv
  <2> QED
      BY <2>1, LoseCounts DEF FetchTypeOK
<1>2. UNCHANGED <<setting, pkg, built, tmp, target, contents, secrets, env, client, overlapped>>
    BY DEF FetchBroken, packageVars, volumeVars
<1> QED
    BY <1>1, <1>2, QuietTo DEF Steps, FetchBroken

LEMMA FetchVerifyStep ==
    ASSUME FetchInv, NEW n \in Requests, FetchVerify(n)
    PROVE  FetchInv'
<1>1. /\ handlers[n].pc = "verify" /\ lost' \in 0 .. MaxLost
      /\ UNCHANGED <<setting, pkg, built, tmp, target, contents, secrets, env, client, overlapped>>
    BY DEF FetchVerify, At, packageVars, volumeVars, FetchInv, FetchTypeOK
<1>2. UsesTmp(n) /\ (~overlapped => tmp # NoFile /\ contents[tmp].whole)
    BY <1>1 DEF FetchInv, AloneOK, UsesTmp
<1>3. Step(n, "error") \/ Step(n, "unarchive")
    BY DEF FetchVerify
<1> QED
    BY <1>1, <1>2, <1>3, QuietTo DEF Steps

LEMMA FetchSecretsStep ==
    ASSUME FetchInv, NEW n \in Requests, FetchSecretsAndCfgMaps(n)
    PROVE  FetchInv'
<1> USE DEF FetchInv
<1>1. /\ handlers[n].pc = "secrets" /\ target # NoFile
      /\ UNCHANGED <<setting, pkg, built, tmp, target, contents, env, client, overlapped>>
    BY DEF FetchSecretsAndCfgMaps, At, packageVars, HandlersOK, HandlerOK
<1>2. CASE secrets' = TRUE /\ Step(n, "load") /\ UNCHANGED lost
  <2>1. Moves(n, "load", handlers[n].file) /\ SameVersion(n)
      BY <1>2, StepMoves DEF Steps
  <2>2. FetchTypeOK'
      BY <1>1, <1>2, <2>1 DEF FetchTypeOK, Moves, HandlerType
  <2>3. BuiltOK'
      BY <1>1, <2>1 DEF BuiltOK, Moves, SameVersion
  <2>4. HandlersOK'
      BY <1>1, <1>2, <2>1 DEF HandlersOK, HandlerOK, Moves, SameVersion, Fetching, At, Unsent,
         Whole, Good
  <2>5. NamesOK' /\ FilesOK'
      BY <1>1, <2>1 DEF NamesOK, FilesOK, Moves, Unsent, OwnFile, Good, Whole
  <2>6. AloneOK'
      BY <1>1, <2>1 DEF AloneOK, Moves, UsesTmp, At
  <2>7. LoadOK' /\ LoadedIsWhole'
      BY <1>1, <1>2, <2>1 DEF LoadOK, LoadedIsWhole, Moves, At
  <2> QED
      BY <2>2, <2>3, <2>4, <2>5, <2>6, <2>7
<1>3. CASE Lose /\ Step(n, "error") /\ UNCHANGED secrets
  <2>1. lost' \in 0 .. MaxLost
      BY <1>3, LoseCounts
  <2> QED
      BY <1>1, <1>3, <2>1, QuietTo DEF Steps
<1> QED
    BY <1>2, <1>3 DEF FetchSecretsAndCfgMaps

(* What is loaded is what the target file holds.                           *)
LEMMA SpecializePodStep ==
    ASSUME FetchInv, NEW n \in Requests, SpecializePod(n)
    PROVE  FetchInv'
<1> USE DEF FetchInv
<1>1. /\ handlers[n].pc = "load" /\ target # NoFile /\ secrets /\ lost' \in 0 .. MaxLost
      /\ UNCHANGED <<setting, pkg, built, tmp, target, contents, secrets, client, lost, overlapped>>
    BY DEF SpecializePod, At, packageVars, volumeVars, HandlersOK, HandlerOK, FetchTypeOK
<1>2. CASE EnvLoads /\ Step(n, "ok")
  <2>1. Moves(n, "ok", handlers[n].file) /\ SameVersion(n)
      BY <1>2, StepMoves DEF Steps
  <2>2. contents[target] \in [ver : 0 .. MaxVersion, whole : BOOLEAN] /\ target \in Files
      BY <1>1 DEF FetchTypeOK
  <2>3. env' = [env EXCEPT !.loaded = contents[target]]
      BY <1>2 DEF EnvLoads
  <2>4. env'.loaded = contents[target] /\ env'.up = env.up
        /\ env' \in [up : BOOLEAN, loaded : [ver : 0 .. MaxVersion, whole : BOOLEAN]]
      BY <2>2, <2>3 DEF FetchTypeOK
  <2>5. contents[target].ver \in built /\ (~overlapped => contents[target].whole)
      BY <1>1 DEF FilesOK, Good
  <2>6. env'.loaded # Empty
      BY <2>4, <2>5, <2>2 DEF Empty, Content, FetchTypeOK
  <2>7. FetchTypeOK'
      BY <1>1, <2>1, <2>4 DEF FetchTypeOK, Moves, HandlerType
  <2>8. BuiltOK'
      BY <1>1, <2>1 DEF BuiltOK, Moves, SameVersion
  <2>9. HandlersOK'
      BY <1>1, <2>1 DEF HandlersOK, HandlerOK, Moves, SameVersion, Fetching, At,
         Unsent, Whole, Good
  <2>10. NamesOK' /\ FilesOK'
      BY <1>1, <2>1 DEF NamesOK, FilesOK, Moves, Unsent, OwnFile, Good, Whole
  <2>11. AloneOK'
      BY <1>1, <2>1 DEF AloneOK, Moves, UsesTmp, At
  <2>12. LoadOK' /\ LoadedIsWhole'
      BY <1>1, <2>4, <2>5, <2>6 DEF LoadOK, LoadedIsWhole
  <2> QED
      BY <2>7, <2>8, <2>9, <2>10, <2>11, <2>12
<1>3. CASE Step(n, "error") /\ UNCHANGED env
    BY <1>1, <1>3, QuietTo DEF Steps
<1>4. CASE Retry(n) /\ UNCHANGED env
    BY <1>1, <1>4, RetryMoves, QuietStep, Running DEF SameVersion, Allowed, BuiltOK, Steps
<1> QED
    BY <1>2, <1>3, <1>4 DEF SpecializePod

-----------------------------------------------------------------------------
(* The steps on the .tmp file.                                             *)

(* The file that is opened is neither the target nor a directory.          *)
LEMMA OpenedIsNew ==
    ASSUME FetchInv, NEW n \in Requests, handlers[n].pc = "open"
    PROVE  /\ Opened(n) \in Files /\ Opened(n).kind = "file" /\ Opened(n) # NoFile
           /\ Opened(n) # target
           /\ tmp # NoFile => Opened(n) = tmp
BY FileKinds DEF FetchInv, FetchTypeOK, NamesOK, Opened, OwnFile

LEMMA FetchOpenStep ==
    ASSUME FetchInv, NEW n \in Requests, FetchOpen(n)
    PROVE  FetchInv'
<1> USE DEF FetchInv
<1>1. /\ handlers[n].pc = "open" /\ ~Unsent(n) /\ lost' \in 0 .. MaxLost
      /\ UNCHANGED <<setting, pkg, built, env, client, lost>>
    BY Running DEF FetchOpen, At, packageVars, FetchTypeOK
<1>2. CASE handlers[n].cancelled
  <2>1. Step(n, "error") /\ UNCHANGED <<tmp, target, contents, secrets, overlapped>>
      BY <1>2 DEF FetchOpen, volumeVars
  <2> QED
      BY <1>1, <2>1, QuietTo DEF Steps
<1>3. CASE ~handlers[n].cancelled
  <2> DEFINE f == Opened(n)
             c == Content(handlers[n].ver, FALSE)
  <2>1. /\ tmp' = f /\ contents' = [contents EXCEPT ![f] = c]
        /\ handlers' = [handlers EXCEPT ![n].pc = "write", ![n].file = f]
        /\ overlapped' = (overlapped \/ \E m \in Requests \ {n} : UsesTmp(m))
        /\ UNCHANGED <<target, secrets>>
      BY <1>3 DEF FetchOpen
  <2>2. f \in Files /\ f.kind = "file" /\ f # NoFile /\ f # target /\ (tmp # NoFile => f = tmp)
      BY <1>1, OpenedIsNew
  <2>3. /\ c \in [ver : 0 .. MaxVersion, whole : BOOLEAN] /\ c.ver = handlers[n].ver
        /\ handlers \in [Requests -> HandlerType]
        /\ contents \in [Files -> [ver : 0 .. MaxVersion, whole : BOOLEAN]]
      BY DEF Content, FetchTypeOK, HandlerType
  <2>4. handlers[n].built /\ handlers[n].ver \in built
      BY <1>1 DEF HandlersOK, HandlerOK, Fetching, BuiltOK
  <2>5. f = tmp \/ (tmp = NoFile /\ f = OwnFile(n))
      BY DEF Opened, OwnFile
  <2> HIDE DEF f, c
  <2>6. /\ contents' \in [Files -> [ver : 0 .. MaxVersion, whole : BOOLEAN]]
        /\ contents'[f] = c /\ \A g \in Files : g # f => contents'[g] = contents[g]
      BY <2>1, <2>2, <2>3
  <2>7. Moves(n, "write", f) /\ SameVersion(n)
    <3>1. handlers' = [handlers EXCEPT ![n] = [handlers[n] EXCEPT !.pc = "write", !.file = f]]
        BY <2>1, <2>3 DEF HandlerType
    <3>2. [handlers[n] EXCEPT !.pc = "write", !.file = f] \in HandlerType
        BY <2>2, <2>3 DEF HandlerType, Steps
    <3> QED
        BY <2>3, <3>1, <3>2 DEF Moves, SameVersion, HandlerType
  <2>8. FetchTypeOK'
      BY <1>1, <2>1, <2>2, <2>6, <2>7 DEF FetchTypeOK, Moves, HandlerType
  <2>9. BuiltOK'
      BY <1>1, <2>7 DEF BuiltOK, Moves, SameVersion
  <2>10. \A g \in Files : (Good(g) => Good(g)') /\ (g # f /\ Whole(g) => Whole(g)')
      BY <1>1, <2>3, <2>4, <2>6 DEF Good, Whole
  <2>11. HandlersOK'
    <3> SUFFICES ASSUME NEW m \in Requests
                 PROVE  HandlerOK(m)'
        BY DEF HandlersOK
    <3>1. CASE m = n
        BY <1>1, <2>2, <2>4, <2>7, <3>1 DEF HandlerOK, Moves, SameVersion, Unsent, At, Fetching
    <3>2. CASE m # n
      <4>1. handlers'[m] = handlers[m] /\ Unsent(m)' = Unsent(m)
          BY <1>1, <2>7, <3>2 DEF Moves, Unsent
      <4>2. At(m, "rename") /\ handlers[m].file.kind = "dir" =>
               handlers[m].file \in Files /\ Whole(handlers[m].file)'
          BY <1>1, <2>2, <2>10, <4>1 DEF HandlersOK, HandlerOK, Whole, Good
      <4> QED
          BY <1>1, <2>1, <4>1, <4>2 DEF HandlersOK, HandlerOK, At, Fetching, Whole, Good
    <3> QED
        BY <3>1, <3>2
  <2>12. NamesOK'
    <3>1. tmp'.kind # "dir" /\ tmp' # target'
        BY <2>1, <2>2
    <3>2. ASSUME NEW m \in Requests, Unsent(m)' \/ handlers'[m].pc \in {"package", "stat", "open"}
          PROVE  tmp' # OwnFile(m) /\ target' # OwnFile(m)
      <4>1. m # n
          BY <1>1, <2>7, <3>2 DEF Moves, Unsent
      <4>2. tmp # OwnFile(m) /\ target # OwnFile(m)
          BY <1>1, <2>7, <3>2, <4>1 DEF NamesOK, Moves, Unsent
      <4>3. OwnFile(n) # OwnFile(m)
          BY <4>1 DEF OwnFile
      <4> QED
          BY <2>1, <2>5, <4>2, <4>3
    <3> QED
        BY <3>1, <3>2 DEF NamesOK
  <2>13. FilesOK'
      BY <1>1, <2>1, <2>2, <2>3, <2>4, <2>6, <2>10 DEF FilesOK, Good, Whole, FetchTypeOK
  <2>14. AloneOK'
      BY <1>1, <2>1, <2>7 DEF AloneOK, Moves, UsesTmp, At
  <2>15. LoadOK' /\ LoadedIsWhole'
      BY <1>1, <2>1, <2>7 DEF LoadOK, LoadedIsWhole, Moves, At
  <2> QED
      BY <2>8, <2>9, <2>11, <2>12, <2>13, <2>14, <2>15
<1> QED
    BY <1>2, <1>3

LEMMA FetchWrittenStep ==
    ASSUME FetchInv, NEW n \in Requests, FetchWritten(n)
    PROVE  FetchInv'
<1> USE DEF FetchInv
<1> DEFINE f == handlers[n].file
           alone == \A m \in Requests \ {n} : ~(At(m, "write") /\ handlers[m].file = f)
<1>1. /\ handlers[n].pc = "write" /\ ~Unsent(n)
      /\ UNCHANGED <<setting, pkg, built, tmp, target, secrets, env, client, lost, overlapped>>
    BY Running DEF FetchWritten, At, packageVars
<1>2. f \in Files /\ f.kind = "file" /\ handlers[n].built /\ handlers[n].ver \in built
    BY <1>1 DEF HandlersOK, HandlerOK, BuiltOK, At, Fetching
<1>3. Moves(n, "verify", f) /\ SameVersion(n)
    BY StepMoves DEF FetchWritten, Steps
<1>4. PICK whole \in BOOLEAN :
         /\ contents' = [contents EXCEPT ![f] = Content(handlers[n].ver, whole)]
         /\ alone => whole
    BY DEF FetchWritten
<1>5. /\ contents' \in [Files -> [ver : 0 .. MaxVersion, whole : BOOLEAN]]
      /\ contents'[f].ver = handlers[n].ver /\ contents'[f].whole = whole
      /\ \A g \in Files : g # f => contents'[g] = contents[g]
  <2>1. Content(handlers[n].ver, whole) \in [ver : 0 .. MaxVersion, whole : BOOLEAN]
      BY DEF Content, FetchTypeOK
  <2> QED
      BY <1>2, <1>4, <2>1 DEF FetchTypeOK, Content
<1>6. ~overlapped => whole /\ tmp = f
  <2> SUFFICES ASSUME ~overlapped PROVE whole /\ tmp = f
      OBVIOUS
  <2>1. alone
      BY <1>1 DEF AloneOK, UsesTmp, At
  <2> QED
      BY <1>1, <1>4, <2>1 DEF AloneOK, At
<1>7. \A g \in Files : (Good(g) => Good(g)') /\ (g.kind = "dir" /\ Whole(g) => Whole(g)')
    BY <1>1, <1>2, <1>5 DEF Good, Whole
<1> HIDE DEF f, alone
<1>8. FetchTypeOK'
    BY <1>1, <1>3, <1>5 DEF FetchTypeOK, Moves, HandlerType
<1>9. BuiltOK'
    BY <1>1, <1>3 DEF BuiltOK, Moves, SameVersion
<1>10. HandlersOK'
  <2> SUFFICES ASSUME NEW m \in Requests
               PROVE  HandlerOK(m)'
      BY DEF HandlersOK
  <2>1. CASE m = n
      BY <1>1, <1>2, <1>3, <2>1 DEF HandlerOK, Moves, SameVersion, Unsent, At, Fetching
  <2>2. CASE m # n
    <3>1. handlers'[m] = handlers[m] /\ Unsent(m)' = Unsent(m)
        BY <1>1, <1>3, <2>2 DEF Moves, Unsent
    <3>2. At(m, "rename") /\ handlers[m].file.kind = "dir" =>
             handlers[m].file \in Files /\ Whole(handlers[m].file)'
        BY <1>7, <3>1 DEF HandlersOK, HandlerOK, Whole, Good
    <3> QED
        BY <1>1, <3>1, <3>2 DEF HandlersOK, HandlerOK, At, Fetching, Whole, Good
  <2> QED
      BY <2>1, <2>2
<1>11. NamesOK'
    BY <1>1, <1>3 DEF NamesOK, Moves, Unsent, OwnFile
<1>12. FilesOK'
  <2>1. ~overlapped /\ target # NoFile => target # f
      BY <1>6 DEF NamesOK
  <2>2. /\ tmp # NoFile => tmp \in Files
        /\ target # NoFile => target \in Files
        /\ target.kind = "dir" => target \in Files
      BY FileKinds DEF FetchTypeOK
  <2>3. ~overlapped /\ target # NoFile => contents'[target].whole
      BY <1>5, <2>1, <2>2 DEF FilesOK
  <2>4. /\ tmp # NoFile => Good(tmp)'
        /\ target # NoFile => Good(target)'
        /\ target.kind = "dir" => Whole(target)'
      BY <1>1, <1>7, <2>2 DEF FilesOK, Good, Whole
  <2> QED
      BY <1>1, <2>3, <2>4 DEF FilesOK
<1>13. AloneOK'
  <2> SUFFICES ASSUME ~overlapped PROVE AloneOK'
      BY <1>1 DEF AloneOK
  <2>1. tmp = f /\ contents'[tmp].whole /\ tmp # NoFile
      BY <1>2, <1>5, <1>6, FileKinds
  <2>2. \A m \in Requests : UsesTmp(m)' => UsesTmp(m)
      BY <1>1, <1>3 DEF Moves, UsesTmp
  <2>3. \A m \in Requests : UsesTmp(m) => m = n
      BY <1>1 DEF AloneOK, UsesTmp
  <2> QED
      BY <1>1, <1>3, <2>1, <2>2, <2>3 DEF AloneOK, Moves, UsesTmp, At
<1>14. LoadOK' /\ LoadedIsWhole'
    BY <1>1, <1>3 DEF LoadOK, LoadedIsWhole, Moves, At
<1> QED
    BY <1>8, <1>9, <1>10, <1>11, <1>12, <1>13, <1>14

(* Unpacking moves to rename with the .tmp file, or with a directory that  *)
(* holds all that the .tmp file does.                                      *)
LEMMA FetchUnarchiveStep ==
    ASSUME FetchInv, NEW n \in Requests, FetchUnarchive(n)
    PROVE  FetchInv'
<1> USE DEF FetchInv
<1> DEFINE dir == [kind |-> "dir", by |-> n]
           Move(f) == handlers' = [handlers EXCEPT ![n].pc = "rename", ![n].file = f]
<1>1. /\ handlers[n].pc = "unarchive" /\ ~Unsent(n) /\ handlers[n].built
      /\ UNCHANGED <<setting, pkg, built, tmp, target, secrets, env, client, lost, overlapped>>
      /\ ~overlapped => tmp # NoFile /\ contents[tmp].whole
    BY Running DEF FetchUnarchive, At, packageVars, HandlersOK, HandlerOK, Fetching, AloneOK
<1>2. /\ tmp \in Files \union {NoFile} /\ tmp.kind # "dir" /\ dir \in Files /\ dir.kind = "dir"
      /\ handlers \in [Requests -> HandlerType]
      /\ contents \in [Files -> [ver : 0 .. MaxVersion, whole : BOOLEAN]]
    BY FileKinds DEF FetchTypeOK, NamesOK, HandlerType
<1>3. CASE Step(n, "error") /\ UNCHANGED contents
  <2>1. lost' \in 0 .. MaxLost
      BY <1>1 DEF FetchTypeOK
  <2> QED
      BY <1>1, <1>3, <2>1, QuietTo DEF Steps
<1>4. ASSUME NEW f \in Files \union {NoFile}, Move(f),
             \/ f = tmp /\ UNCHANGED contents
             \/ /\ f = dir /\ tmp # NoFile /\ contents[tmp].whole
                /\ contents' = [contents EXCEPT ![dir] = contents[tmp]]
      PROVE  FetchInv'
  <2>1. Moves(n, "rename", f) /\ SameVersion(n)
    <3>1. handlers' = [handlers EXCEPT ![n] = [handlers[n] EXCEPT !.pc = "rename", !.file = f]]
        BY <1>2, <1>4 DEF HandlerType
    <3>2. [handlers[n] EXCEPT !.pc = "rename", !.file = f] \in HandlerType
        BY <1>2, <1>4 DEF HandlerType, Steps
    <3> QED
        BY <1>2, <3>1, <3>2 DEF Moves, SameVersion, HandlerType
  <2>2. /\ contents' \in [Files -> [ver : 0 .. MaxVersion, whole : BOOLEAN]]
        /\ \A g \in Files : g # dir => contents'[g] = contents[g]
        /\ \/ UNCHANGED contents
           \/ tmp # NoFile /\ contents[tmp].whole /\ contents'[dir] = contents[tmp]
    <3>1. CASE UNCHANGED contents
        BY <1>2, <3>1
    <3>2. CASE /\ tmp # NoFile /\ contents[tmp].whole
               /\ contents' = [contents EXCEPT ![dir] = contents[tmp]]
      <4>1. contents[tmp] \in [ver : 0 .. MaxVersion, whole : BOOLEAN]
          BY <1>2, <3>2
      <4> HIDE DEF dir
      <4> QED
          BY <1>2, <3>2, <4>1
    <3> QED
        BY <1>4, <3>1, <3>2
  <2>3. \A g \in Files : (Good(g) => Good(g)') /\ (Whole(g) => Whole(g)')
      BY <1>1, <1>2, <2>2 DEF Good, Whole, FilesOK
  <2>4. f.kind = "dir" => f \in Files /\ Whole(f)'
      BY <1>1, <1>2, <1>4, <2>2 DEF FilesOK, Good, Whole
  <2>5. f.kind # "dir" => f = tmp
      BY <1>2, <1>4
  <2> HIDE DEF dir, Move
  <2>6. FetchTypeOK'
      BY <1>1, <2>1, <2>2 DEF FetchTypeOK, Moves, HandlerType
  <2>7. BuiltOK'
      BY <1>1, <2>1 DEF BuiltOK, Moves, SameVersion
  <2>8. HandlersOK'
    <3> SUFFICES ASSUME NEW m \in Requests
                 PROVE  HandlerOK(m)'
        BY DEF HandlersOK
    <3>1. CASE m = n
      <4>1. handlers'[m].pc = "rename" /\ handlers'[m].file = f /\ handlers'[m].built
            /\ ~Unsent(m)'
          BY <1>1, <2>1, <3>1 DEF Moves, SameVersion, Unsent
      <4>2. handlers'[m].file.kind = "dir" => handlers'[m].file \in Files
                                              /\ Whole(handlers[m].file)'
          BY <2>4, <4>1 DEF Whole, Good
      <4> QED
          BY <4>1, <4>2 DEF HandlerOK, At, Fetching
    <3>2. CASE m # n
      <4>1. handlers'[m] = handlers[m] /\ Unsent(m)' = Unsent(m)
          BY <1>1, <2>1, <3>2 DEF Moves, Unsent
      <4>2. At(m, "rename") /\ handlers[m].file.kind = "dir" =>
               handlers[m].file \in Files /\ Whole(handlers[m].file)'
          BY <2>3, <4>1 DEF HandlersOK, HandlerOK, Whole, Good
      <4> QED
          BY <1>1, <4>1, <4>2 DEF HandlersOK, HandlerOK, At, Fetching, Whole, Good
    <3> QED
        BY <3>1, <3>2
  <2>9. NamesOK'
      BY <1>1, <2>1 DEF NamesOK, Moves, Unsent, OwnFile
  <2>10. /\ tmp # NoFile => tmp \in Files /\ contents'[tmp] = contents[tmp]
         /\ target # NoFile => target \in Files
         /\ target.kind = "dir" => target \in Files
      BY <1>2, <2>2, FileKinds DEF FetchTypeOK, dir
  <2>11. FilesOK'
      BY <1>1, <2>2, <2>3, <2>10 DEF FilesOK, Good, Whole
  <2>12. AloneOK'
    <3> SUFFICES ASSUME ~overlapped PROVE AloneOK'
        BY <1>1 DEF AloneOK
    <3>1. \A m \in Requests : UsesTmp(m)' => m = n
        BY <1>1, <2>1 DEF AloneOK, Moves, UsesTmp
    <3> QED
        BY <1>1, <2>1, <2>10, <3>1 DEF AloneOK, Moves, UsesTmp, At
  <2>13. LoadOK' /\ LoadedIsWhole'
      BY <1>1, <2>1 DEF LoadOK, LoadedIsWhole, Moves, At
  <2> QED
      BY <2>6, <2>7, <2>8, <2>9, <2>11, <2>12, <2>13
<1>5. CASE Move(tmp) /\ UNCHANGED contents
    BY <1>2, <1>4, <1>5
<1>6. CASE /\ Move(dir) /\ tmp # NoFile /\ contents[tmp].whole
           /\ contents' = [contents EXCEPT ![dir] = contents[tmp]]
    BY <1>2, <1>4, <1>6
<1> HIDE DEF Move
<1> QED
    BY <1>3, <1>5, <1>6 DEF FetchUnarchive, Move

LEMMA FetchRenameStep ==
    ASSUME FetchInv, NEW n \in Requests, FetchRename(n)
    PROVE  FetchInv'
<1> USE DEF FetchInv
<1> DEFINE f == handlers[n].file
<1>1. /\ handlers[n].pc = "rename" /\ ~Unsent(n)
      /\ UNCHANGED <<setting, pkg, built, contents, secrets, env, client, lost, overlapped>>
    BY Running DEF FetchRename, At, packageVars
<1>2. \/ f.kind = "dir" /\ target = NoFile /\ target' = f /\ UNCHANGED tmp /\ Step(n, "secrets")
      \/ /\ f.kind # "dir" /\ tmp # NoFile /\ target.kind # "dir"
         /\ target' = tmp /\ tmp' = NoFile /\ Step(n, "secrets")
      \/ Step(n, "error") /\ UNCHANGED <<tmp, target>>
    BY DEF FetchRename
<1>3. CASE Step(n, "error") /\ UNCHANGED <<tmp, target>>
  <2>1. lost' \in 0 .. MaxLost
      BY <1>1 DEF FetchTypeOK
  <2> QED
      BY <1>1, <1>3, <2>1, QuietTo DEF Steps
<1>4. ASSUME Step(n, "secrets"),
             \/ f.kind = "dir" /\ target = NoFile /\ target' = f /\ UNCHANGED tmp
             \/ f.kind # "dir" /\ tmp # NoFile /\ target' = tmp /\ tmp' = NoFile
      PROVE  FetchInv'
  <2>1. Moves(n, "secrets", f) /\ SameVersion(n)
      BY <1>4, StepMoves DEF Steps
  <2>2. target' \in Files /\ target' # NoFile /\ tmp' \in Files \union {NoFile}
      BY <1>1, <1>4, FileKinds DEF FetchTypeOK, HandlersOK, HandlerOK, At
  <2>3. FetchTypeOK'
      BY <1>1, <2>1, <2>2 DEF FetchTypeOK, Moves, HandlerType
  <2>4. BuiltOK'
      BY <1>1, <2>1 DEF BuiltOK, Moves, SameVersion
  <2>5. HandlersOK'
      BY <1>1, <2>1, <2>2 DEF HandlersOK, HandlerOK, Moves, Unsent, At, Fetching, Whole, Good
  <2>6. NamesOK'
    <3>1. tmp'.kind # "dir" /\ (tmp' # NoFile => tmp' # target')
        BY <1>4, FileKinds DEF NamesOK
    <3>2. ASSUME NEW m \in Requests, Unsent(m)' \/ handlers'[m].pc \in {"package", "stat", "open"}
          PROVE  tmp' # OwnFile(m) /\ target' # OwnFile(m)
      <4>1. tmp # OwnFile(m) /\ target # OwnFile(m)
          BY <1>1, <2>1, <3>2 DEF NamesOK, Moves, Unsent
      <4> QED
          BY <1>4, <4>1, FileKinds
    <3> QED
        BY <3>1, <3>2 DEF NamesOK
  <2>7. FilesOK'
    <3>1. CASE f.kind = "dir" /\ target = NoFile /\ target' = f /\ UNCHANGED tmp
        BY <1>1, <3>1 DEF FilesOK, HandlersOK, HandlerOK, At, Good, Whole
    <3>2. CASE f.kind # "dir" /\ tmp # NoFile /\ target' = tmp /\ tmp' = NoFile
      <4>1. ~overlapped => contents[tmp].whole
          BY <1>1, <3>2 DEF AloneOK, At
      <4> QED
          BY <1>1, <3>2, <4>1 DEF FilesOK, NamesOK, Good, Whole
    <3> QED
        BY <1>4, <3>1, <3>2
  <2>8. AloneOK'
    <3> SUFFICES ASSUME ~overlapped PROVE AloneOK'
        BY <1>1 DEF AloneOK
    <3>1. \A m \in Requests : ~UsesTmp(m)'
        BY <1>1, <2>1 DEF AloneOK, Moves, UsesTmp
    <3> QED
        BY <3>1 DEF AloneOK, UsesTmp, At
  <2>9. LoadOK' /\ LoadedIsWhole'
      BY <1>1, <2>1 DEF LoadOK, LoadedIsWhole, Moves, At
  <2> QED
      BY <2>3, <2>4, <2>5, <2>6, <2>7, <2>8, <2>9
<1> QED
    BY <1>2, <1>3, <1>4

-----------------------------------------------------------------------------
(* The package, the environment, the client and the fetcher's process.     *)

LEMMA PackageChangesStep ==
    ASSUME FetchInv, PackageChanges
    PROVE  FetchInv'
<1> USE DEF FetchInv
<1>1. UNCHANGED <<setting, tmp, target, contents, secrets, env, handlers, client, lost, overlapped>>
    BY DEF PackageChanges, volumeVars
<1>2. /\ pkg' \in [ver : 0 .. MaxVersion, built : BOOLEAN]
      /\ built' \in SUBSET (1 .. MaxVersion) /\ built \subseteq built'
      /\ pkg'.built => pkg'.ver \in built'
  <2>1. pkg \in [ver : 0 .. MaxVersion, built : BOOLEAN] /\ built \in SUBSET (1 .. MaxVersion)
      BY DEF FetchTypeOK
  <2>2. CASE pkg.ver < MaxVersion /\ pkg' = [ver |-> pkg.ver + 1, built |-> FALSE]
             /\ UNCHANGED built
      BY <2>1, <2>2, FetcherAssumption
  <2>3. CASE /\ pkg.ver > 0 /\ ~pkg.built
             /\ pkg' = [pkg EXCEPT !.built = TRUE] /\ built' = built \union {pkg.ver}
    <3>1. pkg' \in [ver : 0 .. MaxVersion, built : BOOLEAN] /\ pkg'.ver = pkg.ver
        BY <2>1, <2>3
    <3>2. pkg.ver \in 1 .. MaxVersion
        BY <2>1, <2>3, FetcherAssumption
    <3> QED
        BY <2>1, <2>3, <3>1, <3>2
  <2> QED
      BY <2>2, <2>3 DEF PackageChanges
<1>3. FetchTypeOK'
    BY <1>1, <1>2 DEF FetchTypeOK
<1>4. BuiltOK'
    BY <1>1, <1>2 DEF BuiltOK
<1>5. HandlersOK'
    BY <1>1, <1>2 DEF HandlersOK, HandlerOK, Unsent, At, Fetching, Whole, Good
<1>6. NamesOK' /\ AloneOK' /\ LoadOK'
    BY <1>1 DEF NamesOK, AloneOK, LoadOK, Unsent, OwnFile, UsesTmp, At
<1>7. FilesOK'
    BY <1>1, <1>2 DEF FilesOK, Good, Whole
<1>8. LoadedIsWhole'
    BY <1>1, <1>2 DEF LoadedIsWhole
<1> QED
    BY <1>3, <1>4, <1>5, <1>6, <1>7, <1>8

LEMMA EnvStartsStep ==
    ASSUME FetchInv, EnvStarts
    PROVE  FetchInv'
<1> USE DEF FetchInv
<1>1. UNCHANGED <<setting, pkg, built, tmp, target, contents, secrets, handlers, client, lost,
                  overlapped>>
    BY DEF EnvStarts, volumeVars, packageVars
<1>2. /\ env' \in [up : BOOLEAN, loaded : [ver : 0 .. MaxVersion, whole : BOOLEAN]]
      /\ env'.loaded = env.loaded
    BY DEF EnvStarts, FetchTypeOK
<1>3. FetchTypeOK'
    BY <1>1, <1>2 DEF FetchTypeOK
<1>4. BuiltOK' /\ NamesOK' /\ AloneOK' /\ FilesOK'
    BY <1>1 DEF BuiltOK, NamesOK, AloneOK, FilesOK, Unsent, OwnFile, UsesTmp, At, Good, Whole
<1>5. HandlersOK'
    BY <1>1 DEF HandlersOK, HandlerOK, Unsent, At, Fetching, Whole, Good
<1>6. LoadOK' /\ LoadedIsWhole'
    BY <1>1, <1>2 DEF LoadOK, LoadedIsWhole, At
<1> QED
    BY <1>3, <1>4, <1>5, <1>6

(* The attempts still to be sent become fewer.                             *)
LEMMA SendStep ==
    ASSUME FetchInv, NEW n \in Requests, Send(n)
    PROVE  FetchInv'
<1> USE DEF FetchInv
<1>1. /\ UNCHANGED <<setting, pkg, built, tmp, target, contents, secrets, env, lost, overlapped>>
      /\ client.n = n /\ client.state = "send" /\ client' = [client EXCEPT !.state = "wait"]
      /\ Unsent(n)
    BY DEF Send, volumeVars, packageVars, Unsent
<1>2. Moves(n, "package", handlers[n].file) /\ SameVersion(n)
    BY StepMoves DEF Send, Steps
<1>3. /\ client' \in [n : Requests, state : {"send", "wait", "ok", "failed"}]
      /\ client'.n = n /\ client'.state = "wait"
    BY <1>1 DEF FetchTypeOK
<1>4. \A m \in Requests : Unsent(m)' => Unsent(m) /\ m # n
    BY <1>1, <1>3 DEF Unsent, Requests
<1>5. FetchTypeOK'
    BY <1>1, <1>2, <1>3 DEF FetchTypeOK, Moves, HandlerType
<1>6. BuiltOK' /\ FilesOK'
    BY <1>1, <1>2 DEF BuiltOK, FilesOK, Moves, SameVersion, Good, Whole
<1>7. HandlersOK'
    BY <1>1, <1>2, <1>4 DEF HandlersOK, HandlerOK, Moves, At, Fetching, Whole, Good
<1>8. NamesOK'
    BY <1>1, <1>2, <1>4 DEF NamesOK, Moves, OwnFile
<1>9. AloneOK'
    BY <1>1, <1>2 DEF AloneOK, Moves, UsesTmp, At
<1>10. LoadOK' /\ LoadedIsWhole'
    BY <1>1, <1>2, <1>3 DEF LoadOK, LoadedIsWhole, Moves, At
<1> QED
    BY <1>5, <1>6, <1>7, <1>8, <1>9, <1>10

(* After an attempt that was sent.                                         *)
LEMMA NextAttemptSends ==
    ASSUME FetchTypeOK, NEW n \in Requests, client.n = n, client.state = "wait", NextAttempt(n)
    PROVE  /\ client' \in [n : Requests, state : {"send", "wait", "ok", "failed"}]
           /\ client'.state # "ok"
           /\ \A m \in Requests : Unsent(m)' => Unsent(m)
BY FetcherAssumption DEF FetchTypeOK, NextAttempt, Unsent, Requests

LEMMA ReceiveStep ==
    ASSUME FetchInv, NEW n \in Requests, Receive(n)
    PROVE  FetchInv'
<1> USE DEF FetchInv
<1>1. /\ UNCHANGED <<setting, pkg, built, tmp, target, contents, secrets, env, handlers, lost,
                     overlapped>>
      /\ client.n = n /\ client.state = "wait"
    BY DEF Receive, volumeVars, packageVars
<1>2. /\ client' \in [n : Requests, state : {"send", "wait", "ok", "failed"}]
      /\ client'.state = "ok" => At(n, "ok")
      /\ \A m \in Requests : Unsent(m)' => Unsent(m)
  <2>1. CASE At(n, "ok") /\ client' = [client EXCEPT !.state = "ok"]
      BY <1>1, <2>1 DEF FetchTypeOK, Unsent
  <2>2. CASE NextAttempt(n)
      BY <1>1, <2>2, NextAttemptSends
  <2> QED
      BY <2>1, <2>2 DEF Receive
<1>3. FetchTypeOK'
    BY <1>1, <1>2 DEF FetchTypeOK
<1>4. BuiltOK' /\ FilesOK' /\ AloneOK' /\ LoadOK'
    BY <1>1 DEF BuiltOK, FilesOK, AloneOK, LoadOK, Good, Whole, UsesTmp, At
<1>5. HandlersOK'
    BY <1>1, <1>2 DEF HandlersOK, HandlerOK, At, Fetching, Whole, Good
<1>6. NamesOK'
    BY <1>1, <1>2 DEF NamesOK, OwnFile
<1>7. LoadedIsWhole'
    BY <1>1, <1>2 DEF LoadedIsWhole, LoadOK
<1> QED
    BY <1>3, <1>4, <1>5, <1>6, <1>7

LEMMA DisconnectStep ==
    ASSUME FetchInv, NEW n \in Requests, Disconnect(n)
    PROVE  FetchInv'
<1> USE DEF FetchInv
<1>1. /\ UNCHANGED <<setting, pkg, built, tmp, target, contents, secrets, env, overlapped>>
      /\ client.n = n /\ client.state = "wait" /\ NextAttempt(n) /\ lost' \in 0 .. MaxLost
    BY LoseCounts DEF Disconnect, volumeVars, packageVars
<1>2. Moves(n, handlers[n].pc, handlers[n].file) /\ SameVersion(n)
  <2>1. handlers \in [Requests -> HandlerType]
      BY DEF FetchTypeOK, HandlerType
  <2>2. handlers' = [handlers EXCEPT ![n] = [handlers[n] EXCEPT !.cancelled = TRUE]]
      BY <2>1 DEF Disconnect, HandlerType
  <2>3. [handlers[n] EXCEPT !.cancelled = TRUE] \in HandlerType
      BY <2>1 DEF HandlerType
  <2> QED
      BY <2>1, <2>2, <2>3 DEF Moves, SameVersion, HandlerType
<1>3. /\ client' \in [n : Requests, state : {"send", "wait", "ok", "failed"}]
      /\ client'.state # "ok"
      /\ \A m \in Requests : Unsent(m)' => Unsent(m)
    BY <1>1, NextAttemptSends
<1>4. FetchTypeOK'
    BY <1>1, <1>2, <1>3 DEF FetchTypeOK, Moves, HandlerType
<1>5. \A m \in Requests : /\ handlers'[m].pc = handlers[m].pc
                          /\ handlers'[m].file = handlers[m].file
                          /\ handlers'[m].ver = handlers[m].ver
                          /\ handlers'[m].built = handlers[m].built
    BY <1>2 DEF Moves, SameVersion
<1>6. BuiltOK' /\ FilesOK' /\ AloneOK'
    BY <1>1, <1>5 DEF BuiltOK, FilesOK, AloneOK, Good, Whole, UsesTmp, At
<1>7. HandlersOK'
    BY <1>1, <1>3, <1>5 DEF HandlersOK, HandlerOK, At, Fetching, Whole, Good
<1>8. NamesOK'
    BY <1>1, <1>3, <1>5 DEF NamesOK, OwnFile
<1>9. LoadOK' /\ LoadedIsWhole'
    BY <1>1, <1>3, <1>5 DEF LoadOK, LoadedIsWhole, At
<1> QED
    BY <1>4, <1>6, <1>7, <1>8, <1>9

(* A restart keeps the volumes, with a broken .tmp file if need be.        *)
LEMMA FetcherRestartStep ==
    ASSUME FetchInv, FetcherRestart
    PROVE  FetchInv'
<1> USE DEF FetchInv
<1>1. /\ UNCHANGED <<setting, pkg, built, tmp, target, contents, secrets, env, overlapped>>
      /\ client.n \in Requests /\ client.state = "wait" /\ NextAttempt(client.n)
      /\ lost' \in 0 .. MaxLost
    BY LoseCounts DEF FetcherRestart, volumeVars, packageVars, FetchTypeOK
<1>2. /\ client' \in [n : Requests, state : {"send", "wait", "ok", "failed"}]
      /\ client'.state # "ok"
      /\ \A m \in Requests : Unsent(m)' => Unsent(m)
    BY <1>1, NextAttemptSends
<1>3. NotRunning \in HandlerType
    BY FetcherAssumption DEF NotRunning, HandlerType, Steps
<1>4. /\ handlers' \in [Requests -> HandlerType]
      /\ \A m \in Requests : handlers'[m].pc = "none" /\ ~handlers'[m].built
    BY <1>3 DEF FetcherRestart, NotRunning
<1>5. FetchTypeOK'
    BY <1>1, <1>2, <1>4 DEF FetchTypeOK, HandlerType
<1>6. BuiltOK' /\ FilesOK' /\ AloneOK'
    BY <1>1, <1>4 DEF BuiltOK, FilesOK, AloneOK, Good, Whole, UsesTmp, At
<1>7. HandlersOK'
    BY <1>4 DEF HandlersOK, HandlerOK, At, Fetching
<1>8. NamesOK'
    BY <1>1, <1>2, <1>4 DEF NamesOK, OwnFile
<1>9. LoadOK' /\ LoadedIsWhole'
    BY <1>1, <1>2, <1>4 DEF LoadOK, LoadedIsWhole, At
<1> QED
    BY <1>5, <1>6, <1>7, <1>8, <1>9

LEMMA FetchStutter == ASSUME FetchInv, UNCHANGED fetchVars PROVE FetchInv'
<1> USE DEF FetchInv, fetchVars, volumeVars, packageVars
<1>1. FetchTypeOK' /\ BuiltOK' /\ NamesOK' /\ FilesOK'
    BY DEF FetchTypeOK, BuiltOK, NamesOK, FilesOK, Unsent, OwnFile, Good, Whole
<1>2. HandlersOK'
    BY DEF HandlersOK, HandlerOK, Unsent, At, Fetching, Whole, Good
<1>3. AloneOK' /\ LoadOK' /\ LoadedIsWhole'
    BY DEF AloneOK, LoadOK, LoadedIsWhole, UsesTmp, At
<1> QED
    BY <1>1, <1>2, <1>3

-----------------------------------------------------------------------------
LEMMA FetchInductive == FetchInv /\ [FetchNext]_fetchVars => FetchInv'
<1> SUFFICES ASSUME FetchInv, [FetchNext]_fetchVars PROVE FetchInv'
    OBVIOUS
<1>1. CASE PackageChanges
    BY <1>1, PackageChangesStep
<1>2. CASE EnvStarts
    BY <1>2, EnvStartsStep
<1>3. CASE FetcherRestart
    BY <1>3, FetcherRestartStep
<1>4. CASE UNCHANGED fetchVars \/ Ended
    BY <1>4, FetchStutter DEF Ended
<1>5. ASSUME NEW n \in Requests, Send(n) \/ Receive(n) \/ Disconnect(n)
      PROVE  FetchInv'
    BY <1>5, SendStep, ReceiveStep, DisconnectStep
<1>6. ASSUME NEW n \in Requests, Fetch(n)
      PROVE  FetchInv'
    BY <1>6, FetchStatStep, FetchOpenStep, FetchWrittenStep, FetchBrokenStep, FetchVerifyStep,
       FetchUnarchiveStep, FetchRenameStep DEF Fetch
<1>7. ASSUME NEW n \in Requests,
             GetPkgInformation(n) \/ FetchSecretsAndCfgMaps(n) \/ SpecializePod(n)
      PROVE  FetchInv'
    BY <1>7, GetPkgInformationStep, FetchSecretsStep, SpecializePodStep
<1> QED
    BY <1>1, <1>2, <1>3, <1>4, <1>5, <1>6, <1>7 DEF FetchNext, SpecializeHandler

(* The inductive invariant holds always.                                   *)
THEOREM FetchInvariance == FetchSpec => []FetchInv
BY FetchInitInv, FetchInductive, PTL DEF FetchSpec

(* Every variable of the fetcher keeps its type.                           *)
THEOREM FetchTypeCorrect == FetchSpec => []FetchTypeOK
<1>1. FetchInv => FetchTypeOK
    BY DEF FetchInv
<1> QED
    BY <1>1, FetchInvariance, PTL

(* However many attempts were made, downloads broke off or restarts came   *)
(* between, a pod that reports its specialization as done has loaded       *)
(* something, which is of a version that was built, with its secrets in    *)
(* place, and whole unless two attempts used the .tmp file together.       *)
THEOREM LoadSafety == FetchSpec => []LoadedIsWhole
<1>1. FetchInv => LoadedIsWhole
    BY DEF FetchInv
<1> QED
    BY <1>1, FetchInvariance, PTL
=============================================================================
