---------------------------- MODULE SkillBundles ----------------------------
(***************************************************************************)
(* Skill bundles (contracts/src/skill-bundle.ts): an author describes a    *)
(* bundle in a manifest, a lock is built of the manifest and the files'    *)
(* bytes, and a later verification walks a directory and reads file after  *)
(* file while the author goes on writing.  The lock lies in a file and may *)
(* be changed.                                                             *)
(*                                                                         *)
(* A digest is what it was taken of; bytes are a model value with a size.  *)
(***************************************************************************)
EXTENDS Naturals, FiniteSets, Sequences, SequencesExt

CONSTANTS
  BundlePaths,         \* safe paths, in the order of the sort
  PathAlias,           \* path -> what it is when case is ignored
  ByteSize,            \* bytes -> their length
  MaxFileSize,         \* of a lock's file
  BundleManifests,     \* [id, version, source, files: path -> [role, media],
                       \* limitations, dependencies, consumers, grants]
  Consumers, MaxWrites, NoBundle

VARIABLES
  bnManifest,
  bnDisk,              \* path -> bytes, or a link
  bnWrites,            \* what the author wrote so far
  bnBuilt,             \* the lock as built
  bnLock,              \* the lock in its file
  bnWalk,              \* what the walk of a verification found
  bnSeen,              \* what it read: path -> bytes
  bnEvidence

bnVars == <<bnManifest, bnDisk, bnWrites, bnBuilt, bnLock, bnWalk, bnSeen, bnEvidence>>
bnVerification == <<bnWalk, bnSeen, bnEvidence>>

PathBefore(p, q) == \E i, j \in DOMAIN BundlePaths : i <= j /\ BundlePaths[i] = p /\ BundlePaths[j] = q

(* uniqueSortedObjects(): no two paths are one when case is ignored.       *)
NoAliases(paths) == \A p, q \in paths : PathAlias[p] = PathAlias[q] => p = q
HasEntrypoint(files) == "SKILL.md" \in DOMAIN files /\ files["SKILL.md"].role = "ENTRYPOINT"

(* normalizeCompatibility(), normalizeAuthority(): there is one value each *)
(* may have.                                                               *)
NormalCompatibility(c) == c = Consumers
NormalAuthority(a) == a = {}

(* normalizeSkillBundleManifestV1().                                       *)
ValidManifest(m) ==
  /\ m.source = "LOCAL_CONTENT" /\ m.limitations /\ m.dependencies
  /\ DOMAIN m.files # {} /\ NoAliases(DOMAIN m.files) /\ HasEntrypoint(m.files)
  /\ NormalCompatibility(m.consumers) /\ NormalAuthority(m.grants)

(***************************************************************************)
(* The lock                                                                *)
(***************************************************************************)
Identity(l) == [id |-> l.id, version |-> l.version, files |-> l.fileSetDigest, manifest |-> l.manifestDigest]

(* buildSkillBundleLockV1(): the inputs are the manifest's paths, no more. *)
CanLock(m, inputs) == ValidManifest(m) /\ DOMAIN inputs = DOMAIN m.files

LockOver(m, files) ==
  LET core == [id |-> m.id, version |-> m.version, manifestDigest |-> m, fileSetDigest |-> files, source |-> files, files |-> files,
               consumers |-> m.consumers, grants |-> m.grants]
  IN [core |-> core, identity |-> Identity(core), lkg |-> Identity(core)]

BuiltLock(m, inputs) ==
  LockOver(m, [p \in DOMAIN m.files |-> [role |-> m.files[p].role, media |-> m.files[p].media, size |-> ByteSize[inputs[p]], bytes |-> inputs[p]]])

(* verifySkillBundleLockV1(), parseLockFile().                             *)
ValidLock(l) ==
  LET c == l.core IN
  /\ c.source = c.fileSetDigest /\ DOMAIN c.files # {} /\ NoAliases(DOMAIN c.files) /\ HasEntrypoint(c.files)
  /\ \A p \in DOMAIN c.files : c.files[p].size <= MaxFileSize
  /\ c.files = c.fileSetDigest /\ l.identity = Identity(c) /\ l.lkg = l.identity
  /\ NormalCompatibility(c.consumers) /\ NormalAuthority(c.grants)

(* assertSkillBundleCompatibilityV1().                                     *)
Compatible(l, consumer, runtime, schemas) ==
  ValidLock(l) /\ runtime = "OPENCLAW" /\ schemas = "v1" /\ consumer \in l.core.consumers

BundleInit ==
  /\ bnManifest \in BundleManifests
  /\ bnDisk = [p \in DOMAIN bnManifest.files |-> CHOOSE b \in DOMAIN ByteSize : ByteSize[b] = 1]
  /\ bnWrites = 0 /\ bnBuilt = NoBundle /\ bnLock = NoBundle /\ bnWalk = NoBundle /\ bnSeen = <<>> /\ bnEvidence = NoBundle

(* The author writes a file, links it, or removes it.                      *)
AuthorWrites ==
  /\ bnWrites < MaxWrites /\ bnWrites' = bnWrites + 1
  /\ \E p \in ToSet(BundlePaths) :
       \/ \E b \in DOMAIN ByteSize \cup {"LINK"} : bnDisk' = [q \in DOMAIN bnDisk \cup {p} |-> IF q = p THEN b ELSE bnDisk[q]]
       \/ p \in DOMAIN bnDisk /\ bnDisk' = [q \in DOMAIN bnDisk \ {p} |-> bnDisk[q]]
  /\ UNCHANGED <<bnManifest, bnBuilt, bnLock, bnVerification>>

LockBuilt ==
  /\ bnBuilt = NoBundle /\ "LINK" \notin {bnDisk[p] : p \in DOMAIN bnDisk} /\ CanLock(bnManifest, bnDisk)
  /\ bnBuilt' = BuiltLock(bnManifest, bnDisk) /\ bnLock' = bnBuilt'
  /\ UNCHANGED <<bnManifest, bnDisk, bnWrites, bnVerification>>

(* The lock's file is changed in one field, or in the field and in every   *)
(* digest over it.                                                         *)
LockEdits(l) ==
  {[l EXCEPT !.core.version = "2.0.0"], [l EXCEPT !.core.grants = {"any"}], [l EXCEPT !.core.consumers = {"ROLLBACK"}],
   [l EXCEPT !.core.files["SKILL.md"].bytes = "other"], [l EXCEPT !.core.files["SKILL.md"].role = "DOC"], [l EXCEPT !.lkg.version = "2.0.0"]}
Relocked(core) ==
  LET c == [core EXCEPT !.fileSetDigest = core.files, !.source = core.files] IN [core |-> c, identity |-> Identity(c), lkg |-> Identity(c)]

LockEdited ==
  /\ bnLock # NoBundle /\ bnLock = bnBuilt /\ bnWalk = NoBundle
  /\ bnLock' \in LockEdits(bnLock) \cup {Relocked(l.core) : l \in LockEdits(bnLock)}
  /\ UNCHANGED <<bnManifest, bnDisk, bnWrites, bnBuilt, bnVerification>>

(***************************************************************************)
(* verifySkillBundleExactFilesV1()                                         *)
(***************************************************************************)
(* walkFiles(): a link anywhere denies, and so does a file that is not     *)
(* declared or is missing.                                                 *)
Walks ==
  /\ bnLock # NoBundle /\ bnWalk = NoBundle /\ ValidLock(bnLock)
  /\ "LINK" \notin {bnDisk[p] : p \in DOMAIN bnDisk} /\ DOMAIN bnDisk = DOMAIN bnLock.core.files
  /\ bnWalk' = DOMAIN bnDisk
  /\ UNCHANGED <<bnManifest, bnDisk, bnWrites, bnBuilt, bnLock, bnSeen, bnEvidence>>

(* readSafeFile(): one file after the other, in the lock's order.          *)
ReadsFile ==
  /\ bnWalk # NoBundle
  /\ \E p \in bnWalk \ DOMAIN bnSeen :
     /\ \A q \in bnWalk \ DOMAIN bnSeen : PathBefore(p, q)
     /\ p \in DOMAIN bnDisk /\ bnDisk[p] # "LINK"
     /\ bnDisk[p] = bnLock.core.files[p].bytes /\ ByteSize[bnDisk[p]] = bnLock.core.files[p].size
     /\ bnSeen' = [q \in DOMAIN bnSeen \cup {p} |-> IF q = p THEN bnDisk[p] ELSE bnSeen[q]]
  /\ UNCHANGED <<bnManifest, bnDisk, bnWrites, bnBuilt, bnLock, bnWalk, bnEvidence>>

SumOf(sizes) == FoldFunction(LAMBDA m, n : m + n, 0, sizes)

EvidenceMade ==
  /\ bnWalk # NoBundle /\ bnEvidence = NoBundle /\ DOMAIN bnSeen = bnWalk
  /\ bnEvidence' = [identity |-> bnLock.identity, files |-> Cardinality(DOMAIN bnLock.core.files), consumers |-> bnLock.core.consumers,
                    material |-> SumOf([p \in bnWalk |-> ByteSize[bnSeen[p]]])]
  /\ UNCHANGED <<bnManifest, bnDisk, bnWrites, bnBuilt, bnLock, bnWalk, bnSeen>>

BundleNext == AuthorWrites \/ LockBuilt \/ LockEdited \/ Walks \/ ReadsFile \/ EvidenceMade

(***************************************************************************)
(* Properties                                                              *)
(***************************************************************************)
(* A lock's identity binds the whole lock: one that verifies and has the   *)
(* identity of the lock that was built is that lock, whatever was changed  *)
(* in the file.  A lock that was built verifies, for every consumer, as    *)
(* long as no file is larger than the verifier takes - the builder takes   *)
(* any.  Evidence is of exactly the lock's files, each with the lock's     *)
(* bytes when it was read, and tells their length.                         *)
EvidenceCoversItsLock ==
  /\ bnLock # NoBundle /\ ValidLock(bnLock) /\ bnLock.identity = bnBuilt.identity => bnLock = bnBuilt
  /\ bnBuilt # NoBundle =>
       LET small == \A p \in DOMAIN bnBuilt.core.files : bnBuilt.core.files[p].size <= MaxFileSize IN
       \A consumer \in Consumers : Compatible(bnBuilt, consumer, "OPENCLAW", "v1") = small
  /\ bnEvidence # NoBundle =>
       /\ bnSeen = [p \in DOMAIN bnLock.core.files |-> bnLock.core.files[p].bytes]
       /\ bnEvidence.material = SumOf([p \in DOMAIN bnLock.core.files |-> bnLock.core.files[p].size])
       /\ bnEvidence.files = Cardinality(DOMAIN bnLock.core.files) /\ bnEvidence.consumers = Consumers
       /\ (bnEvidence.identity = bnBuilt.identity) = (bnLock = bnBuilt)

(* The inductive invariant: what every lock is made of, whatever was       *)
(* changed in its file; the lock that was built, as built; and a           *)
(* verification, of the lock it began with and of what it read so far.     *)
LockTyped(l) ==
  LET c == l.core IN
  /\ l = [core |-> c, identity |-> l.identity, lkg |-> l.lkg]
  /\ c = [id |-> c.id, version |-> c.version, manifestDigest |-> c.manifestDigest, fileSetDigest |-> c.fileSetDigest,
          source |-> c.source, files |-> c.files, consumers |-> c.consumers, grants |-> c.grants]

ReadSoFar(files) ==
  /\ DOMAIN bnSeen \subseteq bnWalk
  /\ \A p \in DOMAIN bnSeen : bnSeen[p] = files[p].bytes /\ ByteSize[bnSeen[p]] = files[p].size

BundleInv ==
  /\ bnLock # NoBundle => bnBuilt # NoBundle /\ LockTyped(bnLock)
  /\ bnBuilt # NoBundle =>
       LET files == bnBuilt.core.files IN
       /\ ValidManifest(bnManifest) /\ DOMAIN files = DOMAIN bnManifest.files /\ HasEntrypoint(files)
       /\ bnBuilt = LockOver(bnManifest, files)
  /\ bnWalk = NoBundle => bnSeen = <<>> /\ bnEvidence = NoBundle
  /\ bnWalk # NoBundle =>
       /\ bnLock # NoBundle /\ ValidLock(bnLock) /\ bnWalk = DOMAIN bnLock.core.files
       /\ bnSeen = [p \in DOMAIN bnSeen |-> bnSeen[p]] /\ ReadSoFar(bnLock.core.files)
  /\ bnEvidence # NoBundle =>
       LET files == bnLock.core.files IN
       /\ DOMAIN bnSeen = DOMAIN files
       /\ bnEvidence = [identity |-> bnLock.identity, files |-> Cardinality(DOMAIN files), consumers |-> bnLock.core.consumers,
                        material |-> SumOf([p \in DOMAIN files |-> files[p].size])]
=============================================================================
