------------------------------- MODULE Images --------------------------------
(***************************************************************************)
(* The internal image registry, the Daytona snapshots that name its        *)
(* images, and sealed creates from them: imports (registry.Copy), the      *)
(* derived tag d-<digest> that snapshot registration plants, the clean-up  *)
(* of such tags after a snapshot's deletion and by POST /registry/gc, and  *)
(* the certificate of a sealed create beside what Daytona starts.  One     *)
(* repository; a tag or a derived tag holds a manifest, known by its       *)
(* digest, and a manifest and its image config are not told apart.  Every  *)
(* call to the registry or to Daytona is a step of its own.                *)
(***************************************************************************)
EXTENDS Naturals, FiniteSets

CONSTANTS Tags,       \* imported or pushed tags of the repository
          Digests, Names, None,
          Importers,  \* concurrent POST /registry/pull
          MaxIds,     \* bound on snapshot records
          MaxOps      \* bound on requests and pushes

Ids == 1..MaxIds
Cleaners == {"delete", "gc"}

VARIABLES tags,       \* tag -> digest it holds, or None
          derived,    \* digest x -> what the tag d-x holds, or None
          copyMu,     \* the importer that holds the lock, or None
          imports,    \* importer -> [pc, tag]
          promised,   \* tag -> digests that imports into it were answered with
          snaps,      \* id -> Daytona's record [name, image, plain, ref], or None
          nextId,
          creating,   \* POST /snapshots: [pc, name, tag, digest, exposed]
          cleaning,   \* cleaner -> [pc, id, image, candidates, digest]
          sealing,    \* POST /sandbox, sealed: [pc, name, billed, id, image, ref, hash]
          started,    \* [certified, runs] of the sealed sandboxes started
          exposed,    \* snapshots whose tag was planted, or not yet recorded, as a clean-up ran
          caught,     \* tags that appeared on a manifest while it was deleted
          ops

registry == <<tags, derived, promised, caught>>
importing == <<copyMu, imports>>
records == <<snaps, nextId, exposed>>
vars == <<registry, importing, records, creating, cleaning, sealing, started, ops>>

NoImport == [pc |-> "idle", tag |-> None]
NoCreate == [pc |-> "idle", name |-> None, tag |-> None, digest |-> None, exposed |-> FALSE]
NoClean == [pc |-> "idle", id |-> None, image |-> None, candidates |-> {}, digest |-> None]
NoSeal == [pc |-> "idle", name |-> None, billed |-> None, id |-> None, image |-> None,
           ref |-> None, hash |-> None]

Init ==
    /\ tags = [t \in Tags |-> None] /\ derived = [x \in Digests |-> None]
    /\ copyMu = None /\ imports = [i \in Importers |-> NoImport]
    /\ promised = [t \in Tags |-> {}]
    /\ snaps = [i \in Ids |-> None] /\ nextId = 1
    /\ creating = NoCreate
    /\ cleaning = [c \in Cleaners |-> NoClean]
    /\ sealing = NoSeal /\ started = {}
    /\ exposed = {} /\ caught = {}
    /\ ops = 0

Begins == ops < MaxOps /\ ops' = ops + 1

Records == {i \in Ids : snaps[i] # None}
Using(x) == {i \in Records : snaps[i].image = x}

-----------------------------------------------------------------------------
(* Imports: copyTo.  A reserved or malformed target is refused at once. *)

LockIgnored(i) == UNCHANGED copyMu
Lock(i) == copyMu = None /\ copyMu' = i

Import(i, t) ==
    /\ imports[i] = NoImport /\ Begins
    /\ Lock(i)
    /\ imports' = [imports EXCEPT ![i] = [pc |-> "head", tag |-> t]]
    /\ UNCHANGED <<registry, records, creating, cleaning, sealing, started>>

ImportEnds(i) ==
    /\ imports' = [imports EXCEPT ![i] = NoImport]
    /\ copyMu' = None

Promise(t, d) == promised' = [promised EXCEPT ![t] = @ \cup {d}]

\* The tag exists: the import is a no-op for the same manifest and refused for another.
HeadFinds(i, d) ==
    /\ imports[i].pc = "head" /\ tags[imports[i].tag] # None
    /\ IF tags[imports[i].tag] = d THEN Promise(imports[i].tag, d) ELSE UNCHANGED promised
    /\ ImportEnds(i)
    /\ UNCHANGED <<tags, derived, caught, records, creating, cleaning, sealing, started, ops>>

HeadFindsNothing(i) ==
    /\ imports[i].pc = "head" /\ tags[imports[i].tag] = None
    /\ imports' = [imports EXCEPT ![i].pc = "copy"]
    /\ UNCHANGED <<registry, copyMu, records, creating, cleaning, sealing, started, ops>>

Copy(i, d) ==
    /\ imports[i].pc = "copy"
    /\ tags' = [tags EXCEPT ![imports[i].tag] = d]
    /\ Promise(imports[i].tag, d)
    /\ ImportEnds(i)
    /\ UNCHANGED <<derived, caught, records, creating, cleaning, sealing, started, ops>>

\* The registry or the source does not answer.
ImportFails(i) ==
    /\ imports[i] # NoImport
    /\ ImportEnds(i)
    /\ UNCHANGED <<registry, records, creating, cleaning, sealing, started, ops>>

\* The operator pushes to the registry directly, which re-points the tag.
Push(t, d) ==
    /\ tags[t] # d /\ Begins
    /\ tags' = [tags EXCEPT ![t] = d]
    /\ promised' = [promised EXCEPT ![t] = {}]
    /\ caught' = caught \ {t}
    /\ UNCHANGED <<derived, importing, records, creating, cleaning, sealing, started>>

-----------------------------------------------------------------------------
(* Snapshot registration: handleSnapshotCreate, TagByDigest. *)

\* A clean-up that has listed the snapshots and may yet delete tags.
Sweeping == \E c \in Cleaners : cleaning[c].pc \in {"deleting", "resolve", "probe", "drop"}

GetDigest(n, t) ==
    /\ creating = NoCreate /\ tags[t] # None /\ Begins
    /\ creating' = [pc |-> "tag", name |-> n, tag |-> t, digest |-> tags[t], exposed |-> FALSE]
    /\ UNCHANGED <<registry, importing, records, cleaning, sealing, started>>

\* crane.Tag resolves the tag again.
PlantTag ==
    /\ creating.pc = "tag" /\ tags[creating.tag] # None
    /\ derived' = [derived EXCEPT ![creating.digest] = tags[creating.tag]]
    /\ creating' = [creating EXCEPT !.pc = "forward", !.exposed = Sweeping]
    /\ exposed' = IF Sweeping THEN exposed \cup Using(creating.digest) ELSE exposed
    /\ UNCHANGED <<tags, promised, caught, importing, snaps, nextId, cleaning, sealing, started, ops>>

\* Daytona makes the record, for an image run as it is or with another entrypoint.
Record(plain) ==
    /\ creating.pc = "forward" /\ nextId \in Ids
    /\ snaps' = [snaps EXCEPT ![nextId] =
           [name |-> creating.name, image |-> creating.digest, plain |-> plain, ref |-> None]]
    /\ nextId' = nextId + 1
    /\ exposed' = IF creating.exposed THEN exposed \cup {nextId} ELSE exposed
    /\ creating' = NoCreate
    /\ UNCHANGED <<registry, importing, cleaning, sealing, started, ops>>

CreateFails ==
    /\ creating # NoCreate
    /\ creating' = NoCreate
    /\ UNCHANGED <<registry, importing, records, cleaning, sealing, started, ops>>

\* Daytona pulls the snapshot's image and pushes the copy that runners start.
MakeRunnerImage(i) ==
    /\ i \in Records /\ snaps[i].ref = None /\ derived[snaps[i].image] # None
    /\ snaps' = [snaps EXCEPT ![i].ref = derived[snaps[i].image]]
    /\ UNCHANGED <<registry, importing, nextId, exposed, creating, cleaning, sealing, started, ops>>

-----------------------------------------------------------------------------
(* Clean-up: handleSnapshotDelete and POST /registry/gc. *)

Clean(c, next) == cleaning' = [cleaning EXCEPT ![c] = next]
CleanUp(c, next) ==
    Clean(c, next) /\ UNCHANGED <<registry, importing, records, creating, sealing, started, ops>>

\* GetSnapshot before the delete, which may fail and leave no image name.
DeleteSnapshot(i) ==
    /\ cleaning["delete"] = NoClean /\ i \in Records /\ Begins
    /\ \E image \in {snaps[i].image, None} :
          Clean("delete", [NoClean EXCEPT !.pc = "remove", !.id = i, !.image = image])
    /\ UNCHANGED <<registry, importing, records, creating, sealing, started>>

\* Daytona deletes the record, also when it answers 500 and the record is gone.
RemoveRecord ==
    LET me == cleaning["delete"] IN
    /\ me.pc = "remove"
    /\ snaps' = [snaps EXCEPT ![me.id] = None]
    /\ Clean("delete", IF me.image = None THEN NoClean ELSE [me EXCEPT !.pc = "snapshots"])
    /\ UNCHANGED <<registry, importing, nextId, exposed, creating, sealing, started, ops>>

\* cleanupDerivedTag stops when another snapshot uses the tag.
FreeAlways(x, but) == TRUE
FreeOf(x, but) == Using(x) \ {but} = {}

\* Listing snapshots exposes the one whose tag is planted and whose record is not made.
Exposes == creating' = [creating EXCEPT !.exposed = @ \/ creating.pc = "forward"]

ListOthers ==
    LET me == cleaning["delete"] IN
    /\ me.pc = "snapshots"
    /\ Clean("delete", IF FreeOf(me.image, me.id)
                       THEN [me EXCEPT !.pc = "resolve", !.candidates = {me.image}] ELSE NoClean)
    /\ Exposes
    /\ UNCHANGED <<registry, importing, records, sealing, started, ops>>

\* gc: the derived tags first, then the snapshots.
CollectGarbage ==
    /\ cleaning["gc"] = NoClean /\ Begins
    /\ Clean("gc", [NoClean EXCEPT !.pc = "snapshots",
                                   !.candidates = {x \in Digests : derived[x] # None}])
    /\ UNCHANGED <<registry, importing, records, creating, sealing, started>>

ListInUse ==
    LET me == cleaning["gc"] IN
    /\ me.pc = "snapshots"
    /\ Clean("gc", [me EXCEPT !.pc = "deleting",
                              !.candidates = {x \in @ : FreeOf(x, None)}])
    /\ Exposes
    /\ UNCHANGED <<registry, importing, records, sealing, started, ops>>

GcNext(x) ==
    /\ cleaning["gc"].pc = "deleting" /\ x \in cleaning["gc"].candidates
    /\ CleanUp("gc", [cleaning["gc"] EXCEPT !.pc = "resolve", !.image = x])

GcEnds ==
    /\ cleaning["gc"].pc = "deleting" /\ cleaning["gc"].candidates = {}
    /\ CleanUp("gc", NoClean)

\* This tag is done with: the garbage collection goes on, the deletion is over.
Done(c) ==
    IF c = "gc" THEN [cleaning[c] EXCEPT !.pc = "deleting", !.candidates = @ \ {cleaning[c].image},
                                         !.image = None, !.digest = None]
    ELSE NoClean

\* DeleteTag: the tag's manifest, ...
ResolveTag(c) ==
    LET me == cleaning[c] IN
    /\ me.pc = "resolve"
    /\ CleanUp(c, IF derived[me.image] = None THEN Done(c)
                  ELSE [me EXCEPT !.pc = "probe", !.digest = derived[me.image]])

\* ... the tags beside it, any of which keeps the manifest, ...
Shared(x, d) == \/ \E t \in Tags : tags[t] = d
                \/ \E y \in Digests \ {x} : derived[y] = d

ProbeSiblings(c) ==
    LET me == cleaning[c] IN
    /\ me.pc = "probe"
    /\ CleanUp(c, IF Shared(me.image, me.digest) THEN Done(c) ELSE [me EXCEPT !.pc = "drop"])

\* ... and the manifest, with every tag that holds it by now.
DropManifest(c) ==
    LET d == cleaning[c].digest IN
    /\ cleaning[c].pc = "drop"
    /\ tags' = [t \in Tags |-> IF tags[t] = d THEN None ELSE tags[t]]
    /\ derived' = [x \in Digests |-> IF derived[x] = d THEN None ELSE derived[x]]
    /\ caught' = caught \cup {t \in Tags : tags[t] = d}
    /\ Clean(c, Done(c))
    /\ UNCHANGED <<promised, importing, records, creating, sealing, started, ops>>

CleanFails(c) ==
    /\ cleaning[c].pc \in {"remove", "snapshots", "resolve", "probe", "drop"}
    /\ CleanUp(c, IF cleaning[c].pc \in {"remove", "snapshots"} THEN NoClean ELSE Done(c))

-----------------------------------------------------------------------------
(* Sealed create. *)

Seal(next) ==
    sealing' = next /\ UNCHANGED <<registry, importing, records, creating, cleaning, started, ops>>

Named(n) == {i \in Records : snaps[i].name = n}

\* handleCreate: the billed record, as GetSnapshot finds it.
CreateSealed(n, i) ==
    /\ sealing = NoSeal /\ i \in Named(n) /\ Begins
    /\ sealing' = [NoSeal EXCEPT !.pc = "resolve", !.name = n, !.billed = i]
    /\ UNCHANGED <<registry, importing, records, creating, cleaning, started>>

\* resolveSnapshot: the name must match one record, the billed one.
ResolveSnapshot ==
    /\ sealing.pc = "resolve"
    /\ Seal(IF Named(sealing.name) = {sealing.billed} /\ snaps[sealing.billed].plain
            THEN [sealing EXCEPT !.pc = "digest", !.id = sealing.billed,
                                 !.image = snaps[sealing.billed].image,
                                 !.ref = snaps[sealing.billed].ref]
            ELSE NoSeal)

ImageHash ==
    /\ sealing.pc = "digest"
    /\ Seal(IF derived[sealing.image] = None THEN NoSeal
            ELSE [sealing EXCEPT !.pc = "compare", !.hash = derived[sealing.image]])

\* checkSnapshotRunsImage
HasRunnerImage(s) == s.ref # None
RunsImage(s) == s.ref # None /\ s.ref = s.hash

CheckSnapshotRunsImage ==
    /\ sealing.pc = "compare"
    /\ Seal(IF RunsImage(sealing) THEN [sealing EXCEPT !.pc = "forward"] ELSE NoSeal)

\* Daytona resolves what is forwarded: the record's id, which no name can be.
Forwarded(s) == {s.id} \cap Records

StartSealed ==
    /\ sealing.pc = "forward"
    /\ started' = started \cup
           {[certified |-> sealing.hash, runs |-> snaps[i].ref] : i \in Forwarded(sealing)}
    /\ sealing' = NoSeal
    /\ UNCHANGED <<registry, importing, records, creating, cleaning, ops>>

SealFails ==
    /\ sealing # NoSeal
    /\ Seal(NoSeal)

-----------------------------------------------------------------------------
Next ==
    \/ \E i \in Importers :
          \/ \E t \in Tags : Import(i, t)
          \/ HeadFindsNothing(i) \/ ImportFails(i)
          \/ \E d \in Digests : HeadFinds(i, d) \/ Copy(i, d)
    \/ \E t \in Tags :
          \/ \E d \in Digests : Push(t, d)
          \/ \E n \in Names : GetDigest(n, t)
    \/ PlantTag \/ CreateFails \/ \E plain \in BOOLEAN : Record(plain)
    \/ \E i \in Ids : MakeRunnerImage(i) \/ DeleteSnapshot(i) \/ \E n \in Names : CreateSealed(n, i)
    \/ RemoveRecord \/ ListOthers \/ CollectGarbage \/ ListInUse \/ GcEnds
    \/ \E x \in Digests : GcNext(x)
    \/ \E c \in Cleaners : ResolveTag(c) \/ ProbeSiblings(c) \/ DropManifest(c) \/ CleanFails(c)
    \/ ResolveSnapshot \/ ImageHash \/ CheckSnapshotRunsImage \/ StartSealed \/ SealFails

Spec == Init /\ [][Next]_vars

-----------------------------------------------------------------------------
TypeOK ==
    /\ tags \in [Tags -> Digests \cup {None}] /\ derived \in [Digests -> Digests \cup {None}]
    /\ copyMu \in Importers \cup {None} /\ promised \in [Tags -> SUBSET Digests]
    /\ imports \in [Importers -> [pc : {"idle", "head", "copy"}, tag : Tags \cup {None}]]
    /\ snaps \in [Ids -> [name : Names, image : Digests, plain : BOOLEAN,
                          ref : Digests \cup {None}] \cup {None}]
    /\ nextId \in 1..(MaxIds + 1)
    /\ creating.pc \in {"idle", "tag", "forward"}
    /\ \A c \in Cleaners :
          cleaning[c].pc \in {"idle", "remove", "snapshots", "deleting", "resolve", "probe", "drop"}
    /\ sealing.pc \in {"idle", "resolve", "digest", "compare", "forward"}
    /\ started \subseteq [certified : Digests, runs : Digests]
    /\ exposed \subseteq Ids /\ caught \subseteq Tags

\* A tag holds what every import into it was answered with: concurrent imports,
\* of one source or of two, never re-point it.  Excepted is a tag that an import
\* put on a manifest whose deletion had already looked at the tags beside it.
ImportHolds == \A t \in Tags \ caught : \A d \in promised[t] : tags[t] = d

\* The image a snapshot names stays in the registry while the snapshot lives: no
\* clean-up, and no deletion of another tag's manifest, takes its derived tag
\* away, unless the tag was planted, for this snapshot or for another of the same
\* image, or waited to be recorded, as a clean-up ran.
LiveSnapshotKeepsTag == \A i \in Records \ exposed : derived[snaps[i].image] # None

\* A sealed sandbox runs the image its certificate names, whatever is pushed,
\* planted, deleted or registered under the same name while it is created.
RunsWhatIsCertified == \A s \in started : s.runs = s.certified

\* An image stays what somebody relies on: an importer, a snapshot that can still
\* be started, a sealed sandbox.
ImagesHold == ImportHolds /\ LiveSnapshotKeepsTag /\ RunsWhatIsCertified
=============================================================================
