---------------------------- MODULE SandboxAccess ----------------------------
(***************************************************************************)
(* A sandbox from the create request to what its owner, the operator and   *)
(* others get to see of it (internal/proxy: createpolicy, owner, ports,    *)
(* seal, responsescrub, pathguard, handler).                               *)
(*                                                                         *)
(* A create body is a set of entries: a field, its spelling (exact, or one *)
(* that differs by case only) and its value, a set of the parts that       *)
(* matter. Daytona reads a field by its exact name; Go's struct decode     *)
(* takes the last entry of any spelling. Two entries of one spelling are   *)
(* one to both.                                                            *)
(***************************************************************************)
EXTENDS Naturals, FiniteSets

CONSTANTS Clients, Creator, Admins,
          MaxFields      \* bound on the fields of a create body

VARIABLES body,          \* the create body its client is writing
          phase,         \* "writing", "forwarded", "running", "refused", "given", "orphan", "stopped"
          forwarded,     \* the body Daytona gets
          asked,         \* the caller's publicPorts
          fork,          \* the backend knows publicPorts
          sandbox,       \* Daytona's record
          requests,      \* each client's request on the sandbox
          opened,        \* who got inside
          shown,         \* who was shown the record
          told           \* secrets some response carried

vars == <<body, phase, forwarded, asked, fork, sandbox, requests, opened, shown, told>>

Spellings == {"exact", "folded"}
CustomResourceFields == {"cpu"}
CreateFields == {"snapshot", "name", "env", "labels", "sealed", "seal_id", "publicPorts",
                 "public", "autoDeleteInterval", "volumes"}

\* What a caller may write. cpu stands for the fields that pick a spec, and
\* linkedSandbox for those nobody has reviewed; "system" for a port that is
\* refused; forgedKey for a SANDBOX_SEAL_KEY of the caller's, and preload for a
\* variable the loader or a shell would act on.
Values ==
    [snapshot           |-> {{}, {"name"}},
     name               |-> {{"plain"}, {"dotted"}},
     env                |-> {{"forgedKey", "ticket"}, {"preload"}},
     labels             |-> {{"theirs", "unsealed"}, {"sealed"}},
     sealed             |-> {{"true"}, {"false"}, {"text"}},
     seal_id            |-> {{"hex"}, {"malformed"}},
     publicPorts        |-> {{}, {"null"}, {"text"}, {"app"}, {"agent", "app"}, {"agent", "system"}},
     public             |-> {{"true"}},
     autoDeleteInterval |-> {{"0"}},
     volumes            |-> {{"theirs"}},
     cpu                |-> {{"many"}},
     linkedSandbox      |-> {{"theirs"}}]

Fields == DOMAIN Values
Absent == {"absent"}
NoSandbox == [labels |-> {}, env |-> {}, reach |-> {}, volumes |-> Absent]
Idle == [kind |-> "none", step |-> "idle", current |-> {}]

Entry(f, s, v) == [field |-> f, spelling |-> s, value |-> v]
Spelled(b, f, s) == {e \in b : e.field = f /\ e.spelling = s}
Exact(b, f) == IF Spelled(b, f, "exact") = {} THEN Absent
               ELSE (CHOOSE e \in b : e.field = f /\ e.spelling = "exact").value

\* The last spelling in the text that is there at all.
Folded(b, f, last) ==
    LET s == IF Spelled(b, f, last) # {} THEN {last} ELSE Spellings \ {last}
        e == {x \in b : x.field = f /\ x.spelling \in s}
    IN  IF e = {} THEN Absent ELSE (CHOOSE x \in e : TRUE).value

Init ==
    /\ body = {} /\ phase = "writing" /\ forwarded = {} /\ asked = Absent
    /\ fork \in BOOLEAN
    /\ sandbox = NoSandbox
    /\ requests = [c \in Clients |-> Idle]
    /\ opened = {} /\ shown = {} /\ told = {}

AddField(f, s, v) ==
    /\ phase = "writing"
    /\ Cardinality(body) < MaxFields
    /\ Spelled(body, f, s) = {}
    /\ body' = body \cup {Entry(f, s, v)}
    /\ UNCHANGED <<phase, forwarded, asked, fork, sandbox, requests, opened, shown, told>>

-----------------------------------------------------------------------------
(* handleCreate: what it refuses. *)

\* Field names that differ only by case, and a snapshot Daytona would not see.
RejectFoldedKeys(b) ==
    \/ Spelled(b, "snapshot", "folded") # {}
    \/ \E f \in Fields : \A s \in Spellings : Spelled(b, f, s) # {}

RequireSnapshotCreate(b) ==
    /\ ~RejectFoldedKeys(b)
    /\ \A e \in b :
        /\ e.field \notin CustomResourceFields
        /\ e.field \in CreateFields
        /\ e.field = "name" => "dotted" \notin e.value
    /\ Exact(b, "snapshot") \notin {Absent, {}}

\* Go's decode: any spelling, the last one; a value of another type is false.
ExtractSealed(b, last) == Folded(b, "sealed", last) = {"true"}

\* parsePublicPorts: absent and null are the same.
PublicPorts(b) == IF Exact(b, "publicPorts") = {"null"} THEN Absent ELSE Exact(b, "publicPorts")

ValidatePublicPorts(b, sealed) ==
    \/ PublicPorts(b) = Absent
    \/ /\ PublicPorts(b) # {}
       /\ PublicPorts(b) \cap {"text", "system"} = {}
       /\ sealed => "agent" \in PublicPorts(b)

\* filterSealedCallerEnv, and the seal id
SealAccepts(b) ==
    /\ Exact(b, "env") # Absent => "preload" \notin Exact(b, "env")
    /\ Exact(b, "seal_id") # {"malformed"}

-----------------------------------------------------------------------------
(* handleCreate: what it forwards. *)

\* Fields whose every spelling is removed from the caller's body.
Decided == {"sealed", "volumes", "publicPorts", "public", "autoDeleteInterval"}
StrippedExact(b) == {e \in b : e.field \notin Decided \/ e.spelling = "folded"}
Stripped(b) == {e \in b : e.field \notin Decided}

Set(b, f, v) == {e \in b : e.field # f \/ e.spelling # "exact"} \cup {Entry(f, "exact", v)}

OwnLabels(given, sealed) ==
    LET mine == ((given \ Absent) \ {"theirs"}) \cup {"mine"}
    IN  IF sealed THEN (mine \ {"unsealed"}) \cup {"sealed"} ELSE mine

InjectOwner(b, last) ==
    LET sealed == ExtractSealed(b, last)
        ports  == IF PublicPorts(b) # Absent THEN PublicPorts(b) ELSE IF sealed THEN {"agent"} ELSE Absent
        own    == Set(Set(Stripped(b), "labels", OwnLabels(Exact(b, "labels"), sealed)),
                      "autoDeleteInterval", {"never"})
    IN  IF ports = Absent THEN Set(own, "public", {"false"})
        ELSE Set(Set(own, "public", {"true"}), "publicPorts", ports)

\* A fresh key and a certificate over it; the certificate is public.
IssueImageAttestation(env) == env \cup {"key", "certificate"}

\* The certified record by its id, and the key and certificate in its env.
InjectSeal(b) ==
    LET env == IssueImageAttestation((Exact(b, "env") \ Absent) \ {"forgedKey"})
    IN  {e \in Set(Set(b, "snapshot", {"id"}), "env", env) : e.field # "seal_id" \/ e.spelling = "folded"}

Submit(last) ==
    LET sealed == ExtractSealed(body, last)
    IN  /\ phase = "writing"
        /\ IF /\ RequireSnapshotCreate(body)
              /\ ValidatePublicPorts(body, sealed)
              /\ sealed => SealAccepts(body)
           THEN /\ phase' = "forwarded"
                /\ asked' = PublicPorts(body)
                /\ forwarded' = IF sealed THEN InjectSeal(InjectOwner(body, last)) ELSE InjectOwner(body, last)
           ELSE phase' = "refused" /\ UNCHANGED <<asked, forwarded>>
        /\ body' = {}
        /\ UNCHANGED <<fork, sandbox, requests, opened, shown, told>>

-----------------------------------------------------------------------------
(* Daytona, and the answer. *)

\* Without the fork a public sandbox has every port of the user's open.
Reach(b) ==
    IF Exact(b, "public") # {"true"} THEN {}
    ELSE IF fork /\ Exact(b, "publicPorts") # Absent THEN Exact(b, "publicPorts")
    ELSE {"agent", "app"}

Provision ==
    /\ phase = "forwarded"
    /\ sandbox' = [labels |-> Exact(forwarded, "labels"), env |-> Exact(forwarded, "env") \ Absent,
                   reach |-> Reach(forwarded), volumes |-> Exact(forwarded, "volumes")]
    /\ phase' = "running"
    /\ UNCHANGED <<body, forwarded, asked, fork, requests, opened, shown, told>>

ProvisionFails ==
    /\ phase = "forwarded"
    /\ phase' = "refused"
    /\ forwarded' = {}
    /\ UNCHANGED <<body, asked, fork, sandbox, requests, opened, shown, told>>

\* The Director drops the caller's Accept-Encoding.
KeepsEncoding(compress) == compress
Encoded(compress) == FALSE

\* secretResponseEnv; the scrub sees nothing in a compressed body.
SecretResponseEnv == {"key", "forgedKey", "ticket"}
Carried(compress) ==
    IF Encoded(compress) THEN sandbox.env ELSE sandbox.env \ SecretResponseEnv

Show(c, compress) ==
    /\ told' = told \cup (Carried(compress) \cap {"key", "ticket"})
    /\ shown' = shown \cup {c}

\* decoratePublicPorts: the caller asked for ports and the answer has none.
NeverDropped == FALSE
Dropped == asked # Absent /\ ~fork

Answer(compress) ==
    /\ phase = "running"
    /\ IF Dropped THEN phase' = "orphan" /\ UNCHANGED <<told, shown>>
       ELSE phase' = "given" /\ Show(Creator, compress)
    /\ forwarded' = {}
    /\ UNCHANGED <<body, asked, fork, sandbox, requests, opened>>

\* One try; when it fails the sandbox runs on, unknown to the billing.
StopOrphan ==
    /\ phase = "orphan"
    /\ phase' = "stopped"
    /\ UNCHANGED <<body, forwarded, asked, fork, sandbox, requests, opened, shown, told>>

-----------------------------------------------------------------------------
(* Requests on the sandbox. *)

Exists == phase \in {"running", "given", "orphan", "stopped"}

Owner(labels) == IF "mine" \in labels THEN {Creator} ELSE IF "theirs" \in labels THEN Clients \ {Creator} ELSE {}
IsSealedSandbox == "sealed" \in sandbox.labels

\* PathTraversalGuard: a path that is not canonical, in its plain or escaped form.
GuardPlain(path) == path # "dotted"
PathTraversalGuard(path) == path = "canonical"
Paths == {"canonical", "dotted", "encoded"}

\* CheckOwner looks at the sandbox the route binds; what is forwarded is the path.
\* A path that goes elsewhere starts from a sandbox of the client's own.
CheckOwner(c, path) == path = "canonical" => c \in Owner(sandbox.labels)

Ask(c, kind, step) == requests' = [requests EXCEPT ![c] = [kind |-> kind, step |-> step, current |-> {}]]
Done(c) == requests' = [requests EXCEPT ![c] = Idle]
record == <<body, phase, forwarded, asked, fork>>

\* withOwner, for ssh-access and labels
WithOwner(c, kind) ==
    /\ Exists /\ requests[c] = Idle
    /\ \E path \in Paths : PathTraversalGuard(path) /\ CheckOwner(c, path)
    /\ Ask(c, kind, "owned")
    /\ UNCHANGED <<record, sandbox, opened, shown, told>>

\* withOwnerNotSealed, for the toolbox and whatever has no case of its own
WithOwnerNotSealed(c) ==
    /\ Exists /\ requests[c] = Idle
    /\ \E path \in Paths :
        /\ PathTraversalGuard(path) /\ CheckOwner(c, path)
        /\ path = "canonical" => ~IsSealedSandbox
    /\ Ask(c, "inside", "cleared")
    /\ UNCHANGED <<record, sandbox, opened, shown, told>>

ReadForSSH(c) ==
    /\ requests[c].kind = "ssh" /\ requests[c].step = "owned"
    /\ IF IsSealedSandbox THEN Done(c) ELSE Ask(c, "inside", "cleared")
    /\ UNCHANGED <<record, sandbox, opened, shown, told>>

\* stripVolumesThenForward
StripVolumes(spelling, volumes) == Absent

\* CreateSSHAccess, the toolbox, a preview link: a channel into the sandbox. An
\* action Daytona has no name for yet may take volumes.
Enter(c, compress) ==
    /\ requests[c].step = "cleared"
    /\ opened' = opened \cup {c}
    /\ \E spelling \in Spellings, volumes \in Values.volumes \cup {Absent} :
        sandbox' = [sandbox EXCEPT !.volumes = StripVolumes(spelling, volumes)]
    /\ Show(c, compress)
    /\ Done(c)
    /\ UNCHANGED record

ReadForLabels(c) ==
    /\ requests[c].kind = "labels" /\ requests[c].step = "owned"
    /\ requests' = [requests EXCEPT ![c].step = "read", ![c].current = sandbox.labels]
    /\ UNCHANGED <<record, sandbox, opened, shown, told>>

\* MergeProtectedLabels: Daytona replaces all labels by the payload.
Protected == {"mine", "theirs", "sealed", "unsealed"}
MergeOwnerOnly(payload, current) == (payload \ Protected) \cup (current \cap {"mine", "theirs"})
MergeProtectedLabels(payload, current) == (payload \ Protected) \cup (current \cap Protected)

ReplaceLabels(c, payload, compress) ==
    /\ requests[c].step = "read"
    /\ sandbox' = [sandbox EXCEPT !.labels = MergeProtectedLabels(payload, requests[c].current)]
    /\ Show(c, compress)
    /\ Done(c)
    /\ UNCHANGED <<record, opened>>

\* GET by withOwnerOrAdmin; the owner's list carries the same record, without env.
Get(c, compress) ==
    /\ Exists
    /\ \E path \in Paths :
        PathTraversalGuard(path) /\ (c \in Admins \/ CheckOwner(c, path))
    /\ Show(c, compress)
    /\ UNCHANGED <<record, sandbox, requests, opened>>

ListSandboxes == IF Exists THEN {sandbox} ELSE {}
HandleList(c) ==
    /\ \E s \in ListSandboxes : c \in Owner(s.labels)
    /\ shown' = shown \cup {c}
    /\ UNCHANGED <<record, sandbox, requests, opened, told>>

CallerLabels == {{}, {"other"}, {"theirs"}, {"unsealed"}}

HandleCreate ==
    \/ \E s \in Spellings : Submit(s)
    \/ \E compress \in BOOLEAN : Answer(compress)
    \/ StopOrphan

\* The routes of one sandbox that matter here; those of its lifecycle are in
\* BillingSessions and CreateGate.
HandleCatchAll(c, compress) ==
    \/ \E kind \in {"ssh", "labels"} : WithOwner(c, kind)
    \/ WithOwnerNotSealed(c)
    \/ ReadForSSH(c) \/ Enter(c, compress)
    \/ ReadForLabels(c) \/ \E payload \in CallerLabels : ReplaceLabels(c, payload, compress)

Register(c, compress) == HandleCatchAll(c, compress) \/ Get(c, compress) \/ HandleList(c)

Next ==
    \/ \E f \in Fields, s \in Spellings : \E v \in Values[f] : AddField(f, s, v)
    \/ HandleCreate \/ Provision \/ ProvisionFails
    \/ \E c \in Clients, compress \in BOOLEAN : Register(c, compress)

Spec == Init /\ [][Next]_vars

-----------------------------------------------------------------------------
TypeOK ==
    /\ \A e \in body \cup forwarded : e.field \in Fields /\ e.spelling \in Spellings
    /\ requests \in [Clients -> [kind : {"none", "ssh", "labels", "inside"}, step : {"idle", "owned", "read", "cleared"},
                                 current : SUBSET (Protected \cup {"other"})]]
    /\ opened \subseteq Clients /\ shown \subseteq Clients /\ told \subseteq {"key", "ticket"}

\* Whoever reads the forwarded body, by exact names or ignoring case, finds the
\* snapshot that was billed or certified, no other spec, no volume, and the ports
\* and intervals the proxy decided (rejectFoldedKeys, requireSnapshotCreate and
\* InjectOwner's removal of every spelling).
OneReading ==
    phase = "forwarded" => \A last \in Spellings :
        /\ Folded(forwarded, "snapshot", last) = Exact(forwarded, "snapshot")
        /\ Exact(forwarded, "snapshot") = IF "key" \in Exact(forwarded, "env") THEN {"id"} ELSE {"name"}
        /\ \A f \in {"sealed", "volumes"} \cup (Fields \ CreateFields) : Folded(forwarded, f, last) = Absent
        /\ Folded(forwarded, "autoDeleteInterval", last) = {"never"}
        /\ \A f \in {"public", "publicPorts"} : Folded(forwarded, f, last) = Exact(forwarded, f)

\* Nobody, the owner and the operator included, ever gets inside a sandbox that
\* holds a seal key, and its key is the certified one: not through a spelling of
\* "sealed" one parser misses, nor after any series of label updates (InjectOwner,
\* MergeProtectedLabels, sealBlocksAccess, filterSealedCallerEnv).
SealedStaysClosed ==
    "key" \in sandbox.env => opened = {} /\ {"forgedKey", "preload"} \cap sandbox.env = {}

\* Only the creator gets inside a sandbox, only the creator and the operators see
\* its record, and it never mounts another's volume, whatever labels are sent and
\* whatever path or action is named (CheckOwner, MergeProtectedLabels,
\* PathTraversalGuard, stripVolumesThenForward).
OwnerOnly ==
    /\ opened \subseteq {Creator} /\ shown \subseteq {Creator} \cup Admins
    /\ sandbox.volumes = Absent

\* A sandbox that is handed out has no port open that nobody asked for; a sealed
\* one only the agent's. The exception is a sealed create without ports of its own
\* on a backend that drops the field, which the round trip does not look for.
PortsAsAsked ==
    phase = "given" =>
        \/ sandbox.reach \subseteq asked \cup (IF "key" \in sandbox.env THEN {"agent"} ELSE {})
        \/ ~fork /\ asked = Absent /\ "key" \in sandbox.env

\* No response carries the seal key or a boot ticket, whatever encoding the caller
\* accepts (stripSealKey, scrubSealKeyFromBody, the Director).
SecretsKept == told = {}

\* A create becomes what was asked and allowed.
CreateAsAsked == OneReading /\ PortsAsAsked

\* A sandbox is reached by those who may.
Guarded == SealedStaysClosed /\ OwnerOnly /\ SecretsKept
=============================================================================
