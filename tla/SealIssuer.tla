------------------------------ MODULE SealIssuer -----------------------------
(***************************************************************************)
(* The issuer of a sealed certificate (internal/chain/seal_issuer.go):     *)
(* GetSealedAppInstance reads the contract's registry, the app's           *)
(* registration, the provider's service, its KMS binding and whether it is *)
(* active one call at a time, all at the number of one block, and looks at *)
(* the block's hash again at the end.  Meanwhile blocks are added and the  *)
(* chain reorganizes: a number then stands for another block.  A block     *)
(* that was abandoned does not come back.                                  *)
(***************************************************************************)
EXTENDS Naturals, Sequences, FiniteSetsExt

CONSTANTS MaxBlocks,  \* bound on blocks ever made
          MaxEpoch,   \* bound on registrations of the app
          MaxIssues   \* bound on certificates

VARIABLES facts,      \* every block made -> what holds in it
          chain,      \* the blocks of the canonical chain, by number
          read,       \* the lookup under way
          issued      \* the registrations certified, in order

vars == <<facts, chain, read, issued>>

\* epoch: the app's registration, 0 if it has none; bound: the one the KMS
\* binding names; ours: the contract's registry is the configured one and the
\* service names the app; active: isActiveProvider.
Facts == [epoch : 0..MaxEpoch, bound : 0..MaxEpoch, ours : BOOLEAN, active : BOOLEAN]

NoRead == [pc |-> "idle", number |-> 0, hash |-> 0, epoch |-> 0]

Init ==
    /\ facts = <<[epoch |-> 0, bound |-> 0, ours |-> TRUE, active |-> FALSE]>>
    /\ chain = <<1>>
    /\ read = NoRead
    /\ issued = <<>>

-----------------------------------------------------------------------------
(* The chain. *)

NextEpoch == 1 + Max({facts[b].epoch : b \in DOMAIN facts})

\* What one transaction makes of a block's facts: the app is registered anew or
\* removed, which ends the activity; the provider binds the current registration,
\* points its service elsewhere or back, or is deactivated.
Successors(f) ==
    {f} \cup
    (IF f.epoch = 0 THEN {[f EXCEPT !.epoch = NextEpoch]} ELSE {[f EXCEPT !.epoch = 0, !.active = FALSE]}) \cup
    (IF f.epoch = 0 THEN {} ELSE {[f EXCEPT !.bound = f.epoch, !.active = TRUE]}) \cup
    {[f EXCEPT !.ours = ~@], [f EXCEPT !.active = FALSE]}

\* A block on top of the first n of the chain: the next one, or a reorganization.
Mine(n) ==
    /\ Len(facts) < MaxBlocks
    /\ \E f \in Successors(facts[chain[n]]) \cap Facts : facts' = Append(facts, f)
    /\ chain' = Append(SubSeq(chain, 1, n), Len(facts'))
    /\ UNCHANGED <<read, issued>>

-----------------------------------------------------------------------------
(* GetSealedAppInstance *)

\* The block a number-pinned call is answered from; fails past the chain's end.
Pinned == chain[read.number]
LatestBlock == chain[Len(chain)]
At == Pinned

Answers(here, there, ok, next) ==
    /\ read.pc = here /\ read.number <= Len(chain)
    /\ read' = IF ok THEN [next EXCEPT !.pc = there] ELSE NoRead
    /\ UNCHANGED <<facts, chain, issued>>

HeaderByNumber ==
    /\ read = NoRead /\ Len(issued) < MaxIssues
    /\ read' = [pc |-> "registry", number |-> Len(chain), hash |-> LatestBlock, epoch |-> 0]
    /\ UNCHANGED <<facts, chain, issued>>

TappRegistry == Answers("registry", "info", facts[At].ours, read)
GetAppInfo == Answers("info", "service", facts[At].epoch > 0, [read EXCEPT !.epoch = facts[At].epoch])
Services == Answers("service", "binding", facts[At].ours, read)
KmsBindings == Answers("binding", "active", facts[At].bound = read.epoch, read)
IsActiveProvider == Answers("active", "recheck", facts[At].active, read)

\* The hash at that number is still the one the lookup began with.
Unchecked == TRUE
SameBlock == Pinned = read.hash

Recheck ==
    /\ read.pc = "recheck" /\ read.number <= Len(chain)
    /\ issued' = IF SameBlock THEN Append(issued, read.epoch) ELSE issued
    /\ read' = NoRead
    /\ UNCHANGED <<facts, chain>>

\* A call fails or the five seconds are over: no certificate.
LookupFails ==
    /\ read # NoRead
    /\ read' = NoRead
    /\ UNCHANGED <<facts, chain, issued>>

Next ==
    \/ \E n \in 1..Len(chain) : Mine(n)
    \/ HeaderByNumber \/ TappRegistry \/ GetAppInfo \/ Services \/ KmsBindings
    \/ IsActiveProvider \/ Recheck \/ LookupFails

Spec == Init /\ [][Next]_vars

-----------------------------------------------------------------------------
TypeOK ==
    /\ facts \in Seq(Facts) /\ chain \in Seq(DOMAIN facts) /\ chain # <<>>
    /\ read.pc \in {"idle", "registry", "info", "service", "binding", "active", "recheck"}
    /\ issued \in Seq(1..MaxEpoch)

\* Every certificate names a registration that one block had: in that block the
\* registry and the service were ours, the binding was to this registration and
\* the provider was active.  Answers of different blocks are never combined.
OneBlockVouches ==
    \A i \in 1..Len(issued) : \E b \in DOMAIN facts :
        facts[b] = [epoch |-> issued[i], bound |-> issued[i], ours |-> TRUE, active |-> TRUE]
=============================================================================
