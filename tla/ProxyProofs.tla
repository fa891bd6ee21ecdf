----------------------------- MODULE ProxyProofs -----------------------------
(* Theorems about the proxy in front of Daytona, for every value of the        *)
(* constants of its parts.  A step of the composition is a step of one part    *)
(* and leaves the others alone, so each part's invariant is proved of its own  *)
(* steps.  The backlog's algorithms are loops over lists of any length: each   *)
(* is unfolded to its turns, and what it returns is shown by induction on the  *)
(* list.                                                                       *)
EXTENDS Proxy, SumsAndFolds, TLAPS

\* Every step is, for each part, a step of that part or none.
LEMMA OnePartMoves ==
    [ProxyNext]_proxyVars => /\ [Next]_vars /\ [Auth!Next]_Auth!vars
                             /\ [Access!Next]_Access!vars /\ [Image!Next]_Image!vars
                             /\ [Backlog!Next]_Backlog!vars
  <1> USE DEF proxyVars, authVars, accessVars, imageVars, backlogVars, Auth!vars, Access!vars,
              Image!vars, Backlog!vars,
              Image!registry, Image!importing, Image!records
  <1>1. CASE GateMoves(Next)
    BY <1>1 DEF GateMoves
  <1>2. CASE AuthMoves(Auth!Next)
    BY <1>2 DEF AuthMoves
  <1>3. CASE AccessMoves(Access!Next)
    BY <1>3 DEF AccessMoves
  <1>4. CASE ImageMoves(Image!Next)
    BY <1>4 DEF ImageMoves
  <1>5. CASE BacklogMoves(Backlog!Next)
    BY <1>5 DEF BacklogMoves
  <1>6. CASE UNCHANGED proxyVars
    BY <1>6
  <1> QED BY <1>1, <1>2, <1>3, <1>4, <1>5, <1>6 DEF ProxyNext

-----------------------------------------------------------------------------
(* The balance gate (CreateGate). *)

\* The fields of a request.
Asking == [pc : {"new", "debt", "funds", "judge", "asked", "rejudge", "checks", "forward",
                 "hook", "charged", "done"},
           need : Nat, debt : Nat, funds : Nat, total : Nat, mine : BOOLEAN, holds : Nat,
           missed : SUBSET Requests, unseen : Nat]

Costs == [q \in Requests |-> Cost(q)]
Sum(X) == SumFunctionOnSet(Costs, X)
Holds == [r \in Requests |-> req[r].holds]

GateTypes ==
    /\ balance \in Nat /\ queue \in Nat /\ flight \in Nat /\ held \in Nat /\ reserved \in Nat
    /\ session \in BOOLEAN
    /\ req \in [Requests -> Asking]
    /\ \A r \in Requests :
          /\ At(r, "new") => req[r] = Fresh(r)
          /\ req[r].pc \in {"new", "debt", "funds", "done"} => ~req[r].mine
          /\ req[r].need \in {0, Cost(r)}

\* The counter is what the requests hold: one that reserved holds what it asked for, and one
\* under way that did not holds nothing.
Counted ==
    /\ reserved = SumFunctionOnSet(Holds, Requests)
    /\ \A r \in Requests :
          /\ req[r].mine => req[r].holds = req[r].need
          /\ ~req[r].mine /\ ~At(r, "done") => req[r].holds = 0

Judged == {q \in Requests : req[q].pc \in {"judge", "asked", "rejudge"}}
Taken == {q \in Requests : Admitted(q) /\ req[q].mine}
Owed == queue + flight + held

\* Requests that may all be let in: the balance covers them with everything else, or one of
\* them saw the others and as much of the debt, and is short by what is missing.
Backed(S) ==
    \/ Owed + Sum(Taken \cup S) <= balance
    \/ \E m \in S :
          /\ Sum(Taken \cup S) <= req[m].total
          /\ Owed - balance + Sum(Taken \cup S) <= -Shortfall(m)

\* What a request between its reads does not see was charged by requests that still hold
\* their part of the counter, or is with the settler.
Seen(q) ==
    /\ \A m \in req[q].missed : At(m, "charged") /\ req[m].mine
    /\ At(q, "debt") => /\ Owed <= req[q].debt + req[q].unseen + Sum(req[q].missed)
                        /\ req[q].unseen > 0 => flight = req[q].unseen
    /\ At(q, "funds") => Owed - balance <= req[q].debt - req[q].funds + Sum(req[q].missed)

\* As long as there is no excuse.
AsksInFull(q) == Gated(q) \/ req[q].mine => req[q].need = Cost(q)
PassedBy(q) == Admitted(q) /\ ~req[q].mine => q \in Starts /\ session
Covered ==
    /\ \A q \in Requests :
          /\ AsksInFull(q) /\ PassedBy(q)
          /\ q \in Judged => req[q].mine
          /\ Between(q) => Seen(q)
    /\ \A S \in SUBSET Judged : S # {} => Backed(S)

GateInv ==
    /\ GateTypes
    /\ overdrawn # "unexcused"
    /\ "disturbed" \notin excuses => Counted
    /\ excuses = {} => Covered

-----------------------------------------------------------------------------
\* Costs are positive, and there are finitely many requests.
LEMMA CostsAreNat ==
    /\ \A q \in Requests : Cost(q) \in Nat /\ Cost(q) > 0 /\ Costs[q] = Cost(q)
    /\ IsFiniteSet(Requests)
  BY CostAssumption, RequestsAssumption DEF Cost, Costs

\* More requests cost no less.
LEMMA SumGrows ==
    ASSUME NEW X \in SUBSET Requests, NEW Y \in SUBSET X
    PROVE  Sum(X) \in Nat /\ Sum(Y) \in Nat /\ Sum(Y) <= Sum(X)
  <1>1. IsFiniteSet(X) /\ \A q \in X : Costs[q] \in Nat
    BY CostsAreNat, FS_Subset
  <1> QED BY <1>1, SumIsMonotone DEF Sum

\* One more request adds its cost.
LEMMA SumWith ==
    ASSUME NEW X \in SUBSET Requests, NEW r \in Requests \ X
    PROVE  Sum(X \cup {r}) = Sum(X) + Cost(r) /\ Sum(X) \in Nat
  <1> DEFINE Y == X \cup {r}
  <1>1. IsFiniteSet(Y) /\ (\A q \in Y : Costs[q] \in Nat) /\ r \in Y
    BY CostsAreNat, FS_Subset
  <1>2. Y \ {r} = X
    OBVIOUS
  <1> HIDE DEF Y
  <1>3. /\ SumFunctionOnSet(Costs, Y \ {r}) \in Nat
        /\ SumFunctionOnSet(Costs, Y) = SumFunctionOnSet(Costs, Y \ {r}) + Costs[r]
    BY <1>1, SumSplits
  <1>4. /\ SumFunctionOnSet(Costs, X) \in Nat
        /\ SumFunctionOnSet(Costs, Y) = SumFunctionOnSet(Costs, X) + Costs[r]
    BY <1>2, <1>3, Zenon
  <1>5. Costs[r] = Cost(r)
    BY CostsAreNat
  <1> QED BY <1>4, <1>5 DEF Sum, Y

\* Requests that hold their costs are in the counter together.
LEMMA HoldersCounted ==
    ASSUME NEW f, \A q \in Requests : f[q] \in Nat, NEW X \in SUBSET Requests, \A q \in X : f[q] = Cost(q)
    PROVE  Sum(X) <= SumFunctionOnSet(f, Requests)
  <1>1. IsFiniteSet(Requests) /\ IsFiniteSet(X)
    BY CostsAreNat, FS_Subset
  <1>2. SumFunctionOnSet(f, X) <= SumFunctionOnSet(f, Requests)
    BY <1>1, SumIsMonotone
  <1>3. \A q \in X : Costs[q] \in Nat /\ f[q] = Costs[q]
    BY CostsAreNat
  <1>4. SumFunctionOnSet(f, X) = SumFunctionOnSet(Costs, X)
    BY <1>1, <1>3, SumIsSame
  <1> QED BY <1>2, <1>4, Zenon DEF Sum

-----------------------------------------------------------------------------
(* Steps of one request. *)

\* Only r changes.
Only(r) ==
    /\ req' \in [Requests -> Asking]
    /\ \A q \in Requests \ {r} : req'[q] = req[q]

\* Everything but the request stands still.
Quiet == UNCHANGED <<balance, queue, flight, held, session>>

\* The counter goes along with what the request holds.
LEMMA CountedStep ==
    ASSUME GateTypes, Counted, NEW r \in Requests, Only(r),
           reserved' = reserved - req[r].holds + req'[r].holds,
           req'[r].mine => req'[r].holds = req'[r].need,
           ~req'[r].mine /\ req'[r].pc # "done" => req'[r].holds = 0
    PROVE  Counted'
  <1>1. \A q \in Requests : Holds[q] \in Nat /\ Holds'[q] \in Nat
    BY DEF GateTypes, Only, Asking, Holds
  <1>2. \A q \in Requests \ {r} : Holds'[q] = Holds[q]
    BY DEF Only, Holds
  <1>3. IsFiniteSet(Requests)
    BY CostsAreNat
  <1>4. SumFunctionOnSet(Holds', Requests) + Holds[r] = SumFunctionOnSet(Holds, Requests) + Holds'[r]
    BY <1>1, <1>2, <1>3, SumChanges
  <1>5. SumFunctionOnSet(Holds', Requests) \in Nat /\ SumFunctionOnSet(Holds, Requests) \in Nat
    BY <1>1, <1>3, SumIsNat
  <1>6. Holds[r] = req[r].holds /\ Holds'[r] = req'[r].holds /\ Holds[r] \in Nat /\ Holds'[r] \in Nat
    BY <1>1 DEF Holds
  <1>7. reserved' = SumFunctionOnSet(Holds', Requests)
    BY <1>4, <1>5, <1>6 DEF Counted
  <1> QED BY <1>7 DEF Counted, Only, At

\* What one request holds is in the counter.
LEMMA HeldIsCounted ==
    ASSUME GateTypes, Counted, NEW r \in Requests
    PROVE  req[r].holds \in Nat /\ req[r].holds <= reserved
  <1>1. \A q \in Requests : Holds[q] \in Nat
    BY DEF GateTypes, Asking, Holds
  <1>2. /\ SumFunctionOnSet(Holds, Requests \ {r}) \in Nat
        /\ SumFunctionOnSet(Holds, Requests) = SumFunctionOnSet(Holds, Requests \ {r}) + Holds[r]
    BY <1>1, CostsAreNat, SumSplits
  <1>3. Holds[r] = req[r].holds /\ Holds[r] \in Nat
    BY <1>1 DEF Holds
  <1> QED BY <1>2, <1>3 DEF Counted

\* What backs requests still does when less is owed and fewer are let in.
LEMMA StillBacked ==
    ASSUME GateTypes, GateTypes', Covered, NEW S \in SUBSET Judged, S # {},
           Taken' \subseteq Taken, Owed' - balance' <= Owed - balance,
           \A m \in S : Shortfall(m)' = Shortfall(m) /\ req'[m].total = req[m].total
    PROVE  Backed(S)'
  <1>1. Taken \cup S \in SUBSET Requests /\ Taken' \cup S \in SUBSET (Taken \cup S)
    BY DEF Judged, Taken
  <1>2. Sum(Taken \cup S) \in Nat /\ Sum(Taken' \cup S) \in Nat /\ Sum(Taken' \cup S) <= Sum(Taken \cup S)
    BY <1>1, SumGrows
  <1>3. Backed(S)
    BY DEF Covered
  <1>4. Owed \in Nat /\ balance \in Nat /\ Owed' \in Nat /\ balance' \in Nat
    <2>1. \A x, y, z \in Nat : x + y + z \in Nat
      OBVIOUS
    <2> QED BY <2>1 DEF GateTypes, Owed
  <1>5. \A m \in S : Shortfall(m) \in Int /\ req[m].total \in Nat
    BY <1>1 DEF GateTypes, Asking, Shortfall, Judged
  <1>6. PICK w \in Nat, b \in Nat, w1 \in Nat, b1 \in Nat, s \in Nat, s1 \in Nat :
            /\ w = Owed /\ b = balance /\ w1 = Owed' /\ b1 = balance'
            /\ s = Sum(Taken \cup S) /\ s1 = Sum(Taken' \cup S)
    BY <1>2, <1>4
  <1>7. w1 - b1 <= w - b /\ s1 <= s
    BY <1>2, <1>6
  <1>8. CASE w + s <= b
    <2>1. w1 + s1 <= b1
      BY <1>7, <1>8
    <2> QED BY <1>6, <2>1 DEF Backed
  <1>9. CASE ~(w + s <= b)
    <2>1. PICK m \in S : s <= req[m].total /\ w - b + s <= -Shortfall(m)
      BY <1>3, <1>6, <1>9 DEF Backed
    <2>2. Shortfall(m)' = Shortfall(m) /\ req'[m].total = req[m].total
      OBVIOUS
    <2>3. s1 <= req[m].total /\ w1 - b1 + s1 <= -Shortfall(m)
      BY <1>5, <1>7, <2>1
    <2> QED BY <1>6, <2>2, <2>3 DEF Backed
  <1> QED BY <1>8, <1>9

\* What another request missed is still there.
LEMMA StillSeen ==
    ASSUME GateTypes, Covered, NEW q \in Requests, Between(q), req'[q] = req[q],
           \A m \in req[q].missed : req'[m] = req[m], Quiet
    PROVE  Seen(q)'
  BY DEF Covered, Seen, Quiet, Owed, At

\* What holds of the other requests.
LEMMA OthersCovered ==
    ASSUME GateTypes, Covered, NEW r \in Requests, Only(r), Quiet, NEW q \in Requests \ {r},
           Between(q) => r \notin req[q].missed
    PROVE  AsksInFull(q)' /\ PassedBy(q)' /\ (q \in Judged' => req'[q].mine) /\ (Between(q)' => Seen(q)')
  <1>1. req'[q] = req[q]
    BY DEF Only
  <1>2. AsksInFull(q)' /\ PassedBy(q)' /\ (q \in Judged' => req'[q].mine)
    BY <1>1 DEF Covered, AsksInFull, PassedBy, Gated, Admitted, Judged, Quiet
  <1>3. ASSUME Between(q)' PROVE Seen(q)'
    <2>1. Between(q)
      BY <1>1, <1>3 DEF Between
    <2>2. req[q].missed \subseteq Requests \ {r}
      BY <2>1 DEF GateTypes, Asking
    <2>3. \A m \in req[q].missed : req'[m] = req[m]
      BY <2>2 DEF Only
    <2> QED BY <1>1, <2>1, <2>3, StillSeen
  <1> QED BY <1>2, <1>3

\* A step of a request that neither reserves nor is let in nor reads a balance again.
LEMMA CoveredStep ==
    ASSUME GateTypes, GateTypes', Covered, NEW r \in Requests, Only(r), Quiet,
           \A q \in Requests \ {r} : Between(q) => r \notin req[q].missed,
           r \in Judged' => /\ r \in Judged /\ Shortfall(r)' = Shortfall(r)
                            /\ req'[r].total = req[r].total /\ req'[r].mine,
           r \in Taken' => r \in Taken,
           AsksInFull(r)', PassedBy(r)', Between(r)' => Seen(r)'
    PROVE  Covered'
  <1>1. Judged' \subseteq Judged /\ Taken' \subseteq Taken
    BY DEF Only, Judged, Taken, Admitted
  <1>2. \A m \in Judged' : Shortfall(m)' = Shortfall(m) /\ req'[m].total = req[m].total
    BY DEF Only, Judged, Shortfall
  <1>3. Owed' - balance' <= Owed - balance
    BY DEF Quiet, Owed, GateTypes
  <1>4. \A q \in Requests :
            AsksInFull(q)' /\ PassedBy(q)' /\ (q \in Judged' => req'[q].mine) /\ (Between(q)' => Seen(q)')
    BY OthersCovered
  <1>5. \A S \in SUBSET Judged' : S # {} => Backed(S)'
    BY <1>1, <1>2, <1>3, StillBacked
  <1> QED BY <1>4, <1>5 DEF Covered

\* Nobody missed a request that is not charged.
LEMMA NotMissed ==
    ASSUME Covered, NEW r \in Requests, ~At(r, "charged"), NEW q \in Requests, Between(q)
    PROVE  r \notin req[q].missed
  BY DEF Covered, Seen

\* The counter follows the request.
CounterFollows(r) ==
    /\ reserved' = reserved - req[r].holds + req'[r].holds
    /\ req'[r].mine => req'[r].holds = req'[r].need
    /\ ~req'[r].mine /\ req'[r].pc # "done" => req'[r].holds = 0

\* The request takes nothing that it has not got.
StaysCovered(r) ==
    /\ \A q \in Requests \ {r} : Between(q) => r \notin req[q].missed
    /\ r \in Judged' => /\ r \in Judged /\ Shortfall(r)' = Shortfall(r)
                        /\ req'[r].total = req[r].total /\ req'[r].mine
    /\ r \in Taken' => r \in Taken
    /\ AsksInFull(r)' /\ PassedBy(r)' /\ (Between(r)' => Seen(r)')

\* The types, when one request changes.
LEMMA TypesStep ==
    ASSUME GateTypes, NEW r \in Requests, Only(r), req'[r].pc # "new",
           req'[r].pc \in {"debt", "funds", "done"} => ~req'[r].mine,
           req'[r].need \in {0, Cost(r)},
           balance' \in Nat, queue' \in Nat, flight' \in Nat, held' \in Nat, reserved' \in Nat,
           session' \in BOOLEAN
    PROVE  GateTypes'
  <1>1. ASSUME NEW q \in Requests
        PROVE  /\ req'[q].pc = "new" => req'[q] = Fresh(q)
               /\ req'[q].pc \in {"new", "debt", "funds", "done"} => ~req'[q].mine
               /\ req'[q].need \in {0, Cost(q)}
    BY DEF GateTypes, Only, At
  <1> QED BY <1>1 DEF GateTypes, Only, At, Fresh, Cost

\* A step of one request that reserves nothing and is let in nowhere.
LEMMA RequestKeeps ==
    ASSUME GateInv, NEW r \in Requests, Only(r), Quiet, reserved' \in Nat, overdrawn' = overdrawn,
           excuses \subseteq excuses', req'[r].pc # "new",
           req'[r].pc \in {"debt", "funds", "done"} => ~req'[r].mine,
           req'[r].need \in {0, Cost(r)},
           "disturbed" \notin excuses' /\ Counted => CounterFollows(r),
           excuses' = {} /\ Counted /\ Covered => StaysCovered(r)
    PROVE  GateInv'
  <1>1. GateTypes'
    BY TypesStep DEF GateInv, GateTypes, Quiet
  <1>2. ASSUME "disturbed" \notin excuses' PROVE Counted'
    <2>1. Counted
      BY <1>2 DEF GateInv
    <2> QED BY <1>2, <2>1, CountedStep DEF GateInv, CounterFollows
  <1>3. ASSUME excuses' = {} PROVE Covered'
    <2>1. Counted /\ Covered
      BY <1>3 DEF GateInv
    <2>2. StaysCovered(r)
      BY <1>3, <2>1
    <2> QED BY <1>1, <2>1, <2>2, CoveredStep DEF GateInv, StaysCovered
  <1> QED BY <1>1, <1>2, <1>3 DEF GateInv

\* A request replaced by another record.
LEMMA Replaced ==
    ASSUME req \in [Requests -> Asking], NEW r \in Requests, NEW x \in Asking, req' = [req EXCEPT ![r] = x]
    PROVE  Only(r) /\ req'[r] = x
  BY DEF Only

\* The actions, one by one: what ends a request before the gate ...
LEMMA RefusedKeeps ==
    ASSUME GateInv, NEW r \in Requests, Refused(r) PROVE GateInv'
  <1>1. req[r] = Fresh(r) /\ req \in [Requests -> Asking]
    BY DEF Refused, GateInv, GateTypes
  <1>2. Only(r) /\ req'[r].pc = "done" /\ ~req'[r].mine /\ req'[r].holds = req[r].holds /\ req'[r].need = 0
    <2> DEFINE x == [req[r] EXCEPT !.pc = "done"]
    <2>1. x \in Asking /\ x.pc = "done" /\ x.mine = req[r].mine /\ x.holds = req[r].holds /\ x.need = req[r].need
      BY <1>1 DEF Asking
    <2>2. req' = [req EXCEPT ![r] = x]
      BY <1>1 DEF Refused
    <2>3. ~req[r].mine /\ req[r].need = 0
      BY <1>1 DEF Fresh
    <2> HIDE DEF x
    <2> QED BY <1>1, <2>1, <2>2, <2>3, Replaced
  <1>3. CounterFollows(r)
    BY <1>1, <1>2 DEF CounterFollows, Refused, GateInv, GateTypes, Fresh
  <1>4. Covered => StaysCovered(r)
    BY <1>2, NotMissed DEF StaysCovered, Refused, At, Judged, Taken, AsksInFull, PassedBy, Gated, Admitted, Between
  <1> QED BY <1>2, <1>3, <1>4, RequestKeeps DEF Refused, chargeVars, Quiet, GateInv, GateTypes

\* ... what passes it by ...
LEMMA SkipGateKeeps ==
    ASSUME GateInv, NEW r \in Requests, SkipGate(r) PROVE GateInv'
  <1>1. req[r] = Fresh(r) /\ req \in [Requests -> Asking]
    BY DEF SkipGate, GateInv, GateTypes
  <1>2. Only(r) /\ req'[r].pc = "forward" /\ ~req'[r].mine /\ req'[r].holds = 0 /\ req'[r].need = 0
    <2> DEFINE x == [req[r] EXCEPT !.pc = "forward"]
    <2>1. x \in Asking /\ x.pc = "forward" /\ x.mine = req[r].mine /\ x.holds = req[r].holds /\ x.need = req[r].need
      BY <1>1 DEF Asking
    <2>2. req' = [req EXCEPT ![r] = x]
      BY <1>1 DEF SkipGate
    <2>3. ~req[r].mine /\ req[r].holds = 0 /\ req[r].need = 0
      BY <1>1 DEF Fresh
    <2> HIDE DEF x
    <2> QED BY <1>1, <2>1, <2>2, <2>3, Replaced
  <1>3. CounterFollows(r)
    BY <1>1, <1>2 DEF CounterFollows, SkipGate, GateInv, GateTypes, Fresh
  <1>4. Covered => StaysCovered(r)
    BY <1>2, NotMissed DEF StaysCovered, SkipGate, At, Judged, Taken, AsksInFull, PassedBy, Gated, Admitted, Between
  <1> QED BY <1>2, <1>3, <1>4, RequestKeeps DEF SkipGate, chargeVars, Quiet, GateInv, GateTypes

\* ... the first read: what it does not see is with the settler.
LEMMA ReadDebtKeeps ==
    ASSUME GateInv, NEW r \in Requests, ReadDebt(r) PROVE GateInv'
  <1>1. req[r] = Fresh(r) /\ req \in [Requests -> Asking] /\ Cost(r) \in Nat /\ SeenDebt \in Nat /\ flight \in Nat
    BY CostsAreNat DEF ReadDebt, GateInv, GateTypes, SeenDebt
  <1>2. /\ Only(r) /\ req'[r].pc = "debt" /\ ~req'[r].mine /\ req'[r].holds = 0 /\ excuses \subseteq excuses'
        /\ req'[r].need \in {0, Cost(r)}
        /\ "blind" \notin excuses' => /\ req'[r].need = Cost(r) /\ req'[r].debt = SeenDebt
                                      /\ req'[r].unseen = flight /\ req'[r].missed = {}
    <2>0. req[r] \in Asking
      BY <1>1
    <2>1. ~req[r].mine /\ req[r].holds = 0 /\ req[r].missed = {} /\ req[r].need = 0
      BY <1>1 DEF Fresh
    <2> DEFINE x == [req[r] EXCEPT !.pc = "debt", !.need = Cost(r), !.debt = SeenDebt, !.unseen = flight]
               y == [req[r] EXCEPT !.pc = "debt", !.debt = SeenDebt, !.unseen = flight]
               z == [req[r] EXCEPT !.pc = "debt", !.need = Cost(r), !.unseen = flight]
    <2>2. /\ x \in Asking /\ x.pc = "debt" /\ x.mine = req[r].mine /\ x.holds = req[r].holds
          /\ x.need = Cost(r) /\ x.debt = SeenDebt /\ x.unseen = flight /\ x.missed = req[r].missed
      BY <1>1, <2>0 DEF Asking
    <2>3. y \in Asking /\ y.pc = "debt" /\ y.mine = req[r].mine /\ y.holds = req[r].holds /\ y.need = req[r].need
      BY <1>1, <2>0 DEF Asking
    <2>4. z \in Asking /\ z.pc = "debt" /\ z.mine = req[r].mine /\ z.holds = req[r].holds /\ z.need = Cost(r)
      BY <1>1, <2>0 DEF Asking
    <2>5. \/ req' = [req EXCEPT ![r] = x] /\ excuses' = excuses
          \/ req' = [req EXCEPT ![r] = y] /\ excuses' = excuses \cup {"blind"}
          \/ req' = [req EXCEPT ![r] = z] /\ excuses' = excuses \cup {"blind"}
      BY <1>1 DEF ReadDebt
    <2> HIDE DEF x, y, z
    <2> QED BY <1>1, <2>1, <2>2, <2>3, <2>4, <2>5, Replaced
  <1>3. CounterFollows(r)
    BY <1>1, <1>2 DEF CounterFollows, ReadDebt, GateInv, GateTypes, Fresh
  <1>4. ASSUME excuses' = {}, Covered PROVE StaysCovered(r)
    <2>1. queue \in Nat /\ held \in Nat /\ flight \in Nat /\ Sum({}) \in Nat
      BY SumGrows DEF GateInv, GateTypes
    <2>2. queue + flight + held <= (queue + held) + flight + Sum({})
      BY <2>1
    <2>3. Seen(r)'
      BY <1>2, <1>4, <2>2 DEF Seen, At, Owed, SeenDebt, ReadDebt, chargeVars
    <2> QED BY <1>2, <1>4, <2>3, NotMissed DEF StaysCovered, ReadDebt, At, Judged, Taken, AsksInFull, PassedBy, Gated, Admitted
  <1> QED BY <1>2, <1>3, <1>4, RequestKeeps DEF ReadDebt, chargeVars, Quiet, GateInv, GateTypes

\* A request that is over.
LEMMA OverFields ==
    ASSUME NEW r \in Requests, NEW h \in Nat
    PROVE  /\ Over(r, h) \in Asking /\ Over(r, h).pc = "done" /\ Over(r, h).holds = h
           /\ ~Over(r, h).mine /\ Over(r, h).need = 0
  BY DEF Over, Fresh, Asking

\* The end of a request that holds h from then on.
LEMMA EndKeeps ==
    ASSUME GateInv, NEW r \in Requests, NEW h \in Nat, req' = [req EXCEPT ![r] = Over(r, h)],
           Quiet, overdrawn' = overdrawn, excuses \subseteq excuses', reserved' \in Nat,
           "disturbed" \notin excuses' /\ Counted => reserved' = reserved - req[r].holds + h,
           excuses' = {} /\ Covered => \A q \in Requests \ {r} : Between(q) => r \notin req[q].missed
    PROVE  GateInv'
  <1>1. Only(r) /\ req'[r].pc = "done" /\ req'[r].holds = h /\ ~req'[r].mine /\ req'[r].need = 0
    BY OverFields, Replaced, ZenonT(40) DEF GateInv, GateTypes
  <1>2. "disturbed" \notin excuses' /\ Counted => CounterFollows(r)
    BY <1>1 DEF CounterFollows
  <1>3. excuses' = {} /\ Covered => StaysCovered(r)
    BY <1>1 DEF StaysCovered, Judged, Taken, AsksInFull, PassedBy, Gated, Admitted, Between
  <1> QED BY <1>1, <1>2, <1>3, RequestKeeps

\* An end that gives nothing back.
LEMMA LeakKeeps ==
    ASSUME GateInv, NEW r \in Requests, Leak(r), Quiet, overdrawn' = overdrawn, excuses' = excuses,
           ~At(r, "charged")
    PROVE  GateInv'
  <1>1. req[r].holds \in Nat /\ reserved \in Nat
    BY DEF GateInv, GateTypes, Asking
  <1>2. reserved' = reserved - req[r].holds + req[r].holds
    BY <1>1 DEF Leak
  <1> QED BY <1>1, <1>2, EndKeeps, NotMissed DEF Leak

\* An end that gives back what was reserved.
LEMMA GiveBackKeeps ==
    ASSUME GateInv, NEW r \in Requests, GiveBack(r), Quiet, overdrawn' = overdrawn, excuses' = excuses,
           ~At(r, "charged"), ~At(r, "done")
    PROVE  GateInv'
  <1>1. req[r].holds \in Nat /\ reserved \in Nat /\ req[r].need \in Nat /\ req[r].mine \in BOOLEAN
    BY DEF GateInv, GateTypes, Asking
  <1>2. reserved' \in Nat
    BY <1>1 DEF GiveBack, Release
  <1>3. ASSUME Counted PROVE reserved' = reserved - req[r].holds + 0
    <2>1. req[r].holds <= reserved
      BY <1>3, HeldIsCounted DEF GateInv
    <2>2. IF req[r].mine THEN req[r].holds = req[r].need ELSE req[r].holds = 0
      BY <1>1, <1>3 DEF Counted
    <2> QED BY <1>1, <2>1, <2>2 DEF GiveBack, Release
  <1> QED BY <1>2, <1>3, EndKeeps, NotMissed DEF GiveBack

\* The second read: with nothing unseen, the debt read covers what is owed.
LEMMA ReadBalanceKeeps ==
    ASSUME GateInv, NEW r \in Requests, ReadBalance(r) PROVE GateInv'
  <1>1. /\ req \in [Requests -> Asking] /\ req[r] \in Asking /\ balance \in Nat /\ At(r, "debt")
        /\ ~req[r].mine /\ Quiet /\ reserved' = reserved /\ overdrawn' = overdrawn /\ reserved \in Nat
        /\ req[r].need \in {0, Cost(r)}
    BY DEF ReadBalance, GateInv, GateTypes, At, chargeVars, Quiet
  <1>2. CASE req' = [req EXCEPT ![r] = Over(r, 0)] /\ excuses' = excuses
    <2>1. "disturbed" \notin excuses /\ Counted => reserved' = reserved - req[r].holds + 0
      BY <1>1 DEF Counted, At
    <2> QED BY <1>1, <1>2, <2>1, EndKeeps, NotMissed DEF At
  <1>3. CASE /\ req' = [req EXCEPT ![r].pc = "funds", ![r].funds = balance]
             /\ excuses' = IF req[r].unseen > 0 THEN excuses \cup {"blind"} ELSE excuses
    <2> DEFINE x == [req[r] EXCEPT !.pc = "funds", !.funds = balance]
    <2>1. /\ x \in Asking /\ x.pc = "funds" /\ x.funds = balance /\ x.mine = req[r].mine
          /\ x.holds = req[r].holds /\ x.need = req[r].need /\ x.debt = req[r].debt
          /\ x.missed = req[r].missed
      BY <1>1 DEF Asking
    <2>2. req' = [req EXCEPT ![r] = x]
      BY <1>1, <1>3
    <2> HIDE DEF x
    <2>3. Only(r) /\ req'[r] = x
      BY <1>1, <2>1, <2>2, Replaced
    <2>4. Counted => CounterFollows(r)
      BY <1>1, <2>1, <2>3 DEF CounterFollows, Counted, At
    <2>5. ASSUME excuses' = {}, Covered PROVE StaysCovered(r)
      <3>1. excuses = {} /\ ~(req[r].unseen > 0) /\ req[r].unseen \in Nat /\ req[r].debt \in Nat
        BY <1>1, <1>3, <2>5 DEF Asking
      <3>2. Between(r) /\ AsksInFull(r)
        BY <1>1, <2>5 DEF Between, At, Covered
      <3>3. Seen(r) /\ req[r].missed \in SUBSET Requests
        BY <1>1, <2>5, <3>2 DEF Covered, Asking
      <3>4. Sum(req[r].missed) \in Nat
        BY <3>3, SumGrows
      <3>5. Owed \in Nat /\ Owed <= req[r].debt + Sum(req[r].missed)
        BY <1>1, <3>1, <3>3, <3>4 DEF Seen, GateInv, GateTypes, Owed
      <3>6. Owed - balance <= req[r].debt - balance + Sum(req[r].missed)
        BY <1>1, <3>1, <3>4, <3>5
      <3>7. \A m \in req[r].missed : req'[m] = req[m]
        BY <1>1, <2>3, <3>3 DEF Seen, Only, At
      <3>8. Seen(r)'
        BY <1>1, <2>1, <2>3, <3>3, <3>6, <3>7 DEF Seen, At, Owed, Quiet
      <3>9. AsksInFull(r)'
        BY <1>1, <2>1, <2>3, <3>2 DEF AsksInFull, Gated, At
      <3> QED BY <1>1, <2>1, <2>3, <2>5, <3>8, <3>9, NotMissed
              DEF StaysCovered, Judged, Taken, PassedBy, Admitted, At
    <2> QED BY <1>1, <1>3, <2>1, <2>3, <2>4, <2>5, RequestKeeps
  <1> QED BY <1>2, <1>3 DEF ReadBalance

\* Reserving: the one who reserves sees everybody who holds a part of the counter.
LEMMA JudgeKeeps ==
    ASSUME GateInv, NEW r \in Requests, Judge(r) PROVE GateInv'
  <1>1. /\ req \in [Requests -> Asking] /\ req[r] \in Asking /\ At(r, "funds") /\ ~req[r].mine
        /\ Quiet /\ overdrawn' = overdrawn /\ req[r].need \in {0, Cost(r)} /\ reserved \in Nat
        /\ req[r].need \in Nat
    BY DEF Judge, GateInv, GateTypes, At, Asking, chargeVars, Quiet
  <1>2. ASSUME NEW seen \in {reserved, 0}, excuses' = excuses \cup {"disturbed"}, reserved' = reserved,
               req' = [req EXCEPT ![r].pc = "judge", ![r].total = seen + req[r].need]
        PROVE  GateInv'
    <2> DEFINE x == [req[r] EXCEPT !.pc = "judge", !.total = seen + req[r].need]
    <2>1. seen + req[r].need \in Nat
      BY <1>1
    <2>2. x \in Asking /\ x.pc = "judge" /\ x.need = req[r].need
      BY <1>1, <2>1 DEF Asking
    <2>3. req' = [req EXCEPT ![r] = x]
      BY <1>1, <1>2
    <2> HIDE DEF x
    <2>4. Only(r) /\ req'[r] = x
      BY <1>1, <2>2, <2>3, Replaced
    <2>5. GateTypes'
      BY <1>1, <1>2, <2>2, <2>4, TypesStep DEF GateInv, GateTypes, Quiet
    <2> QED BY <1>1, <1>2, <2>5 DEF GateInv
  <1>3. ASSUME Reserve(r), UNCHANGED excuses,
               req' = [req EXCEPT ![r].pc = "judge", ![r].total = TotalSeen(r), ![r].mine = TRUE,
                                  ![r].holds = req[r].need]
        PROVE  GateInv'
    <2> DEFINE x == [req[r] EXCEPT !.pc = "judge", !.total = TotalSeen(r), !.mine = TRUE,
                                   !.holds = req[r].need]
    <2>1. TotalSeen(r) \in Nat /\ reserved' = TotalSeen(r)
      BY <1>1, <1>3 DEF TotalSeen, Reserve
    <2>2. /\ x \in Asking /\ x.pc = "judge" /\ x.need = req[r].need /\ x.total = TotalSeen(r) /\ x.mine
          /\ x.holds = req[r].need /\ x.debt = req[r].debt /\ x.funds = req[r].funds
      BY <1>1, <2>1 DEF Asking
    <2>3. req' = [req EXCEPT ![r] = x]
      BY <1>1, <1>3
    <2> HIDE DEF x
    <2>4. Only(r) /\ req'[r] = x
      BY <1>1, <2>2, <2>3, Replaced
    <2>5. GateTypes'
      BY <1>1, <1>3, <2>1, <2>2, <2>4, TypesStep DEF GateInv, GateTypes, Quiet
    <2>6. ASSUME Counted PROVE Counted'
      <3>1. req[r].holds = 0
        BY <1>1, <2>6 DEF Counted, At
      <3>2. reserved' = reserved - req[r].holds + req'[r].holds
        BY <1>1, <2>1, <2>2, <2>4, <3>1 DEF TotalSeen
      <3> QED BY <1>1, <2>2, <2>4, <2>6, <3>2, CountedStep DEF GateInv
    <2>7. ASSUME excuses = {} PROVE Covered'
      <3>1. Counted' /\ Covered /\ GateTypes /\ Counted
        BY <2>6, <2>7 DEF GateInv
      <3>2. \A q \in Requests \ {r} : Between(q) => r \notin req[q].missed
        BY <1>1, <3>1, NotMissed DEF At
      <3>3. Between(r) /\ Seen(r) /\ req[r].need = Cost(r) /\ req[r].missed \in SUBSET Requests
        BY <1>1, <3>1 DEF Covered, AsksInFull, Between, Gated, At, Asking
      <3>4. AsksInFull(r)' /\ PassedBy(r)' /\ req'[r].mine /\ ~Between(r)'
        BY <2>2, <2>4, <3>3 DEF AsksInFull, PassedBy, Admitted, Between
      <3>5. \A q \in Requests :
                AsksInFull(q)' /\ PassedBy(q)' /\ (q \in Judged' => req'[q].mine) /\ (Between(q)' => Seen(q)')
        BY <1>1, <2>4, <3>1, <3>2, <3>4, OthersCovered
      <3>6. Taken' = Taken /\ r \notin Taken
        BY <1>1, <2>2, <2>4 DEF Taken, Admitted, Only, At
      <3>7. ASSUME NEW S \in SUBSET Judged', S # {}, r \notin S PROVE Backed(S)'
        <4>1. S \in SUBSET Judged
          BY <2>4, <3>7 DEF Judged, Only
        <4>2. \A m \in S : Shortfall(m)' = Shortfall(m) /\ req'[m].total = req[m].total
          BY <2>4, <3>7 DEF Judged, Only, Shortfall
        <4>3. Owed' - balance' <= Owed - balance
          BY <1>1, <3>1 DEF Quiet, Owed, GateTypes
        <4> QED BY <2>5, <3>1, <3>6, <3>7, <4>1, <4>2, <4>3, StillBacked
      <3>8. ASSUME NEW S \in SUBSET Judged', r \in S PROVE Backed(S)'
        <4> DEFINE X == Taken \cup S   M == req[r].missed
        <4>1. \A q \in X : q \in Requests /\ Holds'[q] = Cost(q) /\ req'[q].pc # "charged"
          <5>1. ASSUME NEW q \in X PROVE q \in Requests /\ req'[q].mine /\ req'[q].pc # "charged"
            BY <3>5, <3>6, <3>8 DEF Taken, Judged, Admitted
          <5>2. ASSUME NEW q \in X PROVE Holds'[q] = Cost(q)
            BY <3>1, <3>5, <5>1 DEF Holds, Counted, AsksInFull
          <5> QED BY <5>1, <5>2
        <4>2. \A q \in M : q \in Requests /\ Holds'[q] = Cost(q) /\ req'[q].pc = "charged"
          <5>1. ASSUME NEW q \in M PROVE q \in Requests \ {r} /\ At(q, "charged") /\ req[q].mine
            BY <1>1, <3>3 DEF Seen, At
          <5>2. ASSUME NEW q \in M PROVE Holds'[q] = Cost(q) /\ req'[q].pc = "charged"
            BY <2>4, <3>1, <5>1 DEF Holds, Counted, Covered, AsksInFull, Only, At
          <5> QED BY <5>1, <5>2
        <4>3. X \in SUBSET Requests /\ M \in SUBSET Requests /\ X \cap M = {} /\ X \cup M \in SUBSET Requests
          BY <4>1, <4>2
        <4>4. \A q \in Requests : Holds'[q] \in Nat
          BY <2>4 DEF Only, Asking, Holds
        <4>5. \A q \in X \cup M : Holds'[q] = Cost(q)
          BY <4>1, <4>2
        <4> HIDE DEF X, M
        <4>6. Sum(X \cup M) <= SumFunctionOnSet(Holds', Requests)
          BY <4>3, <4>4, <4>5, HoldersCounted
        <4>7. Sum(X \cup M) = Sum(X) + Sum(M)
          <5>1. IsFiniteSet(X) /\ IsFiniteSet(M) /\ \A q \in X \cup M : Costs[q] \in Nat
            BY <4>3, CostsAreNat, FS_Subset
          <5> QED BY <4>3, <5>1, SumOfUnion DEF Sum
        <4>8. Sum(X) \in Nat /\ Sum(M) \in Nat
          BY <4>3, SumGrows
        <4>9. SumFunctionOnSet(Holds', Requests) = TotalSeen(r)
          BY <2>1, <3>1 DEF Counted
        <4>10. PICK t \in Nat, sx \in Nat, sm \in Nat : t = TotalSeen(r) /\ sx = Sum(X) /\ sm = Sum(M)
          BY <2>1, <4>8
        <4>11. sx + sm <= t
          BY <4>6, <4>7, <4>9, <4>10
        <4>12. Owed \in Nat /\ balance \in Nat /\ req[r].debt \in Nat /\ req[r].funds \in Nat
          BY <1>1, <3>1 DEF GateTypes, Asking, Owed
        <4>13. Owed - balance <= req[r].debt - req[r].funds + sm
          BY <1>1, <3>3, <4>10 DEF Seen, M
        <4>14. sx <= t /\ Owed - balance + sx <= -(req[r].funds - req[r].debt - t)
          BY <4>11, <4>12, <4>13
        <4>15. sx <= req'[r].total /\ Owed - balance + sx <= -Shortfall(r)'
          BY <2>2, <2>4, <4>10, <4>14 DEF Shortfall
        <4>16. Owed' = Owed /\ balance' = balance /\ Taken' \cup S = X
          BY <1>1, <3>6 DEF Quiet, Owed, X
        <4> QED BY <3>8, <4>10, <4>15, <4>16 DEF Backed
      <3> QED BY <3>5, <3>7, <3>8 DEF Covered
    <2> QED BY <1>1, <1>3, <2>5, <2>6, <2>7 DEF GateInv
  <1> QED BY <1>2, <1>3 DEF Judge

\* Letting in: what r saw covers r and all who were let in before.
LEMMA AdmissionCovered ==
    ASSUME GateTypes, Covered, NEW r \in Judged, Shortfall(r) >= 0
    PROVE  Committed(r) <= balance
  <1>1. Taken \cup {r} \in SUBSET Requests /\ {r} \in SUBSET Judged /\ {r} # {}
    BY DEF Judged, Taken
  <1>2. ToCharge(r) \in SUBSET (Taken \cup {r})
    BY RequestsAssumption DEF ToCharge, Taken, Covered, PassedBy, Requests
  <1>3. Sum(Taken \cup {r}) \in Nat /\ Sum(ToCharge(r)) \in Nat /\ Sum(ToCharge(r)) <= Sum(Taken \cup {r})
    BY <1>1, <1>2, SumGrows
  <1>4. Owed \in Nat /\ balance \in Nat /\ Shortfall(r) \in Int
    BY DEF GateTypes, Owed, Shortfall, Asking, Judged
  <1>5. Backed({r})
    BY <1>1 DEF Covered
  <1>6. Owed + Sum(Taken \cup {r}) <= balance
    BY <1>3, <1>4, <1>5 DEF Backed
  <1>7. Owed + Sum(ToCharge(r)) <= balance
    BY <1>3, <1>4, <1>6
  <1> QED BY <1>7 DEF Committed, Owed, Sum, Costs

\* Who is let in joins those who were, and the others stay backed.
LEMMA AdmissionKeeps ==
    ASSUME GateInv, NEW r \in Requests, req[r].pc \in {"judge", "rejudge"}, Shortfall(r) >= 0,
           req' = [req EXCEPT ![r] = Past(r, IF r \in Creates THEN "checks" ELSE "forward")],
           RecordAdmission(r), Quiet, reserved' = reserved, excuses' = excuses
    PROVE  GateInv'
  <1> DEFINE x == Past(r, IF r \in Creates THEN "checks" ELSE "forward")
  <1>1. req \in [Requests -> Asking] /\ req[r] \in Asking /\ req[r].need \in {0, Cost(r)} /\ r \in Judged
    BY DEF GateInv, GateTypes, Judged
  <1>2. /\ x \in Asking /\ x.pc \in {"checks", "forward"} /\ x.need = req[r].need /\ x.mine = req[r].mine
        /\ x.holds = req[r].holds
    BY <1>1 DEF Past, Fresh, Asking
  <1> HIDE DEF x
  <1>3. Only(r) /\ req'[r] = x
    BY <1>1, <1>2, Replaced DEF x
  <1>4. GateTypes'
    BY <1>1, <1>2, <1>3, TypesStep DEF GateInv, GateTypes, Quiet
  <1>5. Counted => Counted'
    <2>1. req[r].holds \in Nat /\ reserved \in Nat
      BY <1>1 DEF GateInv, GateTypes, Asking
    <2>2. reserved' = reserved - req[r].holds + req'[r].holds
      BY <1>2, <1>3, <2>1
    <2>3. Counted => (req[r].mine => req[r].holds = req[r].need) /\ (~req[r].mine => req[r].holds = 0)
      BY DEF Counted, At
    <2> QED BY <1>2, <1>3, <2>2, <2>3, CountedStep DEF GateInv
  <1>6. ASSUME excuses = {} PROVE Covered'
    <2>1. Covered /\ GateTypes /\ req[r].mine /\ req[r].need = Cost(r)
      BY <1>1, <1>6 DEF GateInv, Covered, AsksInFull
    <2>2. \A q \in Requests \ {r} : Between(q) => r \notin req[q].missed
      BY <2>1, NotMissed DEF At
    <2>3. AsksInFull(r)' /\ PassedBy(r)' /\ r \notin Judged' /\ ~Between(r)'
      BY <1>2, <1>3, <2>1 DEF AsksInFull, PassedBy, Admitted, Judged, Between
    <2>4. \A q \in Requests :
              AsksInFull(q)' /\ PassedBy(q)' /\ (q \in Judged' => req'[q].mine) /\ (Between(q)' => Seen(q)')
      BY <1>3, <2>1, <2>2, <2>3, OthersCovered
    <2>5. Taken' = Taken \cup {r} /\ Judged' = Judged \ {r}
      BY <1>1, <1>2, <1>3, <2>1 DEF Taken, Judged, Admitted, Only
    <2>6. ASSUME NEW S \in SUBSET Judged', S # {} PROVE Backed(S)'
      <3> DEFINE T == S \cup {r}
      <3>1. T \in SUBSET Judged /\ T # {} /\ Taken \cup T = Taken' \cup S
        BY <1>1, <2>5
      <3>2. Backed(T)
        BY <2>1, <3>1 DEF Covered
      <3>3. Owed' = Owed /\ balance' = balance
        BY DEF Quiet, Owed
      <3>4. \A m \in S : Shortfall(m)' = Shortfall(m) /\ req'[m].total = req[m].total
        BY <1>3, <2>5 DEF Only, Judged, Shortfall
      <3>5. Owed \in Nat /\ balance \in Nat /\ Shortfall(r) \in Int
        BY <1>1, <2>1 DEF GateTypes, Owed, Shortfall, Asking
      <3>6. Taken \cup T \in SUBSET Requests
        BY <3>1 DEF Taken, Judged
      <3>7. Sum(Taken \cup T) \in Nat
        BY <3>6, SumGrows
      <3> HIDE DEF T
      <3>8. CASE Owed + Sum(Taken \cup T) <= balance
        BY <3>1, <3>3, <3>8 DEF Backed
      <3>9. ASSUME NEW m \in T, Sum(Taken \cup T) <= req[m].total,
                   Owed - balance + Sum(Taken \cup T) <= -Shortfall(m)
            PROVE  Backed(S)'
        <4>1. CASE m = r
          <5>1. Owed + Sum(Taken \cup T) <= balance
            BY <3>5, <3>7, <3>9, <4>1
          <5> QED BY <3>1, <3>3, <5>1 DEF Backed
        <4>2. CASE m # r
          <5>1. m \in S
            BY <4>2 DEF T
          <5> QED BY <3>1, <3>3, <3>4, <3>9, <5>1 DEF Backed
        <4> QED BY <4>1, <4>2
      <3> QED BY <3>2, <3>8, <3>9 DEF Backed
    <2> QED BY <2>4, <2>6 DEF Covered
  <1>7. overdrawn' # "unexcused"
    <2>1. ToCharge(r) \in SUBSET Requests
      BY DEF ToCharge
    <2>2. Sum(ToCharge(r)) \in Nat
      BY <2>1, SumGrows
    <2>3. Committed(r) \in Nat /\ balance \in Nat
      BY <2>2 DEF GateInv, GateTypes, Committed, Sum, Costs
    <2>4. excuses = {} => Committed(r) <= balance
      BY <1>1, AdmissionCovered DEF GateInv
    <2>5. ~(Committed(r) <= balance /\ Committed(r) > balance)
      BY <2>3
    <2>6. Committed(r) <= balance \/ Committed(r) > balance
      BY <2>3
    <2>7. CASE Committed(r) <= balance
      BY <2>5, <2>7 DEF RecordAdmission, GateInv
    <2>8. CASE Committed(r) > balance
      BY <2>4, <2>5, <2>8 DEF RecordAdmission
    <2> QED BY <2>6, <2>7, <2>8
  <1> QED BY <1>4, <1>5, <1>6, <1>7 DEF GateInv

\* The broker is asked: nothing is known anew.
LEMMA AskBrokerKeeps ==
    ASSUME GateInv, NEW r \in Requests, AskBroker(r) PROVE GateInv'
  <1> DEFINE x == [req[r] EXCEPT !.pc = "asked"]
  <1>1. req \in [Requests -> Asking] /\ req[r] \in Asking /\ At(r, "judge") /\ req[r].need \in {0, Cost(r)} /\ Quiet
    BY DEF GateInv, GateTypes, AskBroker, Quiet, chargeVars
  <1>2. /\ x \in Asking /\ x.pc = "asked" /\ x.mine = req[r].mine /\ x.holds = req[r].holds /\ x.need = req[r].need
        /\ x.total = req[r].total /\ x.debt = req[r].debt /\ x.funds = req[r].funds
    BY <1>1 DEF Asking
  <1>3. req' = [req EXCEPT ![r] = x]
    BY <1>1 DEF AskBroker
  <1> HIDE DEF x
  <1>4. Only(r) /\ req'[r] = x
    BY <1>1, <1>2, <1>3, Replaced
  <1>5. Counted => CounterFollows(r)
    <2>1. reserved - req[r].holds + req[r].holds = reserved
      BY <1>1 DEF GateInv, GateTypes, Asking
    <2> QED BY <1>1, <1>2, <1>4, <2>1 DEF CounterFollows, Counted, At, AskBroker
  <1>6. ASSUME Covered PROVE StaysCovered(r)
    <2>1. AsksInFull(r) /\ r \in Judged /\ req[r].mine
      BY <1>1, <1>6 DEF Covered, Judged, At
    <2>2. Shortfall(r)' = Shortfall(r)
      BY <1>2, <1>4 DEF Shortfall
    <2> QED BY <1>1, <1>2, <1>4, <1>6, <2>1, <2>2, NotMissed
            DEF StaysCovered, Taken, AsksInFull, PassedBy, Gated, Admitted, Between, At
  <1> QED BY <1>1, <1>2, <1>4, <1>5, <1>6, RequestKeeps DEF AskBroker, GateInv, GateTypes

\* The balance is read again: nothing beyond the debt read may be owed by then.
LEMMA ReadBalanceAgainKeeps ==
    ASSUME GateInv, NEW r \in Requests, ReadBalanceAgain(r) PROVE GateInv'
  <1> DEFINE x == [req[r] EXCEPT !.pc = "rejudge", !.funds = balance]
  <1>1. /\ req \in [Requests -> Asking] /\ req[r] \in Asking /\ At(r, "asked") /\ req[r].need \in {0, Cost(r)}
        /\ Quiet /\ balance \in Nat /\ reserved' = reserved /\ overdrawn' = overdrawn
    BY DEF GateInv, GateTypes, ReadBalanceAgain, Quiet, chargeVars
  <1>2. /\ x \in Asking /\ x.pc = "rejudge" /\ x.mine = req[r].mine /\ x.holds = req[r].holds
        /\ x.need = req[r].need /\ x.total = req[r].total /\ x.debt = req[r].debt /\ x.funds = balance
    BY <1>1 DEF Asking
  <1>3. req' = [req EXCEPT ![r] = x]
    BY <1>1 DEF ReadBalanceAgain
  <1> HIDE DEF x
  <1>4. Only(r) /\ req'[r] = x
    BY <1>1, <1>2, <1>3, Replaced
  <1>5. GateTypes'
    BY <1>1, <1>2, <1>4, TypesStep DEF GateInv, GateTypes, Quiet
  <1>6. Counted => Counted'
    <2>1. reserved - req[r].holds + req[r].holds = reserved
      BY <1>1 DEF GateInv, GateTypes, Asking
    <2> QED BY <1>1, <1>2, <1>4, <2>1, CountedStep DEF Counted, At, GateInv
  <1>7. ASSUME excuses' = {} PROVE Covered'
    <2>1. /\ excuses = {} /\ Covered /\ GateTypes /\ ~(Owed > req[r].debt)
      BY <1>7 DEF ReadBalanceAgain, GateInv, Owed
    <2>2. AsksInFull(r) /\ r \in Judged /\ req[r].mine
      BY <1>1, <2>1 DEF Covered, Judged, At
    <2>3. \A q \in Requests \ {r} : Between(q) => r \notin req[q].missed
      BY <1>1, <2>1, NotMissed DEF At
    <2>4. AsksInFull(r)' /\ PassedBy(r)' /\ req'[r].mine /\ ~Between(r)'
      BY <1>1, <1>2, <1>4, <2>2 DEF AsksInFull, PassedBy, Admitted, Gated, Between, At
    <2>5. \A q \in Requests :
              AsksInFull(q)' /\ PassedBy(q)' /\ (q \in Judged' => req'[q].mine) /\ (Between(q)' => Seen(q)')
      BY <1>1, <1>4, <2>1, <2>3, <2>4, OthersCovered
    <2>6. Taken' = Taken /\ Judged' = Judged
      BY <1>1, <1>2, <1>4 DEF Taken, Judged, Admitted, Only, At
    <2>7. ASSUME NEW S \in SUBSET Judged', S # {} PROVE Backed(S)'
      <3>1. Backed(S) /\ Taken \cup S \in SUBSET Requests
        BY <2>1, <2>6, <2>7 DEF Covered, Taken, Judged
      <3>2. Sum(Taken \cup S) \in Nat
        BY <3>1, SumGrows
      <3>3. Owed' = Owed /\ balance' = balance
        BY <1>1 DEF Quiet, Owed
      <3>4. Owed \in Nat /\ req[r].debt \in Nat /\ req[r].total \in Nat
        BY <1>1, <2>1 DEF GateTypes, Owed, Asking
      <3>5. CASE Owed + Sum(Taken \cup S) <= balance
        BY <2>6, <3>3, <3>5 DEF Backed
      <3>6. ASSUME NEW m \in S, Sum(Taken \cup S) <= req[m].total,
                   Owed - balance + Sum(Taken \cup S) <= -Shortfall(m)
            PROVE  Backed(S)'
        <4>1. CASE m = r
          <5>1. Owed - balance + Sum(Taken \cup S) <= -(balance - req[r].debt - req[r].total)
            BY <1>1, <2>1, <3>2, <3>4, <3>6, <4>1
          <5>2. req'[m].total = req[m].total /\ Shortfall(m)' = balance - req[r].debt - req[r].total
            BY <1>2, <1>4, <4>1 DEF Shortfall
          <5> QED BY <2>6, <3>3, <3>6, <4>1, <5>1, <5>2 DEF Backed
        <4>2. CASE m # r
          <5>1. req'[m].total = req[m].total /\ Shortfall(m)' = Shortfall(m)
            BY <1>4, <2>6, <4>2 DEF Only, Judged, Shortfall
          <5> QED BY <2>6, <3>3, <3>6, <5>1 DEF Backed
        <4> QED BY <4>1, <4>2
      <3> QED BY <3>1, <3>5, <3>6 DEF Backed
    <2> QED BY <2>5, <2>7 DEF Covered
  <1>8. excuses \subseteq excuses'
    BY DEF ReadBalanceAgain
  <1> QED BY <1>1, <1>5, <1>6, <1>7, <1>8 DEF GateInv

\* A step onward after the gate, which changes nothing but the position.
LEMMA OnwardKeeps ==
    ASSUME GateInv, NEW r \in Requests, NEW pc \in {"forward", "hook", "charged"}, Admitted(r),
           req' = [req EXCEPT ![r].pc = pc], Quiet, reserved' = reserved, overdrawn' = overdrawn,
           excuses' = excuses
    PROVE  GateInv'
  <1> DEFINE x == [req[r] EXCEPT !.pc = pc]
  <1>1. req \in [Requests -> Asking] /\ req[r] \in Asking /\ req[r].need \in {0, Cost(r)} /\ reserved \in Nat
    BY DEF GateInv, GateTypes
  <1>2. x \in Asking /\ x.pc = pc /\ x.mine = req[r].mine /\ x.holds = req[r].holds /\ x.need = req[r].need
    BY <1>1 DEF Asking
  <1>3. req' = [req EXCEPT ![r] = x]
    BY <1>1
  <1> HIDE DEF x
  <1>4. Only(r) /\ req'[r] = x
    BY <1>1, <1>2, <1>3, Replaced
  <1>5. Counted => CounterFollows(r)
    <2>1. reserved - req[r].holds + req[r].holds = reserved
      BY <1>1 DEF Asking
    <2> QED BY <1>2, <1>4, <2>1 DEF CounterFollows, Counted, At, Admitted
  <1>6. ASSUME Covered PROVE StaysCovered(r)
    <2>1. AsksInFull(r) /\ PassedBy(r)
      BY <1>6 DEF Covered
    <2> QED BY <1>2, <1>4, <1>6, <2>1, NotMissed
            DEF StaysCovered, Judged, Taken, AsksInFull, PassedBy, Gated, Admitted, Between, At, Quiet
  <1> QED BY <1>1, <1>2, <1>4, <1>5, <1>6, RequestKeeps

\* Ends on the way.
LEMMA TurnDownKeeps ==
    ASSUME GateInv, NEW r \in Requests, TurnDown(r) PROVE GateInv'
  BY LeakKeeps, GiveBackKeeps DEF TurnDown, At, Quiet, chargeVars

\* The checks after the gate.
LEMMA ChecksKeep ==
    ASSUME GateInv, NEW r \in Requests, ChecksFail(r) \/ ChecksPass(r) PROVE GateInv'
  <1>1. CASE ChecksFail(r)
    BY <1>1, LeakKeeps, GiveBackKeeps DEF ChecksFail, At, Quiet, chargeVars
  <1>2. CASE ChecksPass(r)
    BY <1>2, OnwardKeeps DEF ChecksPass, At, Quiet, chargeVars, Admitted
  <1> QED BY <1>1, <1>2

\* Daytona's answer, and a hook that finds a session.
LEMMA ForwardKeeps ==
    ASSUME GateInv, NEW r \in Requests, Forwarded(r) \/ ForwardFails(r) \/ HookNothingToDo(r) PROVE GateInv'
  <1>1. CASE Forwarded(r)
    BY <1>1, OnwardKeeps DEF Forwarded, At, Quiet, chargeVars, Admitted
  <1>2. CASE ForwardFails(r)
    BY <1>2, LeakKeeps, GiveBackKeeps DEF ForwardFails, At, Quiet, chargeVars
  <1>3. CASE HookNothingToDo(r)
    BY <1>3, LeakKeeps DEF HookNothingToDo, At, Quiet, chargeVars
  <1> QED BY <1>1, <1>2, <1>3

\* A charge that could not be queued.
LEMMA ChargeFailsKeeps ==
    ASSUME GateInv, NEW r \in Requests, ChargeFails(r) PROVE GateInv'
  <1>1. At(r, "hook") /\ Quiet /\ reserved' = reserved /\ overdrawn' = overdrawn /\ excuses' = excuses
    BY DEF ChargeFails, Quiet, chargeVars
  <1>2. CASE req' = [req EXCEPT ![r].pc = "charged"]
    BY <1>1, <1>2, OnwardKeeps DEF At, Admitted
  <1>3. CASE req' = [req EXCEPT ![r] = Over(r, req[r].holds)]
    BY <1>1, <1>3, LeakKeeps DEF Leak, At
  <1> QED BY <1>2, <1>3 DEF ChargeFails

\* The hook's release is of what the request holds.
LEMMA HookReleaseKeeps ==
    ASSUME GateInv, NEW r \in Requests, HookRelease(r) PROVE GateInv'
  <1>1. /\ req[r] \in Asking /\ req[r].holds \in Nat /\ req[r].mine \in BOOLEAN /\ req[r].need \in {0, Cost(r)}
        /\ reserved \in Nat /\ Cost(r) \in Nat /\ Cost(r) > 0
    BY CostsAreNat DEF GateInv, GateTypes, Asking
  <1>2. reserved' \in Nat
    BY <1>1 DEF HookRelease, Release
  <1>3. ASSUME "disturbed" \notin excuses', Counted PROVE reserved' = reserved - req[r].holds + 0
    <2>1. ~(req[r].holds < Cost(r))
      BY <1>3 DEF HookRelease
    <2>2. req[r].mine
      BY <1>1, <1>3, <2>1 DEF Counted, HookRelease, At
    <2>3. req[r].holds = Cost(r)
      BY <1>1, <1>3, <2>1, <2>2 DEF Counted
    <2>4. req[r].holds <= reserved
      BY <1>3, HeldIsCounted DEF GateInv
    <2> QED BY <1>1, <2>3, <2>4 DEF HookRelease, Release
  <1>4. excuses' = {} => \A q \in Requests \ {r} : Between(q) => r \notin req[q].missed
    BY DEF HookRelease
  <1>5. Quiet /\ overdrawn' = overdrawn /\ excuses \subseteq excuses' /\ req' = [req EXCEPT ![r] = Over(r, 0)]
    BY DEF HookRelease, Quiet, chargeVars
  <1> QED BY <1>2, <1>3, <1>4, <1>5, EndKeeps

\* A charge moves a cost from the requests let in to what is owed.
LEMMA ChargeKeeps ==
    ASSUME GateInv, NEW r \in Requests, Charge(r) PROVE GateInv'
  <1>1. /\ req \in [Requests -> Asking] /\ At(r, "hook") /\ req[r] \in Asking /\ Cost(r) \in Nat /\ Cost(r) > 0
        /\ req[r].need \in {0, Cost(r)} /\ GateTypes
    BY CostsAreNat DEF GateInv, GateTypes, Charge
  <1>2. ASSUME NEW q \in Requests
        PROVE  /\ req'[q] \in Asking
               /\ req'[q].need = req[q].need /\ req'[q].debt = req[q].debt /\ req'[q].funds = req[q].funds
               /\ req'[q].total = req[q].total /\ req'[q].mine = req[q].mine /\ req'[q].holds = req[q].holds
               /\ req'[q].unseen = req[q].unseen
               /\ req'[q].pc = IF q = r THEN "charged" ELSE req[q].pc
               /\ req'[q].missed = IF q # r /\ Between(q) THEN req[q].missed \cup {r} ELSE req[q].missed
               /\ q # r /\ ~Between(q) => req'[q] = req[q]
    <2>1. req[q] \in Asking /\ req[q].missed \in SUBSET Requests
      BY <1>1 DEF Asking
    <2>2. CASE q = r
      <3>1. req'[q] = [req[q] EXCEPT !.pc = "charged"]
        BY <2>2 DEF Charge
      <3> QED BY <2>1, <2>2, <3>1 DEF Asking
    <2>3. CASE q # r /\ Between(q)
      <3>1. req'[q] = [req[q] EXCEPT !.missed = @ \cup {r}]
        BY <2>3 DEF Charge
      <3> QED BY <2>1, <2>3, <3>1 DEF Asking
    <2>4. CASE q # r /\ ~Between(q)
      <3>1. req'[q] = [req[q] EXCEPT !.missed = @]
        BY <2>4 DEF Charge
      <3>2. req'[q] = req[q]
        BY <2>1, <3>1 DEF Asking
      <3> QED BY <2>1, <2>4, <3>2
    <2> QED BY <2>2, <2>3, <2>4
  <1>3. GateTypes'
    <2>1. req' \in [Requests -> Asking]
      BY <1>2 DEF Charge
    <2>2. queue' \in Nat /\ session' \in BOOLEAN
      BY <1>1 DEF Charge, GateTypes
    <2>3. ASSUME NEW q \in Requests
          PROVE  /\ req'[q].pc = "new" => req'[q] = Fresh(q)
                 /\ req'[q].pc \in {"new", "debt", "funds", "done"} => ~req'[q].mine
                 /\ req'[q].need \in {0, Cost(q)}
      BY <1>1, <1>2 DEF GateTypes, At, Between
    <2> QED BY <1>1, <2>1, <2>2, <2>3 DEF GateTypes, Charge, At, Fresh, Cost
  <1>4. Counted => Counted'
    <2>1. Holds' = Holds
      BY <1>2 DEF Holds
    <2>2. reserved' = reserved
      BY DEF Charge
    <2>3. ASSUME Counted, NEW q \in Requests
          PROVE  /\ req'[q].mine => req'[q].holds = req'[q].need
                 /\ ~req'[q].mine /\ req'[q].pc # "done" => req'[q].holds = 0
      BY <1>1, <1>2, <2>3 DEF Counted, At
    <2> QED BY <2>1, <2>2, <2>3 DEF Counted, At
  <1>5. ASSUME excuses' = {} PROVE Covered'
    <2>1. /\ Covered /\ Counted /\ session' \in BOOLEAN /\ (session => session')
          /\ (\A q \in Requests : ~Gated(q)) \/ ~(req[r].holds < Cost(r))
      BY <1>1, <1>5 DEF GateInv, Charge, GateTypes
    <2>2. Judged' = Judged
      BY <1>1, <1>2 DEF Judged, At
    <2>3. ASSUME NEW q \in Requests
          PROVE  AsksInFull(q)' /\ PassedBy(q)' /\ (q \in Judged' => req'[q].mine)
      <3>1. AsksInFull(q) /\ PassedBy(q) /\ (q \in Judged => req[q].mine)
        BY <2>1 DEF Covered
      <3> QED BY <1>1, <1>2, <2>1, <2>2, <3>1 DEF AsksInFull, PassedBy, Gated, Admitted, At
    <2>4. CASE \A q \in Requests : ~Gated(q)
      <3>1. Judged' = {} /\ \A q \in Requests : ~Between(q)'
        BY <1>1, <1>2, <2>2, <2>4 DEF Judged, Gated, Between, At
      <3> QED BY <2>3, <3>1 DEF Covered
    <2>5. CASE ~(req[r].holds < Cost(r))
      <3>1. req[r].mine
        BY <1>1, <2>1, <2>5 DEF Counted, At, Asking
      <3>2. Taken = Taken' \cup {r} /\ r \notin Taken' /\ Taken' \in SUBSET Requests
        BY <1>1, <1>2, <3>1 DEF Taken, Admitted, At
      <3>3. Owed \in Nat /\ balance \in Nat /\ Owed' = Owed + Cost(r) /\ balance' = balance /\ flight' = flight
        BY <1>1 DEF Charge, GateTypes, Owed
      <3>4. ASSUME NEW S \in SUBSET Judged', S # {} PROVE Backed(S)'
        <4> DEFINE X == Taken' \cup S
        <4>1. X \in SUBSET Requests /\ r \in Requests \ X /\ Taken \cup S = X \cup {r}
          BY <1>1, <2>2, <3>2 DEF Judged, At
        <4> HIDE DEF X
        <4>2. Sum(X \cup {r}) = Sum(X) + Cost(r) /\ Sum(X) \in Nat
          BY <4>1, SumWith
        <4>3. Sum(Taken \cup S) = Sum(X) + Cost(r)
          BY <4>1, <4>2
        <4>4. Backed(S)
          BY <2>1, <2>2, <3>4 DEF Covered
        <4>5. CASE Owed + Sum(Taken \cup S) <= balance
          <5>1. (Owed + Cost(r)) + Sum(X) <= balance
            BY <1>1, <3>3, <4>2, <4>3, <4>5
          <5> QED BY <3>3, <5>1 DEF Backed, X
        <4>6. ASSUME NEW m \in S, Sum(Taken \cup S) <= req[m].total,
                     Owed - balance + Sum(Taken \cup S) <= -Shortfall(m)
              PROVE  Backed(S)'
          <5>1. m \in Requests
            BY <2>2 DEF Judged
          <5>2. Shortfall(m)' = Shortfall(m) /\ req'[m].total = req[m].total
            BY <1>2, <5>1 DEF Shortfall
          <5>3. Shortfall(m) \in Int /\ req[m].total \in Nat
            BY <1>1, <5>1 DEF Shortfall, Asking
          <5>4. Sum(X) <= req[m].total /\ (Owed + Cost(r)) - balance + Sum(X) <= -Shortfall(m)
            BY <1>1, <3>3, <4>2, <4>3, <4>6, <5>3
          <5> QED BY <3>3, <5>2, <5>4 DEF Backed, X
        <4> QED BY <4>4, <4>5, <4>6 DEF Backed
      <3>5. ASSUME NEW q \in Requests, Between(q)' PROVE Seen(q)'
        <4>1. q # r /\ Between(q) /\ Seen(q) /\ req[q].missed \in SUBSET Requests /\ r \notin req[q].missed
          BY <1>1, <1>2, <2>1, <3>5 DEF Between, Covered, Seen, At, Asking
        <4> DEFINE M == req[q].missed
        <4>2. req'[q].missed = M \cup {r} /\ req'[q].pc = req[q].pc
          BY <1>2, <4>1
        <4>3. Sum(M \cup {r}) = Sum(M) + Cost(r) /\ Sum(M) \in Nat
          BY <4>1, SumWith
        <4>4. \A m \in M \cup {r} : req'[m].pc = "charged" /\ req'[m].mine
          BY <1>2, <3>1, <4>1 DEF Seen, At
        <4>5. req[q].debt \in Nat /\ req[q].unseen \in Nat /\ req[q].funds \in Nat
          BY <1>1 DEF Asking
        <4>6. At(q, "debt") => Owed + Cost(r) <= req[q].debt + req[q].unseen + (Sum(M) + Cost(r))
          BY <1>1, <3>3, <4>1, <4>3, <4>5 DEF Seen
        <4>7. At(q, "funds") => (Owed + Cost(r)) - balance <= req[q].debt - req[q].funds + (Sum(M) + Cost(r))
          BY <1>1, <3>3, <4>1, <4>3, <4>5 DEF Seen
        <4>8. At(q, "debt") /\ req[q].unseen > 0 => flight = req[q].unseen
          BY <4>1 DEF Seen
        <4> HIDE DEF M
        <4> QED BY <1>2, <3>3, <4>2, <4>3, <4>4, <4>6, <4>7, <4>8 DEF Seen, At
      <3> QED BY <2>3, <3>4, <3>5 DEF Covered
    <2> QED BY <2>1, <2>4, <2>5
  <1>6. overdrawn' = overdrawn /\ excuses \subseteq excuses'
    BY DEF Charge
  <1> QED BY <1>3, <1>4, <1>5, <1>6 DEF GateInv

-----------------------------------------------------------------------------
(* Steps of the others. *)

\* Who is under way neither changes nor forgets.
LEMMA SameRequests ==
    ASSUME GateTypes, UNCHANGED <<req, reserved>>,
           balance' \in Nat, queue' \in Nat, flight' \in Nat, held' \in Nat, session' \in BOOLEAN
    PROVE  GateTypes' /\ (Counted => Counted')
  <1>1. Holds' = Holds
    BY DEF Holds
  <1> QED BY <1>1 DEF GateTypes, Counted, At, Fresh, Cost

\* Nobody is in front of the gate.
LEMMA NobodyGated ==
    ASSUME Covered, \A q \in Requests : ~Gated(q), UNCHANGED req, session => session', session' \in BOOLEAN
    PROVE  Covered'
  <1>1. Judged' = {} /\ \A q \in Requests : ~Between(q)'
    BY DEF Judged, Gated, Between
  <1>2. ASSUME NEW q \in Requests PROVE AsksInFull(q)' /\ PassedBy(q)'
    BY DEF Covered, AsksInFull, PassedBy, Gated, Admitted
  <1> QED BY <1>1, <1>2 DEF Covered

\* A charge of a running sandbox: nobody in front of the gate may miss it.
LEMMA BillingKeeps ==
    ASSUME GateInv, Accrue \/ EnsureBilling PROVE GateInv'
  <1>1. /\ queue' \in Nat /\ session' \in BOOLEAN /\ (session => session') /\ UNCHANGED <<req, reserved>>
        /\ balance' \in Nat /\ flight' \in Nat /\ held' \in Nat /\ overdrawn' = overdrawn
        /\ excuses \subseteq excuses' /\ ("blind" \in excuses' \/ \A q \in Requests : ~Gated(q))
    <2>1. queue \in Nat /\ session \in BOOLEAN /\ balance \in Nat /\ flight \in Nat /\ held \in Nat /\ StartCost \in Nat
      BY CostAssumption DEF GateInv, GateTypes
    <2>2. CASE Accrue
      BY <2>1, <2>2 DEF Accrue
    <2>3. CASE EnsureBilling
      BY <2>1, <2>3 DEF EnsureBilling
    <2> QED BY <2>2, <2>3
  <1>2. GateTypes' /\ (Counted => Counted')
    BY <1>1, SameRequests DEF GateInv
  <1>3. excuses' = {} /\ Covered => Covered'
    BY <1>1, NobodyGated
  <1> QED BY <1>1, <1>2, <1>3 DEF GateInv

\* Less is owed beyond the balance, and what is with the settler stays there.
LEMMA LessOwed ==
    ASSUME GateTypes, GateTypes', Covered, UNCHANGED <<req, session>>, Owed' <= Owed,
           Owed' - balance' <= Owed - balance,
           \A q \in Requests : At(q, "debt") /\ req[q].unseen > 0 => flight' = flight
    PROVE  Covered'
  <1>1. Judged' = Judged /\ Taken' = Taken
    BY DEF Judged, Taken, Admitted
  <1>2. \A m \in Judged : Shortfall(m)' = Shortfall(m)
    BY DEF Shortfall
  <1>3. \A S \in SUBSET Judged' : S # {} => Backed(S)'
    BY <1>1, <1>2, StillBacked
  <1>4. ASSUME NEW q \in Requests
        PROVE  AsksInFull(q)' /\ PassedBy(q)' /\ (q \in Judged' => req'[q].mine)
    BY DEF Covered, AsksInFull, PassedBy, Gated, Admitted, Judged
  <1>5. ASSUME NEW q \in Requests, Between(q)' PROVE Seen(q)'
    <2>1. Seen(q) /\ req[q] \in Asking
      BY <1>5 DEF Between, Covered, GateTypes
    <2>2. req[q].missed \in SUBSET Requests /\ req[q].debt \in Nat /\ req[q].unseen \in Nat /\ req[q].funds \in Nat
      BY <2>1 DEF Asking
    <2>3. Sum(req[q].missed) \in Nat
      BY <2>2, SumGrows
    <2>4. Owed \in Nat /\ balance \in Nat /\ Owed' \in Nat /\ balance' \in Nat
      <3>1. \A x, y, z \in Nat : x + y + z \in Nat
        OBVIOUS
      <3> QED BY <3>1 DEF GateTypes, Owed
    <2>5. PICK w \in Nat, b \in Nat, w1 \in Nat, b1 \in Nat :
              w = Owed /\ b = balance /\ w1 = Owed' /\ b1 = balance'
      BY <2>4
    <2>6. w1 <= w /\ w1 - b1 <= w - b
      BY <2>5
    <2>7. At(q, "debt") => w1 <= req[q].debt + req[q].unseen + Sum(req[q].missed)
      BY <2>1, <2>2, <2>3, <2>5, <2>6 DEF Seen
    <2>8. ASSUME At(q, "funds") PROVE w1 - b1 <= req[q].debt - req[q].funds + Sum(req[q].missed)
      <3>1. w - b <= req[q].debt - req[q].funds + Sum(req[q].missed)
        BY <2>1, <2>5, <2>8 DEF Seen
      <3>2. PICK d \in Nat, f \in Nat, m \in Nat : d = req[q].debt /\ f = req[q].funds /\ m = Sum(req[q].missed)
        BY <2>2, <2>3
      <3>3. w - b <= d - f + m
        BY <3>1, <3>2
      <3>4. w1 - b1 <= d - f + m
        BY <2>6, <3>3
      <3> QED BY <3>2, <3>4
    <2> QED BY <2>1, <2>5, <2>7, <2>8 DEF Seen, At
  <1> QED BY <1>3, <1>4, <1>5 DEF Covered

\* The settler takes and parks, and the user deposits.
LEMMA MoneyKeeps ==
    ASSUME GateInv, Pop \/ Park \/ Deposit PROVE GateInv'
  <1>1. /\ queue' \in Nat /\ flight' \in Nat /\ held' \in Nat /\ balance' \in Nat /\ session' = session
        /\ session' \in BOOLEAN /\ UNCHANGED <<req, reserved, overdrawn>> /\ excuses \subseteq excuses'
    BY DEF GateInv, GateTypes, Pop, Park, Deposit, chargeVars
  <1>2. GateTypes' /\ (Counted => Counted')
    BY <1>1, SameRequests DEF GateInv
  <1>3. Owed' <= Owed /\ Owed' - balance' <= Owed - balance
    BY DEF GateInv, GateTypes, Owed, Pop, Park, Deposit, chargeVars
  <1>4. ASSUME excuses' = {}, Covered, NEW q \in Requests, At(q, "debt"), req[q].unseen > 0
        PROVE  flight' = flight
    <2>1. flight = req[q].unseen /\ req[q].unseen \in Nat /\ flight # 0
      BY <1>4 DEF Covered, Seen, Between, At, GateInv, GateTypes, Asking
    <2> QED BY <1>4, <2>1 DEF Pop, Park, Deposit, chargeVars
  <1>5. excuses' = {} /\ Covered => Covered'
    BY <1>1, <1>2, <1>3, <1>4, LessOwed DEF GateInv
  <1> QED BY <1>1, <1>2, <1>5 DEF GateInv

\* A session closes: no start that relies on it may be under way.
LEMMA CloseSessionKeeps ==
    ASSUME GateInv, CloseSession PROVE GateInv'
  <1>1. /\ UNCHANGED <<balance, queue, flight, held, req, reserved, overdrawn>> /\ session' = FALSE
        /\ excuses \subseteq excuses'
        /\ "blind" \in excuses' \/ \A q \in Starts : ~(Admitted(q) /\ ~req[q].mine)
    BY DEF CloseSession, chargeVars
  <1>2. GateTypes' /\ (Counted => Counted')
    BY <1>1, SameRequests DEF GateInv, GateTypes
  <1>3. ASSUME excuses' = {}, Covered PROVE Covered'
    <2>1. Judged' = Judged /\ Taken' = Taken /\ \A m \in Judged : Shortfall(m)' = Shortfall(m)
      BY <1>1 DEF Judged, Taken, Admitted, Shortfall
    <2>2. Owed' - balance' <= Owed - balance
      BY <1>1 DEF GateInv, GateTypes, Owed
    <2>3. \A S \in SUBSET Judged' : S # {} => Backed(S)'
      BY <1>1, <1>2, <1>3, <2>1, <2>2, StillBacked DEF GateInv
    <2>4. ASSUME NEW q \in Requests
          PROVE  AsksInFull(q)' /\ PassedBy(q)' /\ (q \in Judged' => req'[q].mine) /\ (Between(q)' => Seen(q)')
      <3>1. AsksInFull(q) /\ PassedBy(q) /\ (q \in Judged => req[q].mine) /\ (Between(q) => Seen(q))
        BY <1>3 DEF Covered
      <3>2. AsksInFull(q)' /\ PassedBy(q)' /\ (q \in Judged' => req'[q].mine)
        BY <1>1, <1>3, <2>1, <3>1 DEF AsksInFull, PassedBy, Gated, Admitted
      <3>3. Between(q)' => Seen(q)'
        BY <1>1, <3>1 DEF Between, Seen, Owed, At
      <3> QED BY <3>2, <3>3
    <2> QED BY <2>3, <2>4 DEF Covered
  <1> QED BY <1>1, <1>2, <1>3 DEF GateInv

\* The same of everything but what the settler had when the debt was read.
LEMMA LandKeeps ==
    ASSUME GateInv, Land PROVE GateInv'
  <1>1. /\ GateTypes /\ flight \in Nat /\ balance \in Nat /\ balance' = balance - flight /\ flight' = 0
        /\ balance' \in Nat /\ flight > 0
        /\ UNCHANGED <<queue, held, reserved, session, excuses, overdrawn>>
    BY DEF GateInv, GateTypes, Land
  <1>2. ASSUME NEW q \in Requests
        PROVE  /\ req'[q] \in Asking
               /\ req'[q].need = req[q].need /\ req'[q].debt = req[q].debt /\ req'[q].funds = req[q].funds
               /\ req'[q].total = req[q].total /\ req'[q].mine = req[q].mine /\ req'[q].holds = req[q].holds
               /\ req'[q].missed = req[q].missed /\ req'[q].pc = req[q].pc
               /\ At(q, "debt") => req'[q].unseen = 0
               /\ ~At(q, "debt") => req'[q] = req[q]
    <2>1. req[q] \in Asking
      BY <1>1 DEF GateTypes
    <2>2. CASE At(q, "debt")
      <3>1. req'[q] = [req[q] EXCEPT !.unseen = 0]
        BY <2>2 DEF Land
      <3> QED BY <2>1, <2>2, <3>1 DEF Asking
    <2>3. CASE ~At(q, "debt")
      BY <2>1, <2>3 DEF Land
    <2> QED BY <2>2, <2>3
  <1>3. GateTypes'
    <2>1. req' \in [Requests -> Asking]
      BY <1>2 DEF Land
    <2>2. ASSUME NEW q \in Requests
          PROVE  /\ req'[q].pc = "new" => req'[q] = Fresh(q)
                 /\ req'[q].pc \in {"new", "debt", "funds", "done"} => ~req'[q].mine
                 /\ req'[q].need \in {0, Cost(q)}
      BY <1>1, <1>2 DEF GateTypes, At
    <2> QED BY <1>1, <2>1, <2>2 DEF GateTypes, At, Fresh, Cost
  <1>4. Counted => Counted'
    <2>1. Holds' = Holds
      BY <1>2 DEF Holds
    <2>2. ASSUME Counted, NEW q \in Requests
          PROVE  /\ req'[q].mine => req'[q].holds = req'[q].need
                 /\ ~req'[q].mine /\ req'[q].pc # "done" => req'[q].holds = 0
      BY <1>2, <2>2 DEF Counted, At
    <2> QED BY <1>1, <2>1, <2>2 DEF Counted, At
  <1>5. ASSUME Covered PROVE Covered'
    <2>1. Judged' = Judged /\ Taken' = Taken
      BY <1>2 DEF Judged, Taken, Admitted
    <2>2. \A m \in Judged : Shortfall(m)' = Shortfall(m) /\ req'[m].total = req[m].total
      BY <1>2 DEF Judged, Shortfall
    <2>3. Owed \in Nat /\ Owed' = Owed - flight
      BY <1>1 DEF GateTypes, Owed
    <2>4. Owed' - balance' <= Owed - balance
      BY <1>1, <2>3
    <2>5. \A S \in SUBSET Judged' : S # {} => Backed(S)'
      BY <1>1, <1>3, <1>5, <2>1, <2>2, <2>4, StillBacked
    <2>6. ASSUME NEW q \in Requests
          PROVE  AsksInFull(q)' /\ PassedBy(q)' /\ (q \in Judged' => req'[q].mine)
      <3>1. AsksInFull(q) /\ PassedBy(q) /\ (q \in Judged => req[q].mine)
        BY <1>5 DEF Covered
      <3> QED BY <1>1, <1>2, <2>1, <3>1 DEF AsksInFull, PassedBy, Gated, Admitted
    <2>7. ASSUME NEW q \in Requests, Between(q)' PROVE Seen(q)'
      <3>1. Seen(q) /\ req[q] \in Asking
        BY <1>1, <1>2, <1>5, <2>7 DEF Between, Covered, GateTypes
      <3>2. /\ req[q].missed \in SUBSET Requests /\ req[q].debt \in Nat /\ req[q].unseen \in Nat
            /\ req[q].funds \in Nat
        BY <3>1 DEF Asking
      <3>3. Sum(req[q].missed) \in Nat
        BY <3>2, SumGrows
      <3>4. \A m \in req[q].missed : req'[m].pc = "charged" /\ req'[m].mine
        BY <1>2, <3>1, <3>2 DEF Seen, At
      <3>5. ASSUME At(q, "debt") PROVE Owed - flight <= req[q].debt + 0 + Sum(req[q].missed)
        <4>1. Owed <= req[q].debt + req[q].unseen + Sum(req[q].missed) /\ (req[q].unseen > 0 => flight = req[q].unseen)
          BY <3>1, <3>5 DEF Seen
        <4> QED BY <1>1, <2>3, <3>2, <3>3, <4>1
      <3>6. ASSUME At(q, "funds")
            PROVE  (Owed - flight) - (balance - flight) <= req[q].debt - req[q].funds + Sum(req[q].missed)
        <4>1. Owed - balance <= req[q].debt - req[q].funds + Sum(req[q].missed)
          BY <3>1, <3>6 DEF Seen
        <4> QED BY <1>1, <2>3, <3>2, <3>3, <4>1
      <3> QED BY <1>1, <1>2, <2>3, <3>4, <3>5, <3>6 DEF Seen, At
    <2> QED BY <2>5, <2>6, <2>7 DEF Covered
  <1> QED BY <1>1, <1>3, <1>4, <1>5 DEF GateInv

\* Everybody is over: a crash leaves what was held on record.
LEMMA CrashKeeps ==
    ASSUME GateInv, Crash PROVE GateInv'
  <1>1. /\ GateTypes
        /\ UNCHANGED <<balance, queue, flight, held, reserved, session, excuses, overdrawn>>
    BY DEF GateInv, Crash, chargeVars
  <1>2. ASSUME NEW q \in Requests
        PROVE  /\ req'[q] \in Asking /\ req'[q].pc \in {"new", "done"} /\ req'[q].holds = req[q].holds
               /\ ~req'[q].mine /\ req'[q].need \in {0, Cost(q)} /\ (req'[q].pc = "new" => req'[q] = Fresh(q))
               /\ req'[q].pc = "new" => req[q].pc = "new"
    <2>1. req[q] \in Asking /\ req[q].holds \in Nat
      BY <1>1 DEF GateTypes, Asking
    <2>2. CASE q \in Ended
      <3>1. req'[q] = req[q]
        BY <2>2 DEF Crash
      <3> QED BY <1>1, <2>1, <2>2, <3>1 DEF GateTypes, Ended, At
    <2>3. CASE q \notin Ended
      <3>1. req'[q] = Over(q, req[q].holds)
        BY <2>3 DEF Crash
      <3> QED BY <2>1, <3>1, OverFields
    <2> QED BY <2>2, <2>3
  <1>3. GateTypes'
    <2>1. req' \in [Requests -> Asking]
      BY <1>2 DEF Crash
    <2> QED BY <1>1, <1>2, <2>1 DEF GateTypes, At, Fresh, Cost
  <1>4. Counted => Counted'
    <2>1. Holds' = Holds
      BY <1>2 DEF Holds
    <2>2. ASSUME Counted, NEW q \in Requests
          PROVE  /\ req'[q].mine => req'[q].holds = req'[q].need
                 /\ ~req'[q].mine /\ req'[q].pc # "done" => req'[q].holds = 0
      BY <1>2 DEF Fresh
    <2> QED BY <1>1, <2>1, <2>2 DEF Counted, At
  <1>5. Covered'
    <2>1. Judged' = {} /\ \A q \in Requests : ~Between(q)' /\ AsksInFull(q)' /\ PassedBy(q)'
      BY <1>2 DEF Judged, Between, AsksInFull, PassedBy, Gated, Admitted
    <2> QED BY <2>1 DEF Covered
  <1> QED BY <1>1, <1>3, <1>4, <1>5 DEF GateInv

\* The counter expires: while nobody is under way nothing counts on it.
LEMMA ExpireKeeps ==
    ASSUME GateInv, Expire PROVE GateInv'
  <1>1. /\ GateTypes /\ reserved' = 0 /\ UNCHANGED <<balance, queue, flight, held, session, overdrawn>>
        /\ excuses \subseteq excuses' /\ (Ended = Requests \/ "disturbed" \in excuses')
    BY DEF GateInv, Expire, chargeVars
  <1>2. ASSUME NEW q \in Requests
        PROVE  /\ req'[q] \in Asking /\ req'[q].pc = req[q].pc /\ req'[q].holds = 0
               /\ req'[q].mine = req[q].mine /\ req'[q].need = req[q].need
               /\ (req'[q].pc = "new" => req'[q] = Fresh(q))
    <2>1. req[q] \in Asking
      BY <1>1 DEF GateTypes
    <2>2. req'[q] = [req[q] EXCEPT !.holds = 0]
      BY DEF Expire
    <2>3. ASSUME req[q].pc = "new" PROVE req'[q] = Fresh(q)
      <3>1. req[q] = Fresh(q)
        BY <1>1, <2>3 DEF GateTypes, At
      <3>2. req'[q] = [Fresh(q) EXCEPT !.holds = 0]
        BY <2>2, <3>1
      <3> QED BY <3>2 DEF Fresh
    <2> QED BY <2>1, <2>2, <2>3 DEF Asking
  <1>3. GateTypes'
    <2>1. req' \in [Requests -> Asking]
      BY <1>2 DEF Expire
    <2>2. ASSUME NEW q \in Requests
          PROVE  /\ req'[q].pc = "new" => req'[q] = Fresh(q)
                 /\ req'[q].pc \in {"new", "debt", "funds", "done"} => ~req'[q].mine
                 /\ req'[q].need \in {0, Cost(q)}
      BY <1>1, <1>2 DEF GateTypes
    <2> QED BY <1>1, <2>1, <2>2 DEF GateTypes, At, Fresh, Cost
  <1>4. ASSUME Ended = Requests PROVE Counted' /\ Covered'
    <2>1. \A q \in Requests : req'[q].pc \in {"new", "done"} /\ ~req'[q].mine /\ req'[q].holds = 0
      BY <1>1, <1>2, <1>4 DEF Ended, GateTypes
    <2>2. \A q \in Requests : Holds'[q] = 0
      BY <2>1 DEF Holds
    <2>3. SumFunctionOnSet(Holds', Requests) = 0
      BY <2>2, CostsAreNat, SumOfZeros
    <2>4. Counted'
      BY <1>1, <2>1, <2>3 DEF Counted
    <2>5. Judged' = {} /\ \A q \in Requests : ~Between(q)' /\ AsksInFull(q)' /\ PassedBy(q)'
      BY <2>1 DEF Judged, Between, AsksInFull, PassedBy, Gated, Admitted
    <2> QED BY <2>4, <2>5 DEF Covered
  <1> QED BY <1>1, <1>3, <1>4 DEF GateInv

-----------------------------------------------------------------------------
\* The beginning.
LEMMA GateInitially == Init => GateInv
  <1> SUFFICES ASSUME Init PROVE GateInv
    OBVIOUS
  <1>1. \A r \in Requests : /\ Fresh(r) \in Asking /\ Fresh(r).pc = "new" /\ ~Fresh(r).mine
                            /\ Fresh(r).need = 0 /\ Fresh(r).holds = 0
    BY DEF Fresh, Asking
  <1>2. req \in [Requests -> Asking] /\ \A r \in Requests : req[r] = Fresh(r)
    BY <1>1 DEF Init
  <1>3. GateTypes
    BY <1>1, <1>2, BoundsAssumption DEF Init, GateTypes
  <1>4. Counted
    <2>1. \A r \in Requests : Holds[r] = 0
      BY <1>1, <1>2 DEF Holds
    <2>2. SumFunctionOnSet(Holds, Requests) = 0
      BY <2>1, CostsAreNat, SumOfZeros
    <2> QED BY <1>1, <1>2, <2>2 DEF Counted, Init
  <1>5. Covered
    <2>1. Judged = {} /\ \A q \in Requests : ~Between(q) /\ AsksInFull(q) /\ PassedBy(q)
      BY <1>1, <1>2 DEF Judged, Between, AsksInFull, PassedBy, Gated, Admitted
    <2> QED BY <2>1 DEF Covered
  <1> QED BY <1>3, <1>4, <1>5 DEF GateInv, Init

\* Every step of a request.
LEMMA RequestStepKeeps ==
    ASSUME GateInv, NEW r \in Requests, RequestStep(r) PROVE GateInv'
  <1>1. CASE Admit(r)
    BY <1>1, AdmissionKeeps DEF Admit, At, Quiet, chargeVars
  <1>2. CASE AdmitFunded(r)
    BY <1>2, AdmissionKeeps DEF AdmitFunded, At, Quiet, chargeVars
  <1> QED BY <1>1, <1>2, RefusedKeeps, SkipGateKeeps, ReadDebtKeeps, ReadBalanceKeeps, JudgeKeeps,
             AskBrokerKeeps, ReadBalanceAgainKeeps, TurnDownKeeps, ChecksKeep, ForwardKeeps,
             ChargeKeeps, ChargeFailsKeeps, HookReleaseKeeps DEF RequestStep

\* Every step.
LEMMA GateStep == GateInv /\ [Next]_vars => GateInv'
  <1> SUFFICES ASSUME GateInv, [Next]_vars PROVE GateInv'
    OBVIOUS
  <1>1. CASE Next
    BY <1>1, RequestStepKeeps, ExpireKeeps, BillingKeeps, CloseSessionKeeps, MoneyKeeps, LandKeeps,
       CrashKeeps DEF Next
  <1>2. CASE UNCHANGED vars
    <2>1. UNCHANGED <<balance, queue, flight, held, reserved, session, req, excuses, overdrawn>>
      BY <1>2 DEF vars, chargeVars
    <2>2. GateTypes' /\ (Counted => Counted')
      BY <2>1, SameRequests DEF GateInv, GateTypes
    <2>3. Covered => Covered'
      BY <2>1 DEF Covered, AsksInFull, PassedBy, Judged, Between, Seen, Backed, Taken, Owed, Gated, Admitted, At, Shortfall
    <2> QED BY <2>1, <2>2, <2>3 DEF GateInv
  <1> QED BY <1>1, <1>2

\* A request is let in beyond what the balance covers only for a named reason, and the counter is
\* the sum of what the requests reserved, for any numbers of creates and starts, costs and balances:
\* whoever reserves last sees the costs of all the others (Reserve, handleCreate, handleStart).
THEOREM GateIsKept == ProxySpec => []GateHolds
  <1>1. ProxyInit => GateInv
    BY GateInitially DEF ProxyInit
  <1>2. GateInv /\ [ProxyNext]_proxyVars => GateInv'
    BY OnePartMoves, GateStep
  <1>3. GateInv => GateHolds
    <2>1. DOMAIN Holds = Requests
      BY DEF Holds
    <2> QED BY <2>1 DEF GateInv, GateHolds, NeverOverdrawnUnexcused, CounterIsSum, Counted,
                        SumFunction, FoldFunction, SumFunctionOnSet, Holds
  <1> QED BY <1>1, <1>2, <1>3, PTL DEF ProxySpec

-----------------------------------------------------------------------------
(* Signed requests (RequestAuth). *)

\* The tick at which a message expires.
Deadline(m) == m.expires * Unit

AuthTypes ==
    /\ clock \in Nat /\ strict \in [Providers -> BOOLEAN]
    /\ signed = [n \in Nonces |-> signed[n]] /\ handling = [h \in Handlers |-> handling[h]]
    /\ nonceKey \in [Providers -> [Nonces -> Nat]] /\ accepted \in [Providers -> [Nonces -> Nat]]
    /\ straddled \subseteq Nonces
    /\ \A n \in Nonces : signed[n] # None => signed[n].expires \in Nat

\* A request past its checks: its message is bound to this provider, and in time
\* unless the clock passed its end since.
IsHandled(k) ==
    /\ k.nonce \in Nonces /\ k.at \in Providers /\ k.now \in Nat
    /\ signed[k.nonce] # None /\ Auth!BoundTo(signed[k.nonce], k.at)
    /\ k.now * Unit <= clock /\ k.now < signed[k.nonce].expires
    /\ k.nonce \in straddled \/ clock < Deadline(signed[k.nonce])

\* A message that was let through: its key lives until its deadline at least.
IsAccepted(p, n) ==
    /\ signed[n] # None /\ Auth!BoundTo(signed[n], p)
    /\ nonceKey[p][n] >= Deadline(signed[n])

AuthInv ==
    /\ AuthTypes
    /\ \A h \in Handlers : handling[h] # None => IsHandled(handling[h])
    /\ \A p \in Providers, n \in Nonces : accepted[p][n] > 0 => IsAccepted(p, n)
    /\ Auth!OncePerProvider

\* Whole seconds: a reading of the clock is not ahead of it, and a message that is
\* in time by the reading is in time.
LEMMA WholeSeconds ==
    ASSUME NEW t \in Nat, NEW unit \in Nat \ {0}, NEW e \in Nat
    PROVE  /\ t \div unit \in Nat /\ (t \div unit) * unit <= t
           /\ t \div unit < e => t < e * unit
  <1> DEFINE q == t \div unit
  <1>1. q \in Nat /\ q * unit <= t /\ t < (q + 1) * unit
    OBVIOUS
  <1> HIDE DEF q
  <1>2. q < e => (q + 1) * unit <= e * unit
    BY <1>1
  <1>3. (q + 1) * unit \in Nat /\ e * unit \in Nat
    BY <1>1
  <1>4. q < e => t < e * unit
    BY <1>1, <1>2, <1>3
  <1> QED BY <1>1, <1>4 DEF q

\* A key that is set for the rest of the message's life, as an older reading has
\* it, outlives the message.
LEMMA KeyOutlives ==
    ASSUME NEW t \in Nat, NEW unit \in Nat \ {0}, NEW e \in Nat, NEW now \in Nat,
           now < e, now * unit <= t
    PROVE  t + (e - now) * unit \in Nat /\ t + (e - now) * unit >= e * unit
  <1>1. PICK d \in Nat : e = now + d
    <2>1. e - now \in Nat /\ e = now + (e - now)
      OBVIOUS
    <2> QED BY <2>1
  <1>2. e - now = d
    BY <1>1
  <1>3. e * unit = now * unit + d * unit /\ d * unit \in Nat /\ now * unit \in Nat
    BY <1>1
  <1> QED BY <1>2, <1>3

\* The invariant of the signed requests is kept by every step of the clock, the
\* clients, the handlers and the nonce store.
LEMMA AuthKept ==
    ASSUME Unit \in Nat \ {0}, SignedFor \in Nat, AuthInv, [Auth!Next]_Auth!vars
    PROVE  AuthInv'
  <1>a. AuthTypes /\ Auth!OncePerProvider
    BY DEF AuthInv
  <1>b. \A n \in Nonces : signed[n] # None => signed[n].expires \in Nat /\ Deadline(signed[n]) \in Nat
    BY <1>a DEF AuthTypes, Deadline
  <1>1. CASE Auth!Tick
    <2>1. /\ clock' = clock + 1 /\ UNCHANGED <<strict, address, signed, handling, nonceKey, accepted>>
          /\ straddled \subseteq straddled' /\ straddled' \subseteq straddled \cup Nonces
          /\ \A h \in Handlers : handling[h] # None /\ handling[h].nonce \in Nonces
                /\ clock + 1 >= Deadline(signed[handling[h].nonce]) => handling[h].nonce \in straddled'
      BY <1>1 DEF Auth!Tick, Deadline
    <2>2. AuthTypes'
      BY <1>a, <2>1 DEF AuthTypes
    <2>3. ASSUME NEW h \in Handlers, handling[h] # None PROVE IsHandled(handling[h])'
      <3>1. IsHandled(handling[h])
        BY <2>3 DEF AuthInv
      <3>2. handling[h].now * Unit \in Nat
        BY <3>1 DEF IsHandled
      <3> QED BY <1>a, <1>b, <2>1, <2>3, <3>1, <3>2 DEF IsHandled, Deadline, AuthTypes, Auth!BoundTo
    <2> QED BY <1>a, <2>1, <2>2, <2>3 DEF AuthInv, IsAccepted, Deadline, Auth!BoundTo, Auth!OncePerProvider
  <1>2. ASSUME NEW p \in Providers, Auth!ProviderAddressFor(p) PROVE AuthInv'
    BY <1>2 DEF Auth!ProviderAddressFor, AuthInv, AuthTypes, IsHandled, IsAccepted, Deadline, Auth!BoundTo, Auth!OncePerProvider
  <1>3. ASSUME NEW n \in Nonces, NEW p \in Providers, NEW r, Auth!SignRequest(n, p, r) PROVE AuthInv'
    <2> DEFINE m == [provider |-> IF address[p] = "known" THEN p ELSE None,
                     resource |-> r, expires |-> Auth!Now + SignedFor]
    <2>1. m.expires \in Nat
      BY <1>a, WholeSeconds DEF AuthTypes, Auth!Now
    <2>2. /\ signed[n] = None /\ signed' = [signed EXCEPT ![n] = m]
          /\ UNCHANGED <<clock, strict, handling, nonceKey, accepted, straddled>>
      BY <1>3 DEF Auth!SignRequest
    <2> HIDE DEF m
    <2>3. \A k \in Nonces : signed[k] # None => signed'[k] = signed[k]
      BY <1>a, <2>2 DEF AuthTypes
    <2>4. AuthTypes'
      BY <1>a, <2>1, <2>2 DEF AuthTypes
    <2> QED BY <1>a, <2>2, <2>3, <2>4 DEF AuthInv, IsHandled, IsAccepted, Deadline, Auth!BoundTo, Auth!OncePerProvider
  <1>4. ASSUME NEW h \in Handlers, NEW n \in Nonces, NEW p \in Providers, NEW r, Auth!Receive(h, n, p, r) PROVE AuthInv'
    <2> DEFINE k == [nonce |-> n, at |-> p, now |-> Auth!Now]
    <2>1. /\ signed[n] # None /\ Auth!InTime(signed[n]) /\ Auth!BoundTo(signed[n], p)
          /\ handling' = [handling EXCEPT ![h] = k]
          /\ UNCHANGED <<clock, strict, signed, nonceKey, accepted, straddled>>
      BY <1>4 DEF Auth!Receive
    <2>2. IsHandled(k)
      BY <1>a, <1>b, <2>1, WholeSeconds DEF IsHandled, AuthTypes, Auth!InTime, Auth!Now, Deadline
    <2> HIDE DEF k
    <2>3. \A g \in Handlers : handling'[g] # None => IsHandled(handling'[g])
      BY <1>a, <2>1, <2>2 DEF AuthInv, AuthTypes
    <2> QED BY <1>a, <2>1, <2>3 DEF AuthInv, AuthTypes, IsHandled, IsAccepted, Deadline, Auth!BoundTo, Auth!OncePerProvider
  <1>5. ASSUME NEW h \in Handlers, handling' = [handling EXCEPT ![h] = None],
               UNCHANGED <<clock, strict, signed, nonceKey, accepted, straddled>>
        PROVE  AuthInv'
    BY <1>5 DEF AuthInv, AuthTypes, IsHandled, IsAccepted, Deadline, Auth!BoundTo, Auth!OncePerProvider
  <1>6. ASSUME NEW h \in Handlers, Auth!NonceUnavailable(h) PROVE AuthInv'
    BY <1>5, <1>6 DEF Auth!NonceUnavailable
  <1>7. ASSUME NEW h \in Handlers, Auth!SetNonce(h) PROVE AuthInv'
    <2> DEFINE p == handling[h].at
               n == handling[h].nonce
               m == signed[n]
               key == clock + (m.expires - handling[h].now) * Unit
    <2>1. handling[h] # None /\ IsHandled(handling[h])
      BY <1>7 DEF Auth!SetNonce, AuthInv
    <2>2. CASE Auth!Live(p, n)
      BY <1>5, <1>7, <2>2 DEF Auth!SetNonce
    <2>3. CASE ~Auth!Live(p, n)
      <3>1. /\ handling' = [handling EXCEPT ![h] = None]
            /\ nonceKey' = [nonceKey EXCEPT ![p][n] = key]
            /\ accepted' = [accepted EXCEPT ![p][n] = @ + 1]
            /\ UNCHANGED <<clock, strict, signed, straddled>>
        BY <1>7, <2>3 DEF Auth!SetNonce
      <3>2. p \in Providers /\ n \in Nonces /\ m # None /\ Auth!BoundTo(m, p) /\ clock \in Nat
            /\ m.expires \in Nat /\ handling[h].now \in Nat
        BY <1>a, <2>1 DEF IsHandled, AuthTypes
      <3>3. key \in Nat /\ key >= Deadline(m)
        BY <2>1, <3>2, KeyOutlives DEF IsHandled, Deadline
      <3>4. n \in straddled \/ accepted[p][n] = 0
        <4>1. SUFFICES ASSUME n \notin straddled, accepted[p][n] > 0 PROVE FALSE
          BY <1>a, <3>2 DEF AuthTypes
        <4>2. nonceKey[p][n] >= Deadline(m) /\ clock < Deadline(m) /\ nonceKey[p][n] \in Nat /\ Deadline(m) \in Nat
          BY <1>a, <1>b, <2>1, <3>2, <4>1 DEF AuthInv, AuthTypes, IsAccepted, IsHandled
        <4> QED BY <2>3, <3>2, <4>2 DEF Auth!Live
      <3> HIDE DEF key, p, n, m
      <3>5. AuthTypes'
        <4>1. nonceKey' \in [Providers -> [Nonces -> Nat]] /\ accepted' \in [Providers -> [Nonces -> Nat]]
          BY <1>a, <3>1, <3>2, <3>3 DEF AuthTypes
        <4> QED BY <1>a, <3>1, <4>1 DEF AuthTypes
      <3>6. \A g \in Handlers : handling'[g] # None => IsHandled(handling[g])'
        BY <1>a, <3>1 DEF AuthInv, AuthTypes, IsHandled, Deadline, Auth!BoundTo
      <3>7. ASSUME NEW q \in Providers, NEW k \in Nonces, accepted'[q][k] > 0 PROVE IsAccepted(q, k)'
        <4>1. CASE q = p /\ k = n
          BY <1>a, <3>1, <3>2, <3>3, <4>1 DEF AuthTypes, IsAccepted, Deadline, Auth!BoundTo, m
        <4>2. CASE ~(q = p /\ k = n)
          <5>1. accepted'[q][k] = accepted[q][k] /\ nonceKey'[q][k] = nonceKey[q][k]
            BY <1>a, <3>1, <3>2, <4>2 DEF AuthTypes
          <5> QED BY <3>1, <3>7, <5>1 DEF AuthInv, IsAccepted, Deadline, Auth!BoundTo
        <4> QED BY <4>1, <4>2
      <3>8. Auth!OncePerProvider'
        BY <1>a, <3>1, <3>2, <3>4 DEF AuthTypes, Auth!OncePerProvider
      <3> QED BY <3>5, <3>6, <3>7, <3>8 DEF AuthInv
    <2> QED BY <2>2, <2>3
  <1>8. CASE UNCHANGED Auth!vars
    BY <1>8 DEF Auth!vars, AuthInv, AuthTypes, IsHandled, IsAccepted, Deadline, Auth!BoundTo, Auth!OncePerProvider
  <1> QED BY <1>1, <1>2, <1>3, <1>4, <1>6, <1>7, <1>8 DEF Auth!Next

\* A signed request is taken at most once by a provider, unless the clock passed its
\* end while it was being handled, and by one provider if it names one: the key of
\* its nonce is set with a life that reaches the message's own end (SetNonce).
THEOREM RequestsSignedOnce == ProxySpec => []SignedOnce
  <1>1. ProxyInit => AuthInv
    BY DEF ProxyInit, Auth!Init, AuthInv, AuthTypes, Auth!OncePerProvider
  <1>2. AuthInv /\ [ProxyNext]_proxyVars => AuthInv'
    BY OnePartMoves, AuthKept, TimesAssumption
  <1>3. AuthInv => SignedOnce
    BY DEF SignedOnce, AuthInv, AuthTypes, IsAccepted, Auth!BoundTo, Auth!SignedOnce, Auth!OnceAnywhere
  <1> QED BY <1>1, <1>2, <1>3, PTL DEF ProxySpec

-----------------------------------------------------------------------------
(* Images, snapshots and sealed creates (Images). *)

\* Nobody is no importer, no digest and no record.
ImageAssumptions == MaxIds \in Nat /\ None \notin Importers /\ None \notin Digests /\ None \notin Image!Ids

\* An import holds the lock, and one that is about to copy found nothing promised.
IsImport(i) ==
    \/ imports[i] = Image!NoImport
    \/ /\ DOMAIN imports[i] = {"pc", "tag"} /\ imports[i].pc \in {"head", "copy"} /\ imports[i].tag \in Tags
       /\ copyMu = i
       /\ imports[i].pc = "copy" => imports[i].tag \in caught \/ promised[imports[i].tag] = {}

ImportInv ==
    /\ tags \in [Tags -> Digests \cup {None}] /\ promised \in [Tags -> SUBSET Digests]
    /\ imports = [i \in Importers |-> imports[i]] /\ \A i \in Importers : IsImport(i)
    /\ Image!ImportHolds

\* Every step keeps the lock and what imports were answered with.
LEMMA ImportsKept ==
    ASSUME ImageAssumptions, ImportInv, [Image!Next]_Image!vars
    PROVE  ImportInv'
  <1> USE DEF ImageAssumptions, ImportInv, IsImport, Image!ImportHolds, Image!registry, Image!importing, Image!records
  <1>0. Image!NoImport.pc = "idle" /\ DOMAIN Image!NoImport = {"pc", "tag"}
    BY DEF Image!NoImport
  <1>1. ASSUME NEW i \in Importers, NEW t \in Tags, Image!Import(i, t) PROVE ImportInv'
    BY <1>1, <1>0 DEF Image!Import, Image!Lock
  <1>2. ASSUME NEW i \in Importers, Image!HeadFindsNothing(i) PROVE ImportInv'
    BY <1>2, <1>0 DEF Image!HeadFindsNothing
  <1>3. ASSUME NEW i \in Importers, Image!ImportFails(i) PROVE ImportInv'
    BY <1>3, <1>0 DEF Image!ImportFails, Image!ImportEnds
  <1>4. ASSUME NEW i \in Importers, NEW d \in Digests, Image!HeadFinds(i, d) PROVE ImportInv'
    BY <1>4, <1>0 DEF Image!HeadFinds, Image!ImportEnds, Image!Promise
  <1>5. ASSUME NEW i \in Importers, NEW d \in Digests, Image!Copy(i, d) PROVE ImportInv'
    BY <1>5, <1>0 DEF Image!Copy, Image!ImportEnds, Image!Promise
  <1>6. ASSUME NEW t \in Tags, NEW d \in Digests, Image!Push(t, d) PROVE ImportInv'
    BY <1>6, <1>0 DEF Image!Push
  <1>7. ASSUME NEW c \in Image!Cleaners, Image!DropManifest(c) PROVE ImportInv'
    BY <1>7, <1>0 DEF Image!DropManifest
  <1>8. CASE UNCHANGED <<tags, promised, caught, imports, copyMu>>
    BY <1>8 DEF ImportInv
  <1> QED BY <1>1, <1>2, <1>3, <1>4, <1>5, <1>6, <1>7, <1>8 DEF Image!Next, Image!vars, Image!registry, Image!importing, Image!records,
             Image!CheckSnapshotRunsImage, Image!Clean, Image!CleanFails, Image!CleanUp, Image!CollectGarbage, Image!CreateFails, Image!CreateSealed, Image!DeleteSnapshot, Image!Exposes, Image!GcEnds, Image!GcNext, Image!GetDigest, Image!ImageHash, Image!ListInUse, Image!ListOthers, Image!MakeRunnerImage, Image!PlantTag, Image!ProbeSiblings, Image!Record, Image!RemoveRecord, Image!ResolveSnapshot, Image!ResolveTag, Image!Seal, Image!SealFails, Image!StartSealed

\* Records keep what they say, and their numbers are not used again.
IsSnap(s) == DOMAIN s = {"name", "image", "plain", "ref"} /\ s.image \in Digests

IsCreating(k) ==
    /\ DOMAIN k = {"pc", "name", "tag", "digest", "exposed"}
    /\ k.pc \in {"idle", "tag", "forward"} /\ k.exposed \in BOOLEAN
    /\ k.pc # "idle" => k.tag \in Tags /\ k.digest \in Digests

SnapInv ==
    /\ snaps = [i \in Image!Ids |-> snaps[i]] /\ nextId \in Nat /\ nextId > 0
    /\ \A i \in Image!Ids : snaps[i] # None => IsSnap(snaps[i]) /\ i < nextId
    /\ IsCreating(creating)

\* Every step keeps the records.
LEMMA SnapsKept ==
    ASSUME ImageAssumptions, ImportInv, SnapInv, [Image!Next]_Image!vars
    PROVE  SnapInv'
  <1> USE DEF ImageAssumptions, SnapInv, Image!registry, Image!importing, Image!records
  <1>0. IsCreating(Image!NoCreate)
    BY DEF IsCreating, Image!NoCreate
  <1>1. ASSUME NEW t \in Tags, NEW n \in Names, Image!GetDigest(n, t) PROVE SnapInv'
    BY <1>1 DEF Image!GetDigest, ImportInv, IsCreating
  <1>2. CASE Image!PlantTag
    <2>1. IsCreating([creating EXCEPT !.pc = "forward", !.exposed = Image!Sweeping])
      BY <1>2 DEF Image!PlantTag, IsCreating, Image!Sweeping
    <2> QED BY <1>2, <2>1 DEF Image!PlantTag
  <1>3. CASE Image!CreateFails
    BY <1>3, <1>0 DEF Image!CreateFails
  <1>4. ASSUME NEW plain \in BOOLEAN, Image!Record(plain) PROVE SnapInv'
    <2> DEFINE s == [name |-> creating.name, image |-> creating.digest, plain |-> plain, ref |-> None]
    <2>1. IsSnap(s)
      BY <1>4 DEF IsSnap, Image!Record, IsCreating
    <2>2. snaps' = [snaps EXCEPT ![nextId] = s] /\ nextId' = nextId + 1 /\ creating' = Image!NoCreate
      BY <1>4 DEF Image!Record
    <2> HIDE DEF s
    <2>3. \A i \in Image!Ids : i \in Nat
      BY DEF Image!Ids
    <2> QED BY <1>0, <2>1, <2>2, <2>3
  <1>5. ASSUME NEW i \in Image!Ids, Image!MakeRunnerImage(i) PROVE SnapInv'
    <2> DEFINE s == [snaps[i] EXCEPT !.ref = derived[snaps[i].image]]
    <2>1. snaps[i] # None /\ IsSnap(s)
      BY <1>5 DEF IsSnap, Image!MakeRunnerImage, Image!Records
    <2>2. snaps' = [snaps EXCEPT ![i] = s] /\ UNCHANGED <<nextId, creating>>
      BY <1>5 DEF Image!MakeRunnerImage
    <2> HIDE DEF s
    <2> QED BY <2>1, <2>2
  <1>6. CASE Image!RemoveRecord
    BY <1>6 DEF Image!RemoveRecord
  <1>7. CASE Image!ListOthers
    <2>1. IsCreating(creating')
      BY <1>7 DEF Image!ListOthers, Image!Exposes, IsCreating
    <2> QED BY <1>7, <2>1 DEF Image!ListOthers
  <1>8. CASE Image!ListInUse
    <2>1. IsCreating(creating')
      BY <1>8 DEF Image!ListInUse, Image!Exposes, IsCreating
    <2> QED BY <1>8, <2>1 DEF Image!ListInUse
  <1>9. CASE UNCHANGED <<snaps, nextId, creating>>
    BY <1>9 DEF SnapInv
  <1> QED BY <1>1, <1>2, <1>3, <1>4, <1>5, <1>6, <1>7, <1>8, <1>9 DEF Image!Next, Image!vars, Image!registry, Image!importing, Image!records,
             Image!CheckSnapshotRunsImage, Image!Clean, Image!CleanFails, Image!CleanUp, Image!CollectGarbage, Image!Copy, Image!CreateSealed, Image!DeleteSnapshot, Image!DropManifest, Image!GcEnds, Image!GcNext, Image!HeadFinds, Image!HeadFindsNothing, Image!ImageHash, Image!Import, Image!ImportEnds, Image!ImportFails, Image!Lock, Image!ProbeSiblings, Image!Push, Image!ResolveSnapshot, Image!ResolveTag, Image!Seal, Image!SealFails, Image!StartSealed

\* A sealed create runs the record it resolved, or none: the record's runner image,
\* once made, is not replaced.
IsSealing ==
    /\ DOMAIN sealing = {"pc", "name", "billed", "id", "image", "ref", "hash"}
    /\ sealing.pc \in {"idle", "resolve", "digest", "compare", "forward"}
    /\ sealing.pc \in {"digest", "compare", "forward"} =>
          /\ sealing.id \in Image!Ids /\ sealing.id < nextId
          /\ snaps[sealing.id] = None \/ sealing.ref = None \/ snaps[sealing.id].ref = sealing.ref
    /\ sealing.pc = "forward" => sealing.ref # None /\ sealing.ref = sealing.hash

SealInv == IsSealing /\ Image!RunsWhatIsCertified

\* Every step keeps what a sealed create has resolved and what was started.
LEMMA SealsKept ==
    ASSUME ImageAssumptions, SnapInv, SealInv, [Image!Next]_Image!vars
    PROVE  SealInv'
  <1> USE DEF ImageAssumptions, SealInv, IsSealing, Image!RunsWhatIsCertified, Image!registry, Image!importing, Image!records
  <1>0. Image!NoSeal.pc = "idle" /\ DOMAIN Image!NoSeal = {"pc", "name", "billed", "id", "image", "ref", "hash"}
    BY DEF Image!NoSeal
  <1>1. ASSUME NEW plain \in BOOLEAN, Image!Record(plain) PROVE SealInv'
    <2>1. \A i \in Image!Ids : i \in Nat
      BY DEF Image!Ids
    <2>2. nextId \in Nat /\ nextId' = nextId + 1 /\ UNCHANGED <<sealing, started>>
          /\ \A i \in Image!Ids : i < nextId => snaps'[i] = snaps[i]
      BY <1>1, <2>1 DEF Image!Record, SnapInv
    <2> QED BY <2>1, <2>2
  <1>2. ASSUME NEW i \in Image!Ids, Image!MakeRunnerImage(i) PROVE SealInv'
    BY <1>2 DEF Image!MakeRunnerImage, Image!Records, SnapInv, IsSnap
  <1>3. ASSUME NEW i \in Image!Ids, NEW n \in Names, Image!CreateSealed(n, i) PROVE SealInv'
    BY <1>3, <1>0 DEF Image!CreateSealed
  <1>4. CASE Image!RemoveRecord
    BY <1>4 DEF Image!RemoveRecord, SnapInv
  <1>5. CASE Image!ResolveSnapshot
    <2>1. CASE Image!Named(sealing.name) = {sealing.billed} /\ snaps[sealing.billed].plain
      <3>1. sealing.billed \in Image!Ids /\ snaps[sealing.billed] # None
        BY <2>1 DEF Image!Named, Image!Records
      <3> QED BY <1>5, <2>1, <3>1 DEF Image!ResolveSnapshot, Image!Seal, SnapInv
    <2>2. CASE ~(Image!Named(sealing.name) = {sealing.billed} /\ snaps[sealing.billed].plain)
      BY <1>5, <1>0, <2>2 DEF Image!ResolveSnapshot, Image!Seal
    <2> QED BY <2>1, <2>2
  <1>6. CASE Image!ImageHash
    BY <1>6, <1>0 DEF Image!ImageHash, Image!Seal
  <1>7. CASE Image!CheckSnapshotRunsImage
    BY <1>7, <1>0 DEF Image!CheckSnapshotRunsImage, Image!Seal, Image!RunsImage
  <1>8. CASE Image!StartSealed
    BY <1>8, <1>0 DEF Image!StartSealed, Image!Forwarded, Image!Records
  <1>9. CASE Image!SealFails
    BY <1>9, <1>0 DEF Image!SealFails, Image!Seal
  <1>10. CASE UNCHANGED <<snaps, nextId, sealing, started>>
    BY <1>10 DEF SealInv
  <1> QED BY <1>1, <1>2, <1>3, <1>4, <1>5, <1>6, <1>7, <1>8, <1>9, <1>10 DEF Image!Next, Image!vars, Image!registry, Image!importing, Image!records,
             Image!Clean, Image!CleanFails, Image!CleanUp, Image!CollectGarbage, Image!Copy, Image!CreateFails, Image!DeleteSnapshot, Image!DropManifest, Image!Exposes, Image!GcEnds, Image!GcNext, Image!GetDigest, Image!HeadFinds, Image!HeadFindsNothing, Image!Import, Image!ImportEnds, Image!ImportFails, Image!ListInUse, Image!ListOthers, Image!Lock, Image!PlantTag, Image!ProbeSiblings, Image!Push, Image!ResolveTag

\* Nobody relies on the tag of x any more but snapshots that are excepted.
Abandoned(x) ==
    /\ Image!Using(x) \subseteq exposed
    /\ creating.pc = "forward" /\ creating.digest = x => creating.exposed

Sweeps == {"deleting", "resolve", "probe", "drop"}

\* A clean-up deletes what was abandoned when it listed the snapshots, and a
\* manifest it is about to delete is held only by tags that are abandoned.
IsCleaning(c) ==
    LET me == cleaning[c] IN
    /\ DOMAIN me = {"pc", "id", "image", "candidates", "digest"}
    /\ me.pc \in {"idle", "remove", "snapshots"} \cup Sweeps
    /\ me.candidates \subseteq Digests
    /\ me.pc \in Sweeps => \A x \in me.candidates : Abandoned(x)
    /\ me.pc \in {"resolve", "probe", "drop"} => me.image \in me.candidates
    /\ me.pc \in {"probe", "drop"} => me.digest # None
    /\ me.pc = "drop" => \A y \in Digests : derived[y] = me.digest => Abandoned(y)

\* The record a deletion is about is gone once Daytona has answered.
DeletionIsOfOne ==
    LET me == cleaning["delete"] IN
    /\ me.pc \in {"remove", "snapshots"} => me.id \in Image!Ids /\ me.id < nextId
    /\ me.pc = "remove" => me.image \in Digests \cup {None}
    /\ me.pc = "snapshots" => snaps[me.id] = None /\ me.image \in Digests

\* A tag that is planted for a snapshot to come is there when it comes.
PlantedStays == creating.pc = "forward" /\ ~creating.exposed => derived[creating.digest] # None

TagInv ==
    /\ derived \in [Digests -> Digests \cup {None}]
    /\ cleaning = [c \in Image!Cleaners |-> cleaning[c]]
    /\ \A c \in Image!Cleaners : IsCleaning(c)
    /\ DeletionIsOfOne /\ PlantedStays /\ Image!LiveSnapshotKeepsTag

\* What a step that a clean-up may see has to leave: what is abandoned stays so, and
\* a tag that comes to hold a manifest is abandoned.
StaysAbandoned ==
    /\ \A x \in Digests : Abandoned(x) => Abandoned(x)'
    /\ \A y \in Digests : derived'[y] = derived[y] \/ derived'[y] = None \/ Abandoned(y)'

\* Clean-ups that do not move themselves.
LEMMA CleanersKept ==
    ASSUME TagInv, NEW D \in SUBSET Image!Cleaners, \A c \in D : cleaning'[c] = cleaning[c],
           Image!Sweeping => StaysAbandoned
    PROVE  \A c \in D : IsCleaning(c)'
  <1> SUFFICES ASSUME NEW c \in D PROVE IsCleaning(c)'
    OBVIOUS
  <1>1. IsCleaning(c) /\ cleaning'[c] = cleaning[c] /\ c \in Image!Cleaners
    BY DEF TagInv
  <1>2. CASE cleaning[c].pc \notin Sweeps
    BY <1>1, <1>2 DEF IsCleaning, Sweeps
  <1>3. CASE cleaning[c].pc \in Sweeps
    <2>1. StaysAbandoned
      BY <1>1, <1>3 DEF Sweeps, Image!Sweeping
    <2>2. cleaning[c].candidates \subseteq Digests
      BY <1>1, <1>3 DEF IsCleaning
    <2>3. \A x \in cleaning[c].candidates : Abandoned(x)'
      BY <1>1, <1>3, <2>1, <2>2 DEF IsCleaning, StaysAbandoned
    <2>4. cleaning[c].pc = "drop" => \A y \in Digests : derived'[y] = cleaning[c].digest => Abandoned(y)'
      BY <1>1, <2>1 DEF IsCleaning, StaysAbandoned
    <2> QED BY <1>1, <2>3, <2>4 DEF IsCleaning
  <1> QED BY <1>2, <1>3

\* One clean-up moves and everything it looks at stays.
LEMMA CleanerMoves ==
    ASSUME TagInv, NEW c \in Image!Cleaners, NEW next, cleaning' = [cleaning EXCEPT ![c] = next],
           UNCHANGED <<derived, snaps, nextId, creating, exposed>>, IsCleaning(c)', DeletionIsOfOne'
    PROVE  TagInv'
  <1>1. StaysAbandoned
    BY DEF StaysAbandoned, Abandoned, Image!Using, Image!Records
  <1>2. \A d \in Image!Cleaners \ {c} : IsCleaning(d)'
    <2>1. \A d \in Image!Cleaners \ {c} : cleaning'[d] = cleaning[d]
      BY DEF TagInv
    <2> QED BY <1>1, <2>1, CleanersKept
  <1>3. cleaning' = [d \in Image!Cleaners |-> cleaning'[d]]
    BY DEF TagInv
  <1> QED BY <1>2, <1>3 DEF TagInv, PlantedStays, Image!LiveSnapshotKeepsTag, Image!Records

\* A clean-up is done with a tag.
LEMMA DoneCleaning ==
    ASSUME TagInv, NEW c \in Image!Cleaners, cleaning[c].pc \in {"resolve", "probe", "drop"},
           cleaning' = [cleaning EXCEPT ![c] = Image!Done(c)], UNCHANGED <<snaps, nextId, creating, exposed>>
    PROVE  IsCleaning(c)' /\ DeletionIsOfOne'
  <1>1. IsCleaning(c) /\ cleaning'[c] = Image!Done(c) /\ DeletionIsOfOne
    BY DEF TagInv
  <1>2. \A x : Abandoned(x)' = Abandoned(x)
    BY DEF Abandoned, Image!Using, Image!Records
  <1>3. CASE c = "gc"
    <2> DEFINE me == [cleaning[c] EXCEPT !.pc = "deleting", !.candidates = @ \ {cleaning[c].image},
                                         !.image = None, !.digest = None]
    <2>1. me.pc = "deleting" /\ me.candidates \subseteq cleaning[c].candidates
          /\ DOMAIN me = {"pc", "id", "image", "candidates", "digest"}
      BY <1>1 DEF IsCleaning
    <2>2. cleaning'[c] = me /\ cleaning'["delete"] = cleaning["delete"]
      BY <1>1, <1>3 DEF Image!Done, TagInv, Image!Cleaners
    <2> HIDE DEF me
    <2>3. IsCleaning(c)'
      BY <1>1, <1>2, <2>1, <2>2 DEF IsCleaning, Sweeps
    <2> QED BY <1>1, <2>2, <2>3 DEF DeletionIsOfOne
  <1>4. CASE c # "gc"
    BY <1>1, <1>4 DEF Image!Done, Image!NoClean, IsCleaning, Sweeps, DeletionIsOfOne, Image!Cleaners
  <1> QED BY <1>3, <1>4

\* Listing the snapshots excepts the one whose record is yet to be made.
LEMMA Listing ==
    ASSUME SnapInv, TagInv, Image!Exposes, UNCHANGED <<derived, snaps, nextId, exposed>>
    PROVE  /\ StaysAbandoned /\ PlantedStays' /\ Image!LiveSnapshotKeepsTag'
           /\ \A x \in Digests : Image!Using(x) = {} => Abandoned(x)'
  <1>1. /\ creating'.pc = creating.pc /\ creating'.digest = creating.digest
        /\ creating.pc = "forward" => creating'.exposed
        /\ creating.exposed => creating'.exposed
    BY DEF Image!Exposes, SnapInv, IsCreating
  <1>2. \A x \in Digests : Abandoned(x) => Abandoned(x)'
    BY <1>1 DEF Abandoned, Image!Using, Image!Records
  <1>3. \A x \in Digests : Image!Using(x) = {} => Abandoned(x)'
    BY <1>1 DEF Abandoned, Image!Using, Image!Records
  <1>4. PlantedStays' /\ Image!LiveSnapshotKeepsTag'
    BY <1>1 DEF TagInv, PlantedStays, Image!LiveSnapshotKeepsTag, Image!Records
  <1> QED BY <1>2, <1>3, <1>4 DEF StaysAbandoned

\* A step of the registrations: no clean-up moves.
LEMMA RegistrationMoves ==
    ASSUME TagInv, UNCHANGED cleaning, Image!Sweeping => StaysAbandoned,
           derived' \in [Digests -> Digests \cup {None}],
           DeletionIsOfOne', PlantedStays', Image!LiveSnapshotKeepsTag'
    PROVE  TagInv'
  <1>1. \A c \in Image!Cleaners : IsCleaning(c)'
    BY CleanersKept
  <1> QED BY <1>1 DEF TagInv

\* Every step keeps the tags that snapshots rely on.
LEMMA TagsKept ==
    ASSUME ImageAssumptions, ImportInv, SnapInv, TagInv, [Image!Next]_Image!vars
    PROVE  TagInv'
  <1> USE DEF Image!registry, Image!importing, Image!records
  <1>a. /\ derived \in [Digests -> Digests \cup {None}] /\ cleaning = [c \in Image!Cleaners |-> cleaning[c]]
        /\ \A c \in Image!Cleaners : IsCleaning(c)
        /\ DeletionIsOfOne /\ PlantedStays /\ Image!LiveSnapshotKeepsTag
    BY DEF TagInv
  <1>b. "delete" \in Image!Cleaners /\ "gc" \in Image!Cleaners
    BY DEF Image!Cleaners
  <1>c. /\ snaps = [i \in Image!Ids |-> snaps[i]] /\ IsCreating(creating) /\ nextId \in Nat
        /\ \A i \in Image!Ids : i \in Nat /\ (snaps[i] # None => IsSnap(snaps[i]) /\ i < nextId)
    BY DEF SnapInv, Image!Ids, ImageAssumptions
  <1>d. \A i \in Image!Ids : i # None
    BY DEF ImageAssumptions
  <1>1. ASSUME NEW t \in Tags, NEW n \in Names, Image!GetDigest(n, t) PROVE TagInv'
    <2>1. creating'.pc = "tag" /\ UNCHANGED <<derived, snaps, nextId, exposed, cleaning>>
      BY <1>1 DEF Image!GetDigest
    <2>2. StaysAbandoned
      BY <2>1 DEF StaysAbandoned, Abandoned, Image!Using, Image!Records
    <2> QED BY <1>a, <2>1, <2>2, RegistrationMoves DEF DeletionIsOfOne, PlantedStays, Image!LiveSnapshotKeepsTag, Image!Records
  <1>2. CASE Image!PlantTag
    <2>1. /\ creating.digest \in Digests /\ tags[creating.tag] \in Digests
          /\ derived' = [derived EXCEPT ![creating.digest] = tags[creating.tag]]
          /\ UNCHANGED <<snaps, nextId, cleaning>>
      BY <1>2, <1>c DEF Image!PlantTag, IsCreating, ImportInv
    <2>2. /\ creating'.digest = creating.digest /\ creating'.exposed = Image!Sweeping
          /\ exposed' = IF Image!Sweeping THEN exposed \cup Image!Using(creating.digest) ELSE exposed
          /\ creating.pc # "forward"
      BY <1>2, <1>c DEF Image!PlantTag, IsCreating
    <2>3. ASSUME Image!Sweeping PROVE StaysAbandoned
      <3>1. \A x \in Digests : Abandoned(x) => Abandoned(x)'
        BY <2>1, <2>2, <2>3 DEF Abandoned, Image!Using, Image!Records
      <3>2. Abandoned(creating.digest)'
        BY <2>1, <2>2, <2>3 DEF Abandoned, Image!Using, Image!Records
      <3> QED BY <1>a, <2>1, <2>2, <3>1, <3>2 DEF StaysAbandoned, Abandoned
    <2>4. derived' \in [Digests -> Digests \cup {None}] /\ DeletionIsOfOne'
      BY <1>a, <2>1 DEF DeletionIsOfOne
    <2>5. derived'[creating.digest] # None /\ \A x \in Digests : derived[x] # None => derived'[x] # None
      BY <1>a, <2>1 DEF ImageAssumptions
    <2>6. PlantedStays'
      BY <2>2, <2>5 DEF PlantedStays
    <2>7. Image!LiveSnapshotKeepsTag'
      BY <1>a, <1>c, <2>1, <2>2, <2>5 DEF Image!LiveSnapshotKeepsTag, Image!Records, IsSnap
    <2> QED BY <2>1, <2>3, <2>4, <2>6, <2>7, RegistrationMoves
  <1>3. CASE Image!CreateFails
    <2>1. creating'.pc = "idle" /\ UNCHANGED <<derived, snaps, nextId, exposed, cleaning>>
      BY <1>3 DEF Image!CreateFails, Image!NoCreate
    <2>2. StaysAbandoned
      BY <2>1 DEF StaysAbandoned, Abandoned, Image!Using, Image!Records
    <2> QED BY <1>a, <2>1, <2>2, RegistrationMoves DEF DeletionIsOfOne, PlantedStays, Image!LiveSnapshotKeepsTag, Image!Records
  <1>4. ASSUME NEW plain \in BOOLEAN, Image!Record(plain) PROVE TagInv'
    <2> DEFINE s == [name |-> creating.name, image |-> creating.digest, plain |-> plain, ref |-> None]
    <2>1. /\ nextId \in Image!Ids /\ snaps' = [snaps EXCEPT ![nextId] = s] /\ nextId' = nextId + 1
          /\ exposed' = IF creating.exposed THEN exposed \cup {nextId} ELSE exposed
          /\ creating'.pc = "idle" /\ creating.pc = "forward" /\ UNCHANGED <<derived, cleaning>>
      BY <1>4 DEF Image!Record, Image!NoCreate
    <2>2. s.image = creating.digest
      OBVIOUS
    <2> HIDE DEF s
    <2>3. \A x \in Digests : Abandoned(x) => Abandoned(x)'
      <3> SUFFICES ASSUME NEW x \in Digests, Abandoned(x) PROVE Image!Using(x)' \subseteq exposed'
        BY <2>1 DEF Abandoned
      <3>1. \A i \in Image!Ids \ {nextId} : snaps'[i] = snaps[i]
        BY <1>c, <2>1
      <3>2. snaps'[nextId] = s
        BY <1>c, <2>1
      <3> QED BY <2>1, <2>2, <3>1, <3>2 DEF Abandoned, Image!Using, Image!Records
    <2>4. StaysAbandoned
      BY <2>1, <2>3 DEF StaysAbandoned
    <2>5. DeletionIsOfOne'
      BY <1>a, <1>c, <2>1 DEF DeletionIsOfOne
    <2>6. PlantedStays'
      BY <2>1 DEF PlantedStays
    <2>7. Image!LiveSnapshotKeepsTag'
      <3>1. \A i \in Image!Ids \ {nextId} : snaps'[i] = snaps[i]
        BY <1>c, <2>1
      <3>2. snaps'[nextId] = s
        BY <1>c, <2>1
      <3>3. nextId \notin exposed' => derived'[s.image] # None
        BY <1>a, <2>1, <2>2 DEF PlantedStays
      <3> QED BY <1>a, <2>1, <3>1, <3>2, <3>3 DEF Image!LiveSnapshotKeepsTag, Image!Records
    <2> QED BY <1>a, <2>1, <2>4, <2>5, <2>6, <2>7, RegistrationMoves
  <1>5. ASSUME NEW i \in Image!Ids, Image!MakeRunnerImage(i) PROVE TagInv'
    <2>1. /\ UNCHANGED <<derived, creating, exposed, cleaning, nextId>>
          /\ \A k \in Image!Ids : /\ snaps[k] = None => snaps'[k] = None
                                  /\ snaps[k] # None => snaps'[k].image = snaps[k].image
      BY <1>5, <1>c DEF Image!MakeRunnerImage, Image!Records, IsSnap
    <2>2. StaysAbandoned
      BY <2>1 DEF StaysAbandoned, Abandoned, Image!Using, Image!Records
    <2>3. DeletionIsOfOne'
      BY <1>a, <2>1 DEF DeletionIsOfOne
    <2>4. Image!LiveSnapshotKeepsTag'
      BY <1>a, <2>1 DEF Image!LiveSnapshotKeepsTag, Image!Records
    <2> QED BY <1>a, <2>1, <2>2, <2>3, <2>4, RegistrationMoves DEF PlantedStays
  <1>6. ASSUME NEW i \in Image!Ids, Image!DeleteSnapshot(i) PROVE TagInv'
    <2>1. PICK image \in {snaps[i].image, None} :
                cleaning' = [cleaning EXCEPT !["delete"] = [Image!NoClean EXCEPT !.pc = "remove", !.id = i, !.image = image]]
      BY <1>6 DEF Image!DeleteSnapshot, Image!Clean
    <2> DEFINE next == [Image!NoClean EXCEPT !.pc = "remove", !.id = i, !.image = image]
    <2>2. next.pc = "remove" /\ next.id = i /\ next.image = image
          /\ next.candidates = {} /\ DOMAIN next = {"pc", "id", "image", "candidates", "digest"}
      BY DEF Image!NoClean
    <2>3. i \in Image!Ids /\ i < nextId /\ image \in Digests \cup {None}
      BY <1>6, <1>c DEF Image!DeleteSnapshot, Image!Records, IsSnap
    <2> HIDE DEF next
    <2>4. cleaning'["delete"] = next
      BY <1>a, <1>b, <2>1 DEF next
    <2>5. UNCHANGED <<derived, snaps, nextId, creating, exposed>>
      BY <1>6 DEF Image!DeleteSnapshot
    <2>6. IsCleaning("delete")' /\ DeletionIsOfOne'
      BY <2>2, <2>3, <2>4, <2>5 DEF IsCleaning, Sweeps, DeletionIsOfOne
    <2> QED BY <1>b, <2>1, <2>5, <2>6, CleanerMoves
  <1>7. CASE Image!RemoveRecord
    <2> DEFINE me == cleaning["delete"]
               next == IF me.image = None THEN Image!NoClean ELSE [me EXCEPT !.pc = "snapshots"]
    <2>1. /\ me.pc = "remove" /\ cleaning' = [cleaning EXCEPT !["delete"] = next]
          /\ snaps' = [snaps EXCEPT ![me.id] = None]
          /\ UNCHANGED <<derived, nextId, creating, exposed>>
      BY <1>7 DEF Image!RemoveRecord, Image!Clean
    <2>2. IsCleaning("delete") /\ DeletionIsOfOne /\ cleaning'["delete"] = next
      BY <1>a, <1>b, <2>1
    <2>3. /\ DOMAIN next = {"pc", "id", "image", "candidates", "digest"}
          /\ next.pc \in {"idle", "snapshots"} /\ next.candidates \subseteq Digests
          /\ next.pc = "snapshots" => next.id = me.id /\ next.image = me.image /\ me.image # None
      BY <2>2 DEF IsCleaning, Image!NoClean
    <2>4. \A k \in Image!Ids : snaps'[k] = snaps[k] \/ snaps'[k] = None
      BY <1>c, <2>1
    <2>5. me.id \in Image!Ids /\ snaps'[me.id] = None
      BY <1>c, <2>1, <2>2 DEF DeletionIsOfOne
    <2>6. StaysAbandoned
      BY <2>1, <2>4 DEF StaysAbandoned, Abandoned, Image!Using, Image!Records
    <2>7. \A c \in Image!Cleaners \ {"delete"} : IsCleaning(c)'
      <3>1. \A c \in Image!Cleaners \ {"delete"} : cleaning'[c] = cleaning[c]
        BY <1>a, <2>1
      <3> QED BY <2>6, <3>1, CleanersKept
    <2>8. IsCleaning("delete")' /\ DeletionIsOfOne'
      <3>1. me.id < nextId /\ me.image \in Digests \cup {None} /\ nextId' = nextId
        BY <2>1, <2>2 DEF DeletionIsOfOne
      <3>2. me.pc = "remove" /\ cleaning'["delete"] = next
        BY <2>1, <2>2
      <3> HIDE DEF next
      <3>3. DeletionIsOfOne'
        BY <2>3, <2>5, <3>1, <3>2 DEF DeletionIsOfOne
      <3>4. IsCleaning("delete")'
        BY <2>2, <2>3, <2>5, <3>1, <3>2 DEF IsCleaning, Sweeps
      <3> QED BY <3>3, <3>4
    <2>9. Image!LiveSnapshotKeepsTag'
      BY <1>a, <2>1, <2>4 DEF Image!LiveSnapshotKeepsTag, Image!Records
    <2>10. cleaning' = [c \in Image!Cleaners |-> cleaning'[c]]
      BY <1>a, <2>1
    <2> QED BY <1>a, <2>1, <2>7, <2>8, <2>9, <2>10 DEF TagInv, PlantedStays
  <1>8. CASE Image!ListOthers
    <2> DEFINE me == cleaning["delete"]
               next == IF Image!FreeOf(me.image, me.id)
                       THEN [me EXCEPT !.pc = "resolve", !.candidates = {me.image}] ELSE Image!NoClean
    <2>1. /\ me.pc = "snapshots" /\ cleaning' = [cleaning EXCEPT !["delete"] = next] /\ Image!Exposes
          /\ UNCHANGED <<derived, snaps, nextId, exposed>>
      BY <1>8 DEF Image!ListOthers, Image!Clean
    <2>2. IsCleaning("delete") /\ DeletionIsOfOne /\ cleaning'["delete"] = next
      BY <1>a, <1>b, <2>1
    <2>3. PICK image \in Digests : image = me.image /\ snaps[me.id] = None
      BY <2>1, <2>2 DEF DeletionIsOfOne
    <2>4. /\ StaysAbandoned /\ PlantedStays' /\ Image!LiveSnapshotKeepsTag'
          /\ \A x \in Digests : Image!Using(x) = {} => Abandoned(x)'
      BY <2>1, Listing
    <2>5. Image!FreeOf(me.image, me.id) => Abandoned(image)'
      <3>1. Image!FreeOf(me.image, me.id) => Image!Using(image) = {}
        BY <2>3 DEF Image!FreeOf, Image!Using, Image!Records
      <3> QED BY <2>3, <2>4, <3>1
    <2>6. /\ DOMAIN next = {"pc", "id", "image", "candidates", "digest"}
          /\ next.candidates \subseteq Digests
          /\ next.pc = "idle" \/ (next.pc = "resolve" /\ next.candidates = {image} /\ next.image = image
                                  /\ Abandoned(image)')
      BY <2>2, <2>3, <2>5 DEF IsCleaning, Image!NoClean
    <2> HIDE DEF next
    <2>7. IsCleaning("delete")' /\ DeletionIsOfOne'
      BY <2>2, <2>3, <2>6 DEF IsCleaning, DeletionIsOfOne, Sweeps
    <2>8. \A c \in Image!Cleaners \ {"delete"} : IsCleaning(c)'
      <3>1. \A c \in Image!Cleaners \ {"delete"} : cleaning'[c] = cleaning[c]
        BY <1>a, <2>1
      <3> QED BY <2>4, <3>1, CleanersKept
    <2>9. cleaning' = [c \in Image!Cleaners |-> cleaning'[c]]
      BY <1>a, <2>1
    <2> QED BY <1>a, <2>1, <2>4, <2>7, <2>8, <2>9 DEF TagInv
  <1>9. CASE Image!CollectGarbage
    <2> DEFINE next == [Image!NoClean EXCEPT !.pc = "snapshots", !.candidates = {x \in Digests : derived[x] # None}]
    <2>1. cleaning' = [cleaning EXCEPT !["gc"] = next] /\ UNCHANGED <<derived, snaps, nextId, creating, exposed>>
      BY <1>9 DEF Image!CollectGarbage, Image!Clean
    <2>2. /\ DOMAIN next = {"pc", "id", "image", "candidates", "digest"}
          /\ next.pc = "snapshots" /\ next.candidates \subseteq Digests
      BY DEF Image!NoClean
    <2> HIDE DEF next
    <2>3. cleaning'["gc"] = next /\ cleaning'["delete"] = cleaning["delete"]
      BY <1>a, <1>b, <2>1
    <2>4. IsCleaning("gc")' /\ DeletionIsOfOne'
      BY <1>a, <2>1, <2>2, <2>3 DEF IsCleaning, Sweeps, DeletionIsOfOne
    <2> QED BY <1>b, <2>1, <2>4, CleanerMoves
  <1>10. CASE Image!ListInUse
    <2> DEFINE me == cleaning["gc"]
               next == [me EXCEPT !.pc = "deleting", !.candidates = {x \in @ : Image!FreeOf(x, None)}]
    <2>1. /\ me.pc = "snapshots" /\ cleaning' = [cleaning EXCEPT !["gc"] = next] /\ Image!Exposes
          /\ UNCHANGED <<derived, snaps, nextId, exposed>>
      BY <1>10 DEF Image!ListInUse, Image!Clean
    <2>2. IsCleaning("gc") /\ cleaning'["gc"] = next /\ cleaning'["delete"] = cleaning["delete"]
      BY <1>a, <1>b, <2>1
    <2>3. /\ StaysAbandoned /\ PlantedStays' /\ Image!LiveSnapshotKeepsTag'
          /\ \A x \in Digests : Image!Using(x) = {} => Abandoned(x)'
      BY <2>1, Listing
    <2>4. me.candidates \subseteq Digests
      BY <2>1, <2>2 DEF IsCleaning
    <2>5. \A x \in me.candidates : Image!FreeOf(x, None) => Abandoned(x)'
      BY <1>d, <2>3, <2>4 DEF Image!FreeOf, Image!Using, Image!Records
    <2>6. /\ DOMAIN next = {"pc", "id", "image", "candidates", "digest"} /\ next.pc = "deleting"
          /\ next.candidates = {x \in me.candidates : Image!FreeOf(x, None)}
      BY <2>2 DEF IsCleaning
    <2> HIDE DEF next
    <2>7. IsCleaning("gc")'
      BY <2>2, <2>4, <2>5, <2>6 DEF IsCleaning, Sweeps
    <2>8. DeletionIsOfOne'
      BY <1>a, <2>1, <2>2 DEF DeletionIsOfOne
    <2>9. \A c \in Image!Cleaners \ {"gc"} : IsCleaning(c)'
      <3>1. \A c \in Image!Cleaners \ {"gc"} : cleaning'[c] = cleaning[c]
        BY <1>a, <2>1
      <3> QED BY <2>3, <3>1, CleanersKept
    <2>10. cleaning' = [c \in Image!Cleaners |-> cleaning'[c]]
      BY <1>a, <2>1
    <2> QED BY <1>a, <2>1, <2>3, <2>7, <2>8, <2>9, <2>10 DEF TagInv
  <1>11. CASE Image!GcEnds
    <2>1. cleaning' = [cleaning EXCEPT !["gc"] = Image!NoClean] /\ UNCHANGED <<derived, snaps, nextId, creating, exposed>>
      BY <1>11 DEF Image!GcEnds, Image!CleanUp, Image!Clean
    <2>2. cleaning'["gc"] = Image!NoClean /\ cleaning'["delete"] = cleaning["delete"]
      BY <1>a, <1>b, <2>1
    <2>3. IsCleaning("gc")' /\ DeletionIsOfOne'
      BY <1>a, <2>1, <2>2 DEF IsCleaning, Sweeps, DeletionIsOfOne, Image!NoClean
    <2> QED BY <1>b, <2>1, <2>3, CleanerMoves
  <1>12. ASSUME NEW x \in Digests, Image!GcNext(x) PROVE TagInv'
    <2> DEFINE next == [cleaning["gc"] EXCEPT !.pc = "resolve", !.image = x]
    <2>1. cleaning' = [cleaning EXCEPT !["gc"] = next] /\ UNCHANGED <<derived, snaps, nextId, creating, exposed>>
      BY <1>12 DEF Image!GcNext, Image!CleanUp, Image!Clean
    <2>2. cleaning'["gc"] = next /\ cleaning'["delete"] = cleaning["delete"] /\ IsCleaning("gc")
      BY <1>a, <1>b, <2>1
    <2>3. \A y : Abandoned(y)' = Abandoned(y)
      BY <2>1 DEF Abandoned, Image!Using, Image!Records
    <2>4. IsCleaning("gc")' /\ DeletionIsOfOne'
      BY <1>12, <1>a, <2>1, <2>2, <2>3 DEF Image!GcNext, IsCleaning, Sweeps, DeletionIsOfOne
    <2> QED BY <1>b, <2>1, <2>4, CleanerMoves
  <1>13. ASSUME NEW c \in Image!Cleaners, Image!ResolveTag(c) PROVE TagInv'
    <2> DEFINE next == [cleaning[c] EXCEPT !.pc = "probe", !.digest = derived[cleaning[c].image]]
    <2>1. cleaning[c].pc = "resolve" /\ UNCHANGED <<derived, snaps, nextId, creating, exposed>>
      BY <1>13 DEF Image!ResolveTag, Image!CleanUp
    <2>2. CASE derived[cleaning[c].image] = None
      <3>1. cleaning' = [cleaning EXCEPT ![c] = Image!Done(c)]
        BY <1>13, <2>2 DEF Image!ResolveTag, Image!CleanUp, Image!Clean
      <3> QED BY <2>1, <3>1, DoneCleaning, CleanerMoves
    <2>3. CASE derived[cleaning[c].image] # None
      <3>1. cleaning' = [cleaning EXCEPT ![c] = next]
        BY <1>13, <2>3 DEF Image!ResolveTag, Image!CleanUp, Image!Clean
      <3>2. IsCleaning(c) /\ cleaning'[c] = next /\ (c = "gc" => cleaning'["delete"] = cleaning["delete"])
            /\ (c # "gc" => c = "delete")
        BY <1>a, <1>b, <3>1 DEF Image!Cleaners
      <3>3. \A y : Abandoned(y)' = Abandoned(y)
        BY <2>1 DEF Abandoned, Image!Using, Image!Records
      <3>4. IsCleaning(c)'
        BY <2>1, <2>3, <3>2, <3>3 DEF IsCleaning, Sweeps
      <3>5. DeletionIsOfOne'
        BY <1>a, <2>1, <3>2 DEF DeletionIsOfOne, IsCleaning
      <3> QED BY <2>1, <3>1, <3>4, <3>5, CleanerMoves
    <2> QED BY <2>2, <2>3
  <1>14. ASSUME NEW c \in Image!Cleaners, Image!ProbeSiblings(c) PROVE TagInv'
    <2> DEFINE me == cleaning[c]
               next == [me EXCEPT !.pc = "drop"]
    <2>1. me.pc = "probe" /\ UNCHANGED <<derived, snaps, nextId, creating, exposed>>
      BY <1>14 DEF Image!ProbeSiblings, Image!CleanUp
    <2>2. CASE Image!Shared(me.image, me.digest)
      <3>1. cleaning' = [cleaning EXCEPT ![c] = Image!Done(c)]
        BY <1>14, <2>2 DEF Image!ProbeSiblings, Image!CleanUp, Image!Clean
      <3> QED BY <2>1, <3>1, DoneCleaning, CleanerMoves
    <2>3. CASE ~Image!Shared(me.image, me.digest)
      <3>1. cleaning' = [cleaning EXCEPT ![c] = next]
        BY <1>14, <2>3 DEF Image!ProbeSiblings, Image!CleanUp, Image!Clean
      <3>2. IsCleaning(c) /\ cleaning'[c] = next /\ (c = "gc" => cleaning'["delete"] = cleaning["delete"])
            /\ (c # "gc" => c = "delete")
        BY <1>a, <1>b, <3>1 DEF Image!Cleaners
      <3>3. \A y : Abandoned(y)' = Abandoned(y)
        BY <2>1 DEF Abandoned, Image!Using, Image!Records
      <3>4. \A y \in Digests : derived[y] = me.digest => y = me.image
        BY <2>3 DEF Image!Shared
      <3>5. IsCleaning(c)'
        BY <2>1, <3>2, <3>3, <3>4 DEF IsCleaning, Sweeps
      <3>6. DeletionIsOfOne'
        BY <1>a, <2>1, <3>2 DEF DeletionIsOfOne, IsCleaning
      <3> QED BY <2>1, <3>1, <3>5, <3>6, CleanerMoves
    <2> QED BY <2>2, <2>3
  <1>15. ASSUME NEW c \in Image!Cleaners, Image!DropManifest(c) PROVE TagInv'
    <2> DEFINE d == cleaning[c].digest
    <2>1. /\ cleaning[c].pc = "drop" /\ cleaning' = [cleaning EXCEPT ![c] = Image!Done(c)]
          /\ derived' = [x \in Digests |-> IF derived[x] = d THEN None ELSE derived[x]]
          /\ UNCHANGED <<snaps, nextId, creating, exposed>>
      BY <1>15 DEF Image!DropManifest, Image!Clean
    <2>2. IsCleaning(c)' /\ DeletionIsOfOne'
      BY <2>1, DoneCleaning
    <2>3. StaysAbandoned
      BY <2>1 DEF StaysAbandoned, Abandoned, Image!Using, Image!Records
    <2>4. \A e \in Image!Cleaners \ {c} : IsCleaning(e)'
      <3>1. \A e \in Image!Cleaners \ {c} : cleaning'[e] = cleaning[e]
        BY <1>a, <2>1
      <3> QED BY <2>3, <3>1, CleanersKept
    <2>5. \A y \in Digests : derived[y] = d => Abandoned(y)
      BY <1>a, <2>1 DEF IsCleaning
    <2>6. derived' \in [Digests -> Digests \cup {None}] /\ cleaning' = [e \in Image!Cleaners |-> cleaning'[e]]
      BY <1>a, <2>1
    <2>7. PlantedStays'
      BY <1>a, <1>c, <2>1, <2>5 DEF PlantedStays, Abandoned, IsCreating
    <2>8. Image!LiveSnapshotKeepsTag'
      BY <1>a, <1>c, <2>1, <2>5 DEF Image!LiveSnapshotKeepsTag, Image!Records, Image!Using, Abandoned, IsSnap
    <2> QED BY <2>2, <2>4, <2>6, <2>7, <2>8 DEF TagInv
  <1>16. ASSUME NEW c \in Image!Cleaners, Image!CleanFails(c) PROVE TagInv'
    <2>1. UNCHANGED <<derived, snaps, nextId, creating, exposed>>
      BY <1>16 DEF Image!CleanFails, Image!CleanUp
    <2>2. CASE cleaning[c].pc \in {"remove", "snapshots"}
      <3>1. cleaning' = [cleaning EXCEPT ![c] = Image!NoClean]
        BY <1>16, <2>2 DEF Image!CleanFails, Image!CleanUp, Image!Clean
      <3>2. cleaning'[c] = Image!NoClean /\ (c = "gc" => cleaning'["delete"] = cleaning["delete"])
            /\ (c # "gc" => c = "delete")
        BY <1>a, <1>b, <3>1 DEF Image!Cleaners
      <3>3. IsCleaning(c)' /\ DeletionIsOfOne'
        BY <1>a, <2>1, <3>2 DEF IsCleaning, Sweeps, DeletionIsOfOne, Image!NoClean
      <3> QED BY <2>1, <3>1, <3>3, CleanerMoves
    <2>3. CASE cleaning[c].pc \in {"resolve", "probe", "drop"}
      <3>1. cleaning' = [cleaning EXCEPT ![c] = Image!Done(c)]
        BY <1>16, <2>3 DEF Image!CleanFails, Image!CleanUp, Image!Clean
      <3> QED BY <2>1, <2>3, <3>1, DoneCleaning, CleanerMoves
    <2> QED BY <1>16, <2>2, <2>3 DEF Image!CleanFails
  <1>17. CASE UNCHANGED <<derived, snaps, nextId, creating, exposed, cleaning>>
    BY <1>17 DEF TagInv, IsCleaning, DeletionIsOfOne, PlantedStays, Abandoned, Image!LiveSnapshotKeepsTag, Image!Records, Image!Using
  <1> QED BY <1>1, <1>2, <1>3, <1>4, <1>5, <1>6, <1>7, <1>8, <1>9, <1>10, <1>11, <1>12, <1>13, <1>14, <1>15, <1>16, <1>17 DEF Image!Next, Image!vars, Image!registry, Image!importing, Image!records,
             Image!CheckSnapshotRunsImage, Image!Copy, Image!CreateSealed, Image!HeadFinds, Image!HeadFindsNothing, Image!ImageHash, Image!Import, Image!ImportEnds, Image!ImportFails, Image!Lock, Image!Push, Image!ResolveSnapshot, Image!Seal, Image!SealFails, Image!StartSealed

\* Imports, clean-ups and sealed creates, in any interleaving with pushes and with
\* each other: a tag holds what its imports were answered with, a live snapshot
\* keeps its image and a sealed sandbox runs the image it is certified for (copyTo,
\* handleSnapshotDelete, POST /registry/gc, checkSnapshotRunsImage).
THEOREM ImagesAreKept == ProxySpec => []ImagesHold
  <1> DEFINE Inv == ImportInv /\ SnapInv /\ SealInv /\ TagInv
  <1>0. ImageAssumptions
    BY ImagesAssumption DEF ImageAssumptions
  <1>1. ProxyInit => Inv
    <2> SUFFICES ASSUME Image!Init PROVE Inv
      BY DEF ProxyInit
    <2>1. ImportInv
      BY <1>0 DEF ImageAssumptions, Image!Init, ImportInv, IsImport, Image!ImportHolds
    <2>2. SnapInv
      BY <1>0 DEF ImageAssumptions, Image!Init, SnapInv, IsCreating, Image!NoCreate
    <2>3. SealInv
      BY <1>0 DEF ImageAssumptions, Image!Init, SealInv, IsSealing, Image!NoSeal, Image!RunsWhatIsCertified
    <2>4. TagInv
      BY <1>0 DEF ImageAssumptions, Image!Init, TagInv, IsCleaning, DeletionIsOfOne, PlantedStays, Image!LiveSnapshotKeepsTag,
             Image!Records, Sweeps, Image!NoClean, Image!NoCreate, Image!Cleaners
    <2> QED BY <2>1, <2>2, <2>3, <2>4
  <1>2. Inv /\ [ProxyNext]_proxyVars => Inv'
    BY <1>0, OnePartMoves, ImportsKept, SnapsKept, SealsKept, TagsKept
  <1>3. Inv => ImagesHold
    BY DEF ImagesHold, ImportInv, SealInv, TagInv, Image!ImagesHold
  <1> QED BY <1>1, <1>2, <1>3, PTL DEF ProxySpec

-----------------------------------------------------------------------------
(* A create and the sandbox it becomes (SandboxAccess). *)

\* A body has one entry for each spelling of a field.
Unique(b) ==
    \A d, e \in b : d.field = e.field /\ d.spelling = e.spelling => d = e

\* The bodies a caller can write.
IsBody(b) ==
    /\ Unique(b)
    /\ \A e \in b : /\ e.field \in Access!Fields /\ e.spelling \in Access!Spellings
                    /\ e.value \in Access!Values[e.field]

\* The exact reading is the value of the one exact entry.
LEMMA ExactReading ==
    ASSUME NEW b, Unique(b), NEW f
    PROVE  /\ \A e \in b : e.field = f /\ e.spelling = "exact" => Access!Exact(b, f) = e.value
           /\ (\A e \in b : e.field = f => e.spelling # "exact") => Access!Exact(b, f) = Access!Absent
  <1>1. ASSUME NEW e \in b, e.field = f, e.spelling = "exact" PROVE Access!Exact(b, f) = e.value
    <2> DEFINE c == CHOOSE d \in b : d.field = f /\ d.spelling = "exact"
    <2>1. c \in b /\ c.field = f /\ c.spelling = "exact"
      BY <1>1
    <2>2. c = e
      BY <1>1, <2>1 DEF Unique
    <2>3. Access!Spelled(b, f, "exact") # {}
      BY <1>1 DEF Access!Spelled
    <2> QED BY <2>2, <2>3 DEF Access!Exact
  <1>2. ASSUME \A e \in b : e.field = f => e.spelling # "exact" PROVE Access!Exact(b, f) = Access!Absent
    BY <1>2 DEF Access!Exact, Access!Spelled
  <1> QED BY <1>1, <1>2

\* Two bodies with the same exact entries of a field read the same.
LEMMA SameReading ==
    ASSUME NEW a, NEW b, Unique(a), Unique(b), NEW f,
           \A e : e.field = f /\ e.spelling = "exact" => (e \in a <=> e \in b)
    PROVE  Access!Exact(a, f) = Access!Exact(b, f)
  <1>1. CASE \E e \in a : e.field = f /\ e.spelling = "exact"
    BY <1>1, ExactReading
  <1>2. CASE \A e \in a : e.field = f => e.spelling # "exact"
    <2>1. \A e \in b : e.field = f => e.spelling # "exact"
      BY <1>2
    <2> QED BY <1>2, <2>1, ExactReading
  <1> QED BY <1>1, <1>2

\* A field that has no folded spelling reads the same either way.
LEMMA OneSpelling ==
    ASSUME NEW b, Unique(b), NEW f, NEW last \in Access!Spellings,
           Access!Spelled(b, f, "folded") = {}
    PROVE  Access!Folded(b, f, last) = Access!Exact(b, f)
  <1> DEFINE s == IF Access!Spelled(b, f, last) # {} THEN {last} ELSE Access!Spellings \ {last}
             E == {x \in b : x.field = f /\ x.spelling \in s}
  <1>1. Access!Folded(b, f, last) = IF E = {} THEN Access!Absent ELSE (CHOOSE x \in E : TRUE).value
    BY DEF Access!Folded
  <1>a. \A e \in b : e.field = f => e.spelling # "folded"
    BY DEF Access!Spelled
  <1>2. CASE \E e \in b : e.field = f /\ e.spelling = "exact"
    <2>1. PICK e \in b : e.field = f /\ e.spelling = "exact"
      BY <1>2
    <2>2. s = {"exact"}
      BY <1>a, <2>1 DEF Access!Spelled, Access!Spellings
    <2>3. e \in E /\ \A x \in E : x = e
      BY <2>1, <2>2 DEF Unique
    <2> HIDE DEF E
    <2>4. (CHOOSE x \in E : TRUE) = e
      BY <2>3
    <2> QED BY <1>1, <2>1, <2>3, <2>4, ExactReading
  <1>3. CASE \A e \in b : e.field = f => e.spelling # "exact"
    <2>1. E = {}
      BY <1>a, <1>3 DEF Access!Spellings
    <2> QED BY <1>1, <1>3, <2>1, ExactReading
  <1> QED BY <1>2, <1>3

\* Setting a field decides its exact reading and leaves everything else.
LEMMA SetReading ==
    ASSUME NEW b, Unique(b), NEW f, NEW v
    PROVE  /\ Unique(Access!Set(b, f, v))
           /\ Access!Exact(Access!Set(b, f, v), f) = v
           /\ \A g : g # f => Access!Exact(Access!Set(b, f, v), g) = Access!Exact(b, g)
           /\ \A g, s : s # "exact" \/ g # f =>
                Access!Spelled(Access!Set(b, f, v), g, s) = Access!Spelled(b, g, s)
  <1> DEFINE c == Access!Set(b, f, v)   n == Access!Entry(f, "exact", v)
  <1>1. n.field = f /\ n.spelling = "exact" /\ n.value = v /\ n \in c
    BY DEF Access!Set, Access!Entry
  <1>2. \A e : e \in c <=> (e = n \/ (e \in b /\ (e.field # f \/ e.spelling # "exact")))
    BY DEF Access!Set
  <1> HIDE DEF c, n
  <1>3. Unique(c)
    BY <1>1, <1>2 DEF Unique
  <1>4. Access!Exact(c, f) = v
    BY <1>1, <1>3, ExactReading
  <1>5. ASSUME NEW g, g # f PROVE Access!Exact(c, g) = Access!Exact(b, g)
    <2>1. \A e : e.field = g /\ e.spelling = "exact" => (e \in c <=> e \in b)
      BY <1>1, <1>2, <1>5
    <2> QED BY <1>3, <2>1, SameReading
  <1>6. ASSUME NEW g, NEW s, s # "exact" \/ g # f PROVE Access!Spelled(c, g, s) = Access!Spelled(b, g, s)
    BY <1>1, <1>2, <1>6 DEF Access!Spelled
  <1> QED BY <1>3, <1>4, <1>5, <1>6 DEF c

\* Dropping entries, all exact ones of a field or none.
LEMMA DropReading ==
    ASSUME NEW b, Unique(b), NEW c \in SUBSET b
    PROVE  /\ Unique(c)
           /\ \A g : (\A e \in b : e.field = g /\ e.spelling = "exact" => e \in c)
                        => Access!Exact(c, g) = Access!Exact(b, g)
           /\ \A g : (\A e \in c : e.field = g => e.spelling # "exact")
                        => Access!Exact(c, g) = Access!Absent
           /\ \A g, s : Access!Spelled(c, g, s) \subseteq Access!Spelled(b, g, s)
  <1>1. Unique(c)
    BY DEF Unique
  <1>2. ASSUME NEW g, \A e \in b : e.field = g /\ e.spelling = "exact" => e \in c
        PROVE  Access!Exact(c, g) = Access!Exact(b, g)
    <2>1. \A e : e.field = g /\ e.spelling = "exact" => (e \in c <=> e \in b)
      BY <1>2
    <2> QED BY <1>1, <2>1, SameReading
  <1>3. ASSUME NEW g, \A e \in c : e.field = g => e.spelling # "exact"
        PROVE  Access!Exact(c, g) = Access!Absent
    BY <1>1, <1>3, ExactReading
  <1> QED BY <1>1, <1>2, <1>3 DEF Access!Spelled

\* What Daytona gets: one reading, the caller's own labels and nothing else's, a
\* seal only together with its label and without what the caller put in its env,
\* and the ports that were asked for or the agent's.
Decides(b, ports) ==
    /\ \A last \in Access!Spellings :
          /\ Access!Folded(b, "snapshot", last) = Access!Exact(b, "snapshot")
          /\ \A f \in {"sealed", "volumes"} \cup (Access!Fields \ Access!CreateFields) :
                Access!Folded(b, f, last) = Access!Absent
          /\ Access!Folded(b, "autoDeleteInterval", last) = {"never"}
          /\ \A f \in {"public", "publicPorts"} : Access!Folded(b, f, last) = Access!Exact(b, f)
    /\ Access!Exact(b, "snapshot") = IF "key" \in Access!Exact(b, "env") THEN {"id"} ELSE {"name"}
    /\ Access!Exact(b, "volumes") = Access!Absent
    /\ "mine" \in Access!Exact(b, "labels") /\ "theirs" \notin Access!Exact(b, "labels")
    /\ "key" \in Access!Exact(b, "env") =>
          /\ "sealed" \in Access!Exact(b, "labels")
          /\ {"forgedKey", "preload"} \cap Access!Exact(b, "env") = {}
    /\ Access!Exact(b, "public") = {"true"} =>
          IF ports # Access!Absent THEN Access!Exact(b, "publicPorts") = ports
          ELSE "key" \in Access!Exact(b, "env") /\ Access!Exact(b, "publicPorts") = {"agent"}

\* What the caller can have written in the fields that are kept.
LEMMA WrittenValues ==
    ASSUME NEW b, IsBody(b)
    PROVE  /\ Access!Exact(b, "snapshot") \in {Access!Absent, {}, {"name"}}
           /\ "key" \notin Access!Exact(b, "env")
  <1>1. \A e \in b : /\ e.field = "snapshot" => e.value \in {{}, {"name"}}
                     /\ e.field = "env" => e.value \in {{"forgedKey", "ticket"}, {"preload"}}
    BY DEF IsBody, Access!Values
  <1>2. Unique(b)
    BY DEF IsBody
  <1>3. Access!Exact(b, "snapshot") \in {Access!Absent, {}, {"name"}}
    <2>1. CASE \E e \in b : e.field = "snapshot" /\ e.spelling = "exact"
      BY <1>1, <1>2, <2>1, ExactReading
    <2> QED BY <1>2, <2>1, ExactReading
  <1>4. "key" \notin Access!Exact(b, "env")
    <2>1. CASE \E e \in b : e.field = "env" /\ e.spelling = "exact"
      BY <1>1, <1>2, <2>1, ExactReading
    <2>2. CASE \A e \in b : e.field = "env" => e.spelling # "exact"
      BY <1>2, <2>2, ExactReading DEF Access!Absent
    <2> QED BY <2>1, <2>2
  <1> QED BY <1>3, <1>4


\* InjectOwner: every spelling of the decided fields is gone, and their readings
\* are the proxy's.
LEMMA OwnerInjected ==
    ASSUME NEW b, IsBody(b), NEW last \in Access!Spellings, Access!RequireSnapshotCreate(b)
    PROVE  LET c == Access!InjectOwner(b, last)
               sealed == Access!ExtractSealed(b, last)
               ports == Access!PublicPorts(b)
           IN  /\ Unique(c)
               /\ \A f \in {"snapshot", "env", "seal_id"} : Access!Exact(c, f) = Access!Exact(b, f)
               /\ \A f \in {"sealed", "volumes"} \cup (Access!Fields \ Access!CreateFields) :
                     Access!Exact(c, f) = Access!Absent
               /\ Access!Exact(c, "autoDeleteInterval") = {"never"}
               /\ Access!Exact(c, "labels") = Access!OwnLabels(Access!Exact(b, "labels"), sealed)
               /\ Access!Exact(c, "public") = {"true"} =>
                     IF ports # Access!Absent THEN Access!Exact(c, "publicPorts") = ports
                     ELSE sealed /\ Access!Exact(c, "publicPorts") = {"agent"}
               /\ \A f \in Access!Decided \cup {"snapshot"} \cup (Access!Fields \ Access!CreateFields) :
                     Access!Spelled(c, f, "folded") = {}
  <1> DEFINE sealed == Access!ExtractSealed(b, last)
             asks == Access!PublicPorts(b)
             ports == IF asks # Access!Absent THEN asks ELSE IF sealed THEN {"agent"} ELSE Access!Absent
             L == Access!OwnLabels(Access!Exact(b, "labels"), sealed)
             c0 == Access!Stripped(b)
             c1 == Access!Set(c0, "labels", L)
             c2 == Access!Set(c1, "autoDeleteInterval", {"never"})
             cN == Access!Set(c2, "public", {"false"})
             c3 == Access!Set(c2, "public", {"true"})
             cP == Access!Set(c3, "publicPorts", ports)
             NotCreate == Access!Fields \ Access!CreateFields
             Bare == Access!Decided \cup {"snapshot"} \cup NotCreate
  <1>1. Access!InjectOwner(b, last) = IF ports = Access!Absent THEN cN ELSE cP
    BY DEF Access!InjectOwner
  <1>2. NotCreate = {"cpu", "linkedSandbox"}
    BY DEF Access!Fields, Access!CreateFields, Access!Values
  <1>3. /\ c0 \in SUBSET b /\ Unique(b)
        /\ \A e \in b : e \in c0 <=> e.field \notin Access!Decided
        /\ \A e \in c0 : e.field \notin Access!Decided
        /\ \A e \in b : e.field \in Access!CreateFields
        /\ Access!Spelled(b, "snapshot", "folded") = {}
    BY DEF Access!Stripped, IsBody, Access!RequireSnapshotCreate, Access!RejectFoldedKeys
  <1>4. /\ Unique(c0)
        /\ \A f \in {"snapshot", "env", "seal_id"} : Access!Exact(c0, f) = Access!Exact(b, f)
        /\ \A f \in {"sealed", "volumes"} \cup NotCreate : Access!Exact(c0, f) = Access!Absent
        /\ \A f \in Bare : Access!Spelled(c0, f, "folded") = {}
    <2>1. Unique(c0)
      BY <1>3, DropReading
    <2>2. \A f \in {"snapshot", "env", "seal_id"} : Access!Exact(c0, f) = Access!Exact(b, f)
      BY <1>3, DropReading DEF Access!Decided
    <2>3. ASSUME NEW f \in {"sealed", "volumes"} \cup NotCreate PROVE Access!Exact(c0, f) = Access!Absent
      <3>1. \A e \in c0 : e.field # f
        BY <1>2, <1>3 DEF Access!Decided, Access!CreateFields
      <3> QED BY <1>3, <3>1, DropReading
    <2>4. ASSUME NEW f \in Bare PROVE Access!Spelled(c0, f, "folded") = {}
      BY <1>2, <1>3 DEF Access!Decided, Access!CreateFields, Access!Spelled
    <2> QED BY <2>1, <2>2, <2>3, <2>4
  <1> HIDE DEF c0, L, NotCreate
  <1>5. /\ Unique(c1) /\ Access!Exact(c1, "labels") = L
        /\ \A g : g # "labels" => Access!Exact(c1, g) = Access!Exact(c0, g)
        /\ \A g : Access!Spelled(c1, g, "folded") = Access!Spelled(c0, g, "folded")
    BY <1>4, SetReading
  <1> HIDE DEF c1
  <1>6. /\ Unique(c2) /\ Access!Exact(c2, "autoDeleteInterval") = {"never"}
        /\ \A g : g # "autoDeleteInterval" => Access!Exact(c2, g) = Access!Exact(c1, g)
        /\ \A g : Access!Spelled(c2, g, "folded") = Access!Spelled(c1, g, "folded")
    BY <1>5, SetReading
  <1> HIDE DEF c2
  <1>7. /\ Unique(cN) /\ Access!Exact(cN, "public") = {"false"}
        /\ \A g : g # "public" => Access!Exact(cN, g) = Access!Exact(c2, g)
        /\ \A g : Access!Spelled(cN, g, "folded") = Access!Spelled(c2, g, "folded")
    BY <1>6, SetReading
  <1>8. /\ Unique(c3) /\ Access!Exact(c3, "public") = {"true"}
        /\ \A g : g # "public" => Access!Exact(c3, g) = Access!Exact(c2, g)
        /\ \A g : Access!Spelled(c3, g, "folded") = Access!Spelled(c2, g, "folded")
    BY <1>6, SetReading
  <1> HIDE DEF cN, c3
  <1>9. /\ Unique(cP) /\ Access!Exact(cP, "publicPorts") = ports
        /\ \A g : g # "publicPorts" => Access!Exact(cP, g) = Access!Exact(c3, g)
        /\ \A g : Access!Spelled(cP, g, "folded") = Access!Spelled(c3, g, "folded")
    BY <1>8, SetReading
  <1> HIDE DEF cP, sealed, asks
  <1>10. CASE ports = Access!Absent
    <2> DEFINE c == cN
    <2>1. "false" # "true" /\ {"false"} # {"true"}
      OBVIOUS
    <2>2. \A f \in Bare : Access!Spelled(cN, f, "folded") = {}
      BY <1>4, <1>5, <1>6, <1>7
    <2> QED BY <1>1, <1>2, <1>4, <1>5, <1>6, <1>7, <1>10, <2>1, <2>2 DEF L, sealed, NotCreate
  <1>11. CASE ports # Access!Absent
    <2>2. \A f \in Bare : Access!Spelled(cP, f, "folded") = {}
      BY <1>4, <1>5, <1>6, <1>8, <1>9
    <2>3. \A g : g \notin {"labels", "autoDeleteInterval", "public", "publicPorts"} =>
                    Access!Exact(cP, g) = Access!Exact(c0, g)
      BY <1>5, <1>6, <1>8, <1>9
    <2>4. Access!Exact(cP, "labels") = L /\ Access!Exact(cP, "autoDeleteInterval") = {"never"}
      BY <1>5, <1>6, <1>8, <1>9
    <2> QED BY <1>1, <1>2, <1>4, <1>9, <1>11, <2>2, <2>3, <2>4 DEF L, sealed, asks, NotCreate
  <1> QED BY <1>10, <1>11


\* InjectSeal: the record by its id, the key in the env, the rest as it was.
LEMMA SealInjected ==
    ASSUME NEW b, Unique(b)
    PROVE  LET c == Access!InjectSeal(b)
               env == (Access!Exact(b, "env") \ Access!Absent) \ {"forgedKey"}
           IN  /\ Unique(c)
               /\ Access!Exact(c, "snapshot") = {"id"}
               /\ Access!Exact(c, "env") = env \cup {"key", "certificate"}
               /\ \A f : f \notin {"snapshot", "env", "seal_id"} => Access!Exact(c, f) = Access!Exact(b, f)
               /\ \A f : Access!Spelled(c, f, "folded") \subseteq Access!Spelled(b, f, "folded")
  <1> DEFINE env == ((Access!Exact(b, "env") \ Access!Absent) \ {"forgedKey"}) \cup {"key", "certificate"}
             c1 == Access!Set(b, "snapshot", {"id"})
             c2 == Access!Set(c1, "env", env)
             c3 == {e \in c2 : e.field # "seal_id" \/ e.spelling = "folded"}
  <1>1. Access!InjectSeal(b) = c3
    BY DEF Access!InjectSeal, Access!IssueImageAttestation
  <1>2. /\ Unique(c1) /\ Access!Exact(c1, "snapshot") = {"id"}
        /\ \A g : g # "snapshot" => Access!Exact(c1, g) = Access!Exact(b, g)
        /\ \A g : Access!Spelled(c1, g, "folded") = Access!Spelled(b, g, "folded")
    BY SetReading
  <1> HIDE DEF c1, env
  <1>3. /\ Unique(c2) /\ Access!Exact(c2, "env") = env
        /\ \A g : g # "env" => Access!Exact(c2, g) = Access!Exact(c1, g)
        /\ \A g : Access!Spelled(c2, g, "folded") = Access!Spelled(c1, g, "folded")
    BY <1>2, SetReading
  <1> HIDE DEF c2
  <1>4. /\ Unique(c3)
        /\ \A g : g # "seal_id" => Access!Exact(c3, g) = Access!Exact(c2, g)
        /\ \A g : Access!Spelled(c3, g, "folded") \subseteq Access!Spelled(c2, g, "folded")
    <2>1. c3 \in SUBSET c2
      OBVIOUS
    <2>2. \A g : g # "seal_id" => \A e \in c2 : e.field = g /\ e.spelling = "exact" => e \in c3
      OBVIOUS
    <2> HIDE DEF c3
    <2> QED BY <1>3, <2>1, <2>2, DropReading
  <1> HIDE DEF c3
  <1> QED BY <1>1, <1>2, <1>3, <1>4 DEF env

\* What handleCreate forwards.
LEMMA CreateDecides ==
    ASSUME NEW b, IsBody(b), NEW last \in Access!Spellings, Access!RequireSnapshotCreate(b),
           Access!ExtractSealed(b, last) => Access!SealAccepts(b)
    PROVE  Decides(IF Access!ExtractSealed(b, last) THEN Access!InjectSeal(Access!InjectOwner(b, last))
                   ELSE Access!InjectOwner(b, last), Access!PublicPorts(b))
  <1> DEFINE sealed == Access!ExtractSealed(b, last)
             ports == Access!PublicPorts(b)
             o == Access!InjectOwner(b, last)
             c == IF sealed THEN Access!InjectSeal(o) ELSE o
             NotCreate == Access!Fields \ Access!CreateFields
             Bare == Access!Decided \cup {"snapshot"} \cup NotCreate
             env == (Access!Exact(b, "env") \ Access!Absent) \ {"forgedKey"}
  <1>1. /\ Unique(o)
        /\ \A f \in {"snapshot", "env", "seal_id"} : Access!Exact(o, f) = Access!Exact(b, f)
        /\ \A f \in {"sealed", "volumes"} \cup NotCreate : Access!Exact(o, f) = Access!Absent
        /\ Access!Exact(o, "autoDeleteInterval") = {"never"}
        /\ Access!Exact(o, "labels") = Access!OwnLabels(Access!Exact(b, "labels"), sealed)
        /\ Access!Exact(o, "public") = {"true"} =>
              IF ports # Access!Absent THEN Access!Exact(o, "publicPorts") = ports
              ELSE sealed /\ Access!Exact(o, "publicPorts") = {"agent"}
        /\ \A f \in Bare : Access!Spelled(o, f, "folded") = {}
    BY OwnerInjected
  <1>2. NotCreate = {"cpu", "linkedSandbox"} /\ Bare = Access!Decided \cup {"snapshot", "cpu", "linkedSandbox"}
    BY DEF Access!Fields, Access!CreateFields, Access!Values
  <1>3. /\ Access!Exact(b, "snapshot") = {"name"} /\ "key" \notin Access!Exact(b, "env")
        /\ sealed => "preload" \notin Access!Exact(b, "env") \/ Access!Exact(b, "env") = Access!Absent
    BY WrittenValues DEF Access!RequireSnapshotCreate, Access!SealAccepts
  <1> HIDE DEF o, sealed, ports, NotCreate, Bare
  <1>4. /\ Unique(c)
        /\ Access!Exact(c, "snapshot") = IF sealed THEN {"id"} ELSE {"name"}
        /\ Access!Exact(c, "env") = IF sealed THEN env \cup {"key", "certificate"} ELSE Access!Exact(b, "env")
        /\ \A f : f \notin {"snapshot", "env", "seal_id"} => Access!Exact(c, f) = Access!Exact(o, f)
        /\ \A f \in Bare : Access!Spelled(c, f, "folded") = {}
    BY <1>1, <1>3, SealInjected
  <1> HIDE DEF c
  <1>5. sealed <=> "key" \in Access!Exact(c, "env")
    BY <1>3, <1>4
  <1>6. ASSUME NEW k \in Access!Spellings
        PROVE  \A f \in Bare : Access!Folded(c, f, k) = Access!Exact(c, f)
    BY <1>4, OneSpelling
  <1>7. "mine" \in Access!Exact(c, "labels") /\ "theirs" \notin Access!Exact(c, "labels")
        /\ (sealed => "sealed" \in Access!Exact(c, "labels"))
    BY <1>1, <1>4 DEF Access!OwnLabels
  <1>8. sealed => {"forgedKey", "preload"} \cap Access!Exact(c, "env") = {}
    BY <1>3, <1>4 DEF Access!Absent
  <1>9. \A f \in {"sealed", "volumes"} \cup NotCreate : f \in Bare /\ Access!Exact(c, f) = Access!Absent
    BY <1>1, <1>2, <1>4 DEF Access!Decided
  <1>10. Decides(c, ports)
    <2>1. "snapshot" \in Bare /\ "public" \in Bare /\ "publicPorts" \in Bare /\ "autoDeleteInterval" \in Bare
      BY <1>2 DEF Access!Decided
    <2>2. /\ Access!Exact(c, "public") = Access!Exact(o, "public")
          /\ Access!Exact(c, "publicPorts") = Access!Exact(o, "publicPorts")
          /\ Access!Exact(c, "autoDeleteInterval") = {"never"}
      BY <1>1, <1>4
    <2> QED BY <1>1, <1>4, <1>5, <1>6, <1>7, <1>8, <1>9, <2>1, <2>2 DEF Decides, NotCreate
  <1> QED BY <1>10 DEF c, sealed, ports, o

\* A request on the sandbox is its creator's; the labels it read are protected as
\* they are now, and it was let in only if they do not say sealed.
IsRequest(c, r) ==
    /\ r.step # "idle" => Access!Exists /\ c = Creator
    /\ r.step = "read" => r.current \cap Access!Protected = sandbox.labels \cap Access!Protected
    /\ r.step = "cleared" => "sealed" \notin sandbox.labels

\* Before Daytona has answered there is nothing to see; afterwards the labels tell
\* the owner and the seal.
AccessInv ==
    /\ requests = [c \in Clients |-> requests[c]]
    /\ sandbox = [labels |-> sandbox.labels, env |-> sandbox.env, reach |-> sandbox.reach,
                  volumes |-> sandbox.volumes]
    /\ IsBody(body)
    /\ phase \in {"writing", "forwarded", "running", "refused", "given", "orphan", "stopped"}
    /\ phase = "forwarded" => Decides(forwarded, asked)
    /\ ~Access!Exists => sandbox = Access!NoSandbox /\ opened = {} /\ shown = {}
    /\ Access!Exists =>
          /\ "mine" \in sandbox.labels /\ "theirs" \notin sandbox.labels
          /\ "key" \in sandbox.env =>
                "sealed" \in sandbox.labels /\ {"forgedKey", "preload"} \cap sandbox.env = {}
    /\ phase \in {"running", "given"} /\ (fork \/ asked = Access!Absent) =>
          \/ sandbox.reach \subseteq asked \cup (IF "key" \in sandbox.env THEN {"agent"} ELSE {})
          \/ ~fork /\ asked = Access!Absent /\ "key" \in sandbox.env
    /\ phase = "given" => fork \/ asked = Access!Absent
    /\ \A c \in Clients : IsRequest(c, requests[c])
    /\ opened # {} => "sealed" \notin sandbox.labels
    /\ opened \subseteq {Creator} /\ shown \subseteq {Creator} \cup Admins
    /\ sandbox.volumes = Access!Absent
    /\ told = {}


\* The answer of a request carries no secret.
LEMMA NothingTold ==
    ASSUME told = {}, NEW c, NEW compress, Access!Show(c, compress)
    PROVE  told' = {} /\ shown' = shown \cup {c}
  <1>1. Access!Carried(compress) \cap {"key", "ticket"} = {}
    BY DEF Access!Carried, Access!Encoded, Access!SecretResponseEnv
  <1> QED BY <1>1 DEF Access!Show

\* A request that starts, moves on without touching the sandbox, or ends.
LEMMA RequestMoves ==
    ASSUME AccessInv, NEW c \in Clients, NEW r, requests' = [requests EXCEPT ![c] = r],
           IsRequest(c, r), UNCHANGED <<body, phase, forwarded, asked, fork, sandbox, opened, told>>,
           shown' \subseteq {Creator} \cup Admins, shown' = shown \/ Access!Exists
    PROVE  AccessInv'
  <1>1. \A d \in Clients : IsRequest(d, requests'[d])
    BY DEF AccessInv
  <1>2. \A d \in Clients : IsRequest(d, requests[d])'
    BY <1>1 DEF IsRequest, Access!Exists
  <1> QED BY <1>2 DEF AccessInv, Access!Exists

\* The invariant is kept by every step of the callers, the proxy and Daytona.
LEMMA AccessKept ==
    ASSUME AccessInv, [Access!Next]_Access!vars
    PROVE  AccessInv'
  <1> USE DEF Access!record
  <1>1. ASSUME NEW f \in Access!Fields, NEW s \in Access!Spellings, NEW v \in Access!Values[f],
               Access!AddField(f, s, v)
        PROVE  AccessInv'
    <2> DEFINE n == Access!Entry(f, s, v)
    <2>1. n.field = f /\ n.spelling = s /\ n.value = v
      BY DEF Access!Entry
    <2>2. body' = body \cup {n} /\ Access!Spelled(body, f, s) = {} /\ IsBody(body)
      BY <1>1 DEF Access!AddField, AccessInv
    <2> HIDE DEF n
    <2>3. IsBody(body')
      BY <2>1, <2>2 DEF IsBody, Unique, Access!Spelled
    <2>4. IsBody(body)'
      BY <2>3 DEF IsBody, Unique
    <2>5. phase = "writing" /\ UNCHANGED <<phase, forwarded, asked, fork, sandbox, requests, opened, shown, told>>
      BY <1>1 DEF Access!AddField
    <2> QED BY <2>4, <2>5 DEF AccessInv, IsRequest, Access!Exists
  <1>2. ASSUME NEW last \in Access!Spellings, Access!Submit(last) PROVE AccessInv'
    <2>1. phase = "writing" /\ body' = {} /\ UNCHANGED <<fork, sandbox, requests, opened, shown, told>>
      BY <1>2 DEF Access!Submit
    <2>2. phase' \in {"forwarded", "refused"} /\ (phase' = "forwarded" => Decides(forwarded', asked'))
      BY <1>2, CreateDecides DEF Access!Submit, AccessInv
    <2>3. IsBody({})
      BY DEF IsBody, Unique
    <2>4. (phase' = "forwarded" => Decides(forwarded, asked)')
      BY <2>2 DEF Decides
    <2>5. IsBody(body)'
      BY <2>1, <2>3
    <2> QED BY <2>1, <2>2, <2>4, <2>5 DEF AccessInv, IsRequest, Access!Exists
  <1>3. CASE Access!Provision
    <2>1. /\ phase = "forwarded" /\ phase' = "running" /\ Decides(forwarded, asked)
          /\ sandbox' = [labels |-> Access!Exact(forwarded, "labels"),
                         env |-> Access!Exact(forwarded, "env") \ Access!Absent,
                         reach |-> Access!Reach(forwarded), volumes |-> Access!Exact(forwarded, "volumes")]
          /\ UNCHANGED <<body, forwarded, asked, fork, requests, opened, shown, told>>
      BY <1>3 DEF Access!Provision, AccessInv
    <2>2. "key" \in sandbox'.env <=> "key" \in Access!Exact(forwarded, "env")
      BY <2>1 DEF Access!Absent
    <2>3. (fork \/ asked = Access!Absent) =>
              \/ sandbox'.reach \subseteq asked \cup (IF "key" \in sandbox'.env THEN {"agent"} ELSE {})
              \/ ~fork /\ asked = Access!Absent /\ "key" \in sandbox'.env
      <3>1. sandbox'.reach = Access!Reach(forwarded)
        BY <2>1
      <3>2. "agent" # "absent" /\ {"agent"} # Access!Absent
        BY DEF Access!Absent
      <3>3. Access!Exact(forwarded, "public") = {"true"} =>
              IF asked # Access!Absent THEN Access!Exact(forwarded, "publicPorts") = asked
              ELSE "key" \in sandbox'.env /\ Access!Exact(forwarded, "publicPorts") = {"agent"}
        BY <2>1, <2>2 DEF Decides
      <3>4. CASE Access!Exact(forwarded, "public") # {"true"}
        <4>1. Access!Reach(forwarded) = {}
          BY <3>4 DEF Access!Reach
        <4> QED BY <3>1, <4>1
      <3>5. CASE Access!Exact(forwarded, "public") = {"true"} /\ fork
        <4>1. Access!Reach(forwarded) = Access!Exact(forwarded, "publicPorts")
          BY <3>2, <3>3, <3>5 DEF Access!Reach
        <4> QED BY <3>1, <3>3, <3>5, <4>1
      <3>6. CASE Access!Exact(forwarded, "public") = {"true"} /\ ~fork
        BY <3>3, <3>6
      <3> QED BY <3>4, <3>5, <3>6
    <2>4. \A d \in Clients : requests[d].step = "idle"
      BY <2>1 DEF AccessInv, IsRequest, Access!Exists
    <2>5. opened = {} /\ shown = {} /\ told = {}
      BY <2>1 DEF AccessInv, Access!Exists
    <2>6. /\ "mine" \in sandbox'.labels /\ "theirs" \notin sandbox'.labels /\ sandbox'.volumes = Access!Absent
          /\ "key" \in sandbox'.env =>
                "sealed" \in sandbox'.labels /\ {"forgedKey", "preload"} \cap sandbox'.env = {}
      BY <2>1, <2>2 DEF Decides
    <2> QED BY <2>1, <2>3, <2>4, <2>5, <2>6 DEF AccessInv, IsRequest, Access!Exists, IsBody, Unique
  <1>4. CASE Access!ProvisionFails
    BY <1>4 DEF Access!ProvisionFails, AccessInv, IsRequest, Access!Exists, IsBody, Unique
  <1>5. ASSUME NEW compress \in BOOLEAN, Access!Answer(compress) PROVE AccessInv'
    <2>1. /\ phase = "running" /\ UNCHANGED <<body, asked, fork, sandbox, requests, opened>>
          /\ phase' \in {"orphan", "given"} /\ (phase' = "given" => fork \/ asked = Access!Absent)
      BY <1>5 DEF Access!Answer, Access!Dropped, AccessInv
    <2>2. told' = {} /\ shown' \subseteq shown \cup {Creator}
      BY <1>5, NothingTold DEF Access!Answer, AccessInv
    <2> QED BY <2>1, <2>2 DEF AccessInv, IsRequest, Access!Exists, IsBody, Unique
  <1>6. CASE Access!StopOrphan
    BY <1>6 DEF Access!StopOrphan, AccessInv, IsRequest, Access!Exists, IsBody, Unique
  <1>a. Access!Exists => \A c : c \in Access!Owner(sandbox.labels) <=> c = Creator
    BY DEF AccessInv, Access!Owner
  <1>7. ASSUME NEW c \in Clients, NEW kind, Access!WithOwner(c, kind) PROVE AccessInv'
    <2>1. Access!Exists /\ c = Creator
      BY <1>7, <1>a DEF Access!WithOwner, Access!CheckOwner, Access!PathTraversalGuard
    <2>2. IsRequest(c, [kind |-> kind, step |-> "owned", current |-> {}])
      BY <2>1 DEF IsRequest
    <2> QED BY <1>7, <2>1, <2>2, RequestMoves DEF Access!WithOwner, Access!Ask, AccessInv
  <1>8. ASSUME NEW c \in Clients, Access!WithOwnerNotSealed(c) PROVE AccessInv'
    <2>1. Access!Exists /\ c = Creator /\ "sealed" \notin sandbox.labels
      BY <1>8, <1>a DEF Access!WithOwnerNotSealed, Access!CheckOwner, Access!PathTraversalGuard, Access!IsSealedSandbox
    <2>2. IsRequest(c, [kind |-> "inside", step |-> "cleared", current |-> {}])
      BY <2>1 DEF IsRequest
    <2> QED BY <1>8, <2>1, <2>2, RequestMoves DEF Access!WithOwnerNotSealed, Access!Ask, AccessInv
  <1>b. \A c : IsRequest(c, Access!Idle)
    BY DEF IsRequest, Access!Idle
  <1>9. ASSUME NEW c \in Clients, Access!ReadForSSH(c) PROVE AccessInv'
    <2>1. Access!Exists /\ c = Creator
      BY <1>9 DEF Access!ReadForSSH, AccessInv, IsRequest
    <2>2. "sealed" \notin sandbox.labels => IsRequest(c, [kind |-> "inside", step |-> "cleared", current |-> {}])
      BY <2>1 DEF IsRequest
    <2>3. \E r : requests' = [requests EXCEPT ![c] = r] /\ IsRequest(c, r)
      BY <1>9, <1>b, <2>2 DEF Access!ReadForSSH, Access!Ask, Access!Done, Access!IsSealedSandbox
    <2> QED BY <1>9, <2>1, <2>3, RequestMoves DEF Access!ReadForSSH, AccessInv
  <1>10. ASSUME NEW c \in Clients, NEW compress \in BOOLEAN, Access!Enter(c, compress) PROVE AccessInv'
    <2>1. /\ Access!Exists /\ c = Creator /\ "sealed" \notin sandbox.labels /\ opened' = opened \cup {c}
          /\ requests' = [requests EXCEPT ![c] = Access!Idle]
          /\ UNCHANGED <<body, phase, forwarded, asked, fork>>
          /\ Access!Show(c, compress)
      BY <1>10 DEF Access!Enter, AccessInv, IsRequest, Access!Done
    <2>2. told' = {} /\ shown' = shown \cup {c}
      BY <2>1, NothingTold DEF AccessInv
    <2>3. sandbox' = [sandbox EXCEPT !.volumes = Access!Absent]
      BY <1>10 DEF Access!Enter, Access!StripVolumes
    <2>4. /\ sandbox'.labels = sandbox.labels /\ sandbox'.env = sandbox.env /\ sandbox'.reach = sandbox.reach
          /\ sandbox'.volumes = Access!Absent
          /\ sandbox' = [labels |-> sandbox'.labels, env |-> sandbox'.env, reach |-> sandbox'.reach,
                         volumes |-> sandbox'.volumes]
      BY <2>3 DEF AccessInv
    <2>5. \A d \in Clients : IsRequest(d, requests[d])'
      BY <1>b, <2>1, <2>4 DEF AccessInv, IsRequest, Access!Exists
    <2>6. Access!Exists' /\ (phase = "forwarded" => Decides(forwarded, asked)') /\ IsBody(body)'
      BY <2>1 DEF AccessInv, Access!Exists, IsBody, Unique
    <2> QED BY <2>1, <2>2, <2>4, <2>5, <2>6 DEF AccessInv
  <1>11. ASSUME NEW c \in Clients, Access!ReadForLabels(c) PROVE AccessInv'
    <2> DEFINE r == [requests[c] EXCEPT !.step = "read", !.current = sandbox.labels]
    <2>1. IsRequest(c, r) /\ Access!Exists
      BY <1>11 DEF Access!ReadForLabels, AccessInv, IsRequest
    <2>2. requests' = [requests EXCEPT ![c] = r]
      BY <1>11 DEF Access!ReadForLabels
    <2> HIDE DEF r
    <2> QED BY <1>11, <2>1, <2>2, RequestMoves DEF Access!ReadForLabels, AccessInv
  <1>12. ASSUME NEW c \in Clients, NEW payload, NEW compress \in BOOLEAN,
                Access!ReplaceLabels(c, payload, compress)
         PROVE  AccessInv'
    <2>1. /\ Access!Exists /\ c = Creator /\ UNCHANGED <<body, phase, forwarded, asked, fork, opened>>
          /\ requests' = [requests EXCEPT ![c] = Access!Idle]
          /\ requests[c].current \cap Access!Protected = sandbox.labels \cap Access!Protected
          /\ Access!Show(c, compress)
      BY <1>12 DEF Access!ReplaceLabels, AccessInv, IsRequest, Access!Done
    <2>2. told' = {} /\ shown' = shown \cup {c}
      BY <2>1, NothingTold DEF AccessInv
    <2>3. /\ sandbox'.labels = (payload \ Access!Protected) \cup (requests[c].current \cap Access!Protected)
          /\ sandbox'.env = sandbox.env /\ sandbox'.reach = sandbox.reach
          /\ sandbox'.volumes = sandbox.volumes
          /\ sandbox' = [labels |-> sandbox'.labels, env |-> sandbox'.env, reach |-> sandbox'.reach,
                         volumes |-> sandbox'.volumes]
      BY <1>12 DEF Access!ReplaceLabels, AccessInv, Access!MergeProtectedLabels
    <2>4. sandbox'.labels \cap Access!Protected = sandbox.labels \cap Access!Protected
      BY <2>1, <2>3
    <2>5. \A l \in {"mine", "theirs", "sealed"} : l \in sandbox'.labels <=> l \in sandbox.labels
      BY <2>4 DEF Access!Protected
    <2>6. \A d \in Clients : IsRequest(d, requests[d])'
      BY <1>b, <2>1, <2>4, <2>5 DEF AccessInv, IsRequest, Access!Exists
    <2>7. Access!Exists' /\ IsBody(body)' /\ (phase' = "forwarded" => Decides(forwarded, asked)')
      BY <2>1 DEF AccessInv, Access!Exists, IsBody, Unique
    <2> QED BY <2>1, <2>2, <2>3, <2>5, <2>6, <2>7 DEF AccessInv
  <1>13. ASSUME NEW c \in Clients, NEW compress \in BOOLEAN, Access!Get(c, compress) PROVE AccessInv'
    <2>1. Access!Exists /\ c \in {Creator} \cup Admins /\ UNCHANGED <<body, phase, forwarded, asked, fork, sandbox, requests, opened>>
      BY <1>13, <1>a DEF Access!Get, Access!CheckOwner, Access!PathTraversalGuard
    <2>2. told' = {} /\ shown' = shown \cup {c}
      BY <1>13, NothingTold DEF AccessInv, Access!Get
    <2> QED BY <2>1, <2>2 DEF AccessInv, IsRequest, Access!Exists, IsBody, Unique, Decides
  <1>14. ASSUME NEW c \in Clients, Access!HandleList(c) PROVE AccessInv'
    <2>1. Access!Exists /\ c = Creator /\ shown' = shown \cup {c}
          /\ UNCHANGED <<body, phase, forwarded, asked, fork, sandbox, requests, opened, told>>
      BY <1>14, <1>a DEF Access!HandleList, Access!ListSandboxes
    <2> QED BY <2>1 DEF AccessInv, IsRequest, Access!Exists, IsBody, Unique, Decides
  <1>15. CASE UNCHANGED Access!vars
    BY <1>15 DEF Access!vars, AccessInv, IsRequest, Access!Exists, IsBody, Unique, Decides
  <1> QED BY <1>1, <1>2, <1>3, <1>4, <1>5, <1>6, <1>7, <1>8, <1>9, <1>10, <1>11, <1>12, <1>13, <1>14, <1>15
      DEF Access!Next, Access!HandleCreate, Access!Register, Access!HandleCatchAll

\* At the start there is no sandbox and an empty body.
LEMMA AccessInit == ASSUME Access!Init PROVE AccessInv
  BY DEF Access!Init, AccessInv, IsBody, Unique, IsRequest, Access!Exists, Access!NoSandbox, Access!Idle

\* A create becomes what was asked and allowed: the proxy and Daytona read one
\* request in one body, and a sandbox whose ports Daytona ignored is not handed over.
THEOREM CreatesAreAsAsked == ProxySpec => []CreateAsAsked
  <1>1. AccessInv => CreateAsAsked
    BY DEF CreateAsAsked, AccessInv, Access!CreateAsAsked, Access!OneReading, Access!PortsAsAsked, Decides
  <1>2. ProxyInit => AccessInv
    BY AccessInit DEF ProxyInit
  <1>3. AccessInv /\ [ProxyNext]_proxyVars => AccessInv'
    BY OnePartMoves, AccessKept
  <1> QED BY <1>1, <1>2, <1>3, PTL DEF ProxySpec

\* A sealed sandbox stays closed whatever becomes of its labels, nobody but its
\* creator and the operators reaches any, and the secrets in Daytona's answers stay
\* with the proxy.
THEOREM SandboxesAreGuarded == ProxySpec => []Guarded
  <1>1. AccessInv => Guarded
    BY DEF Guarded, AccessInv, Access!Guarded, Access!SealedStaysClosed, Access!OwnerOnly, Access!SecretsKept, Access!NoSandbox
  <1>2. ProxyInit => AccessInv
    BY AccessInit DEF ProxyInit
  <1>3. AccessInv /\ [ProxyNext]_proxyVars => AccessInv'
    BY OnePartMoves, AccessKept
  <1> QED BY <1>1, <1>2, <1>3, PTL DEF ProxySpec

-----------------------------------------------------------------------------
(* The backlog (VoucherBacklog): its loops, voucher by voucher. *)

\* The units of usage, and a voucher of a backlog (models the entries of the queue and the held list).
Units == 1..MaxEntries
BV == [user : Users \cup {Backlog!Debtor}, sandbox : Sandboxes \cup {Backlog!NoSandbox},
       uses : Seq(Units), agg : BOOLEAN]

\* The units of a list are put together voucher by voucher.
LEMMA UsesByOne ==
    /\ Backlog!Uses(<<>>) = <<>>
    /\ \A s \in Seq(BV) : Backlog!Uses(s) \in Seq(Units)
    /\ \A s \in Seq(BV), e \in BV : Backlog!Uses(Append(s, e)) = Backlog!Uses(s) \o e.uses
  <1> DEFINE V == Seq(Units)
             O == [p \in V \X BV |-> p[1] \o p[2].uses]
  <1>1. ASSUME NEW a \in V, NEW e \in BV PROVE a \o e.uses \in V
    <2>1. e.uses \in Seq(Units)
      BY DEF BV
    <2> QED BY <2>1
  <1>2. \A a \in V, e \in BV : O[<<a, e>>] = a \o e.uses /\ a \o e.uses \in V
    BY <1>1
  <1>3. Steps(O, V, BV) /\ <<>> \in V
    BY <1>1 DEF Steps
  <1> HIDE DEF O, V
  <1>4. ASSUME NEW s \in Seq(BV) PROVE Backlog!Uses(s) = FoldOf(O, V, <<>>, s)
    <2> DEFINE Def(g) == g = [t \in SUBSET DOMAIN s |->
                                 IF t = {} THEN <<>> ELSE g[t \ {Max(t)}] \o s[Max(t)].uses]
               f == CHOOSE g : Def(g)
    <2>1. Backlog!Uses(s) = f[DOMAIN s]
      BY DEF Backlog!Uses, Backlog!FoldLeft, Backlog!MapThenFoldSet, Backlog!Max, Max
    <2>2. PICK it : Iter(it, O, V, BV, <<>>, s)
      BY <1>3, IterExists
    <2>3. Def(it)
      BY <1>2, <2>2 DEF Iter
    <2>4. Def(f)
      BY <2>3, Zenon
    <2> HIDE DEF f
    <2>5. IterOf(f, O, V, BV, <<>>, s)
      BY <1>2, <2>4 DEF IterOf
    <2> QED BY <1>3, <2>1, <2>5, IterIsFold
  <1>5. /\ FoldOf(O, V, <<>>, <<>>) = <<>> /\ \A s \in Seq(BV) : FoldOf(O, V, <<>>, s) \in V
        /\ \A s \in Seq(BV), e \in BV : FoldOf(O, V, <<>>, Append(s, e)) = O[<<FoldOf(O, V, <<>>, s), e>>]
    BY <1>3, FoldByOne
  <1>6. <<>> \in Seq(BV) /\ \A s \in Seq(BV), e \in BV : Append(s, e) \in Seq(BV)
    OBVIOUS
  <1>7. \A s \in Seq(BV) : Backlog!Uses(s) \in V
    BY <1>4, <1>5
  <1>8. ASSUME NEW s \in Seq(BV), NEW e \in BV PROVE Backlog!Uses(Append(s, e)) = Backlog!Uses(s) \o e.uses
    <2>1. Backlog!Uses(Append(s, e)) = O[<<Backlog!Uses(s), e>>]
      BY <1>4, <1>5, <1>6, Zenon
    <2> QED BY <1>2, <1>7, <2>1, Zenon
  <1>9. Backlog!Uses(<<>>) = <<>>
    BY <1>4, <1>5, <1>6, Zenon
  <1> QED BY <1>7, <1>8, <1>9 DEF V

\* A fee is a number.
LEMMA FeeIsNat ==
    ASSUME NEW v \in BV PROVE Backlog!TotalFee(v) \in Nat
  <1> DEFINE s == v.uses   N == Nat   b == 0
             O == [p \in N \X Units |-> p[1] + FeeOf[p[2]]]
             Def(g) == g = [t \in SUBSET DOMAIN s |->
                               IF t = {} THEN b ELSE g[t \ {Max(t)}] + FeeOf[s[Max(t)]]]
             f == CHOOSE g : Def(g)
  <1>1. \A a \in N, x \in Units : O[<<a, x>>] = a + FeeOf[x] /\ a + FeeOf[x] \in N
    BY BacklogAssumption DEF Units
  <1>2. Steps(O, N, Units) /\ b \in N
    BY BacklogAssumption DEF Steps, Units
  <1>3. s \in Seq(Units)
    BY DEF BV
  <1>4. Backlog!TotalFee(v) = f[DOMAIN s]
    BY DEF Backlog!TotalFee, Backlog!FoldLeft, Backlog!MapThenFoldSet, Backlog!Max, Max
  <1> HIDE DEF O, s, N, b
  <1>5. PICK it : Iter(it, O, N, Units, b, s)
    BY <1>2, <1>3, IterExists
  <1>6. Def(it)
    BY <1>1, <1>5 DEF Iter
  <1>7. Def(f)
    BY <1>6, Zenon
  <1> HIDE DEF f
  <1>8. IterOf(f, O, N, Units, b, s)
    BY <1>1, <1>7 DEF IterOf
  <1>9. f[DOMAIN s] = FoldOf(O, N, b, s)
    BY <1>2, <1>3, <1>8, IterIsFold
  <1>10. FoldOf(O, N, b, s) \in N
    BY <1>2, <1>3, FoldByOne
  <1> QED BY <1>4, <1>9, <1>10 DEF N

\* The fees of a list are added up voucher by voucher.
LEMMA FeesByOne ==
    /\ Backlog!FeeOfAll(<<>>) = 0
    /\ \A s \in Seq(BV) : Backlog!FeeOfAll(s) \in Nat
    /\ \A s \in Seq(BV), e \in BV : Backlog!FeeOfAll(Append(s, e)) = Backlog!FeeOfAll(s) + Backlog!TotalFee(e)
  <1> DEFINE V == Nat
             O == [p \in V \X BV |-> p[1] + Backlog!TotalFee(p[2])]
  <1>1. ASSUME NEW a \in V, NEW e \in BV PROVE a + Backlog!TotalFee(e) \in V
    BY FeeIsNat
  <1>2. \A a \in V, e \in BV : O[<<a, e>>] = a + Backlog!TotalFee(e) /\ a + Backlog!TotalFee(e) \in V
    BY <1>1
  <1>3. Steps(O, V, BV) /\ 0 \in V
    BY <1>1 DEF Steps
  <1> HIDE DEF O, V
  <1>4. ASSUME NEW s \in Seq(BV) PROVE Backlog!FeeOfAll(s) = FoldOf(O, V, 0, s)
    <2> DEFINE Def(g) == g = [t \in SUBSET DOMAIN s |->
                                 IF t = {} THEN 0 ELSE g[t \ {Max(t)}] + Backlog!TotalFee(s[Max(t)])]
               f == CHOOSE g : Def(g)
    <2>1. Backlog!FeeOfAll(s) = f[DOMAIN s]
      BY DEF Backlog!FeeOfAll, Backlog!FoldLeft, Backlog!MapThenFoldSet, Backlog!Max, Max
    <2>2. PICK it : Iter(it, O, V, BV, 0, s)
      BY <1>3, IterExists
    <2>3. Def(it)
      BY <1>2, <2>2 DEF Iter
    <2>4. Def(f)
      BY <2>3, Zenon
    <2> HIDE DEF f
    <2>5. IterOf(f, O, V, BV, 0, s)
      BY <1>2, <2>4 DEF IterOf
    <2> QED BY <1>3, <2>1, <2>5, IterIsFold
  <1>5. /\ FoldOf(O, V, 0, <<>>) = 0 /\ \A s \in Seq(BV) : FoldOf(O, V, 0, s) \in V
        /\ \A s \in Seq(BV), e \in BV : FoldOf(O, V, 0, Append(s, e)) = O[<<FoldOf(O, V, 0, s), e>>]
    BY <1>3, FoldByOne
  <1>6. <<>> \in Seq(BV) /\ \A s \in Seq(BV), e \in BV : Append(s, e) \in Seq(BV)
    OBVIOUS
  <1>7. \A s \in Seq(BV) : Backlog!FeeOfAll(s) \in V
    BY <1>4, <1>5
  <1>8. ASSUME NEW s \in Seq(BV), NEW e \in BV PROVE Backlog!FeeOfAll(Append(s, e)) = Backlog!FeeOfAll(s) + Backlog!TotalFee(e)
    <2>1. Backlog!FeeOfAll(Append(s, e)) = O[<<Backlog!FeeOfAll(s), e>>]
      BY <1>4, <1>5, <1>6, Zenon
    <2> QED BY <1>2, <1>7, <2>1, Zenon
  <1>9. Backlog!FeeOfAll(<<>>) = 0
    BY <1>4, <1>5, <1>6, Zenon
  <1> QED BY <1>7, <1>8, <1>9 DEF V

\* A voucher with other units.
LEMMA WithUnits ==
    ASSUME NEW o \in BV, NEW c \in Seq(Units)
    PROVE  \E w \in BV : /\ w = [o EXCEPT !.uses = c, !.agg = TRUE]
                         /\ w.user = o.user /\ w.sandbox = o.sandbox /\ w.uses = c /\ w.agg
  <1> DEFINE w == [o EXCEPT !.uses = c, !.agg = TRUE]
  <1>1. w \in BV /\ w.user = o.user /\ w.sandbox = o.sandbox
    BY DEF BV
  <1>2. w.uses = c
    BY DEF BV
  <1>3. w.agg = TRUE
    BY DEF BV
  <1> HIDE DEF w
  <1>4. w.agg
    BY <1>3
  <1> QED BY <1>1, <1>2, <1>4 DEF w

\* r is out with w, which bills the units of out[i] and of v, in the i-th place.
IsAbsorbed(r, out, i, v, w) ==
    /\ r = [out EXCEPT ![i] = w]
    /\ w.user = out[i].user /\ w.sandbox = out[i].sandbox
    /\ w.uses = out[i].uses \o v.uses /\ w.agg

\* Absorbing a voucher changes the units and the flag of one entry.
LEMMA AbsorbIs ==
    ASSUME NEW out \in Seq(BV), NEW i \in DOMAIN out, NEW v \in BV
    PROVE  \E w \in BV : IsAbsorbed(Backlog!Absorb(out, i, v), out, i, v, w)
  <1> DEFINE o == out[i]   c == o.uses \o v.uses
  <1>1. o \in BV
    OBVIOUS
  <1>2. Backlog!Absorb(out, i, v) = [out EXCEPT ![i] = [o EXCEPT !.uses = c, !.agg = TRUE]]
    BY DEF Backlog!Absorb
  <1> HIDE DEF o
  <1>3. c \in Seq(Units)
    <2>1. o.uses \in Seq(Units) /\ v.uses \in Seq(Units)
      BY <1>1 DEF BV
    <2> QED BY <2>1
  <1> HIDE DEF c
  <1>4. PICK w \in BV : /\ w = [o EXCEPT !.uses = c, !.agg = TRUE]
                         /\ w.user = o.user /\ w.sandbox = o.sandbox /\ w.uses = c /\ w.agg
    BY <1>1, <1>3, WithUnits
  <1> QED BY <1>2, <1>4, Zenon DEF c, o, IsAbsorbed

\* Merging a voucher leaves a list of vouchers.
LEMMA MergeTyped ==
    ASSUME NEW out \in Seq(BV), NEW v \in BV PROVE Backlog!MergeInto(out, v) \in Seq(BV)
  <1> DEFINE hits == {j \in DOMAIN out : Backlog!SameSandbox(out[j], v)}
  <1>1. CASE hits = {}
    BY <1>1 DEF Backlog!MergeInto
  <1>2. CASE hits # {}
    <2>1. PICK i \in DOMAIN out : Backlog!MergeInto(out, v) = Backlog!Absorb(out, i, v)
      BY <1>2 DEF Backlog!MergeInto
    <2>2. PICK w \in BV : IsAbsorbed(Backlog!Absorb(out, i, v), out, i, v, w)
      BY AbsorbIs
    <2> QED BY <2>1, <2>2 DEF IsAbsorbed
  <1> QED BY <1>1, <1>2

\* The collapse merges voucher after voucher.
LEMMA CollapseByOne ==
    /\ Backlog!CollapseBySandbox(<<>>) = <<>>
    /\ \A s \in Seq(BV) : Backlog!CollapseBySandbox(s) \in Seq(BV)
    /\ \A s \in Seq(BV), e \in BV : Backlog!CollapseBySandbox(Append(s, e)) = Backlog!MergeInto(Backlog!CollapseBySandbox(s), e)
  <1> DEFINE V == Seq(BV)
             O == [p \in V \X BV |-> Backlog!MergeInto(p[1], p[2])]
  <1>1. ASSUME NEW a \in V, NEW e \in BV PROVE Backlog!MergeInto(a, e) \in V
    BY MergeTyped
  <1>2. \A a \in V, e \in BV : O[<<a, e>>] = Backlog!MergeInto(a, e) /\ Backlog!MergeInto(a, e) \in V
    BY <1>1
  <1>3. Steps(O, V, BV) /\ <<>> \in V
    BY <1>1 DEF Steps
  <1> HIDE DEF O, V
  <1>4. ASSUME NEW s \in Seq(BV) PROVE Backlog!CollapseBySandbox(s) = FoldOf(O, V, <<>>, s)
    <2> DEFINE Def(g) == g = [t \in SUBSET DOMAIN s |->
                                 IF t = {} THEN <<>> ELSE Backlog!MergeInto(g[t \ {Max(t)}], s[Max(t)])]
               f == CHOOSE g : Def(g)
    <2>1. Backlog!CollapseBySandbox(s) = f[DOMAIN s]
      BY DEF Backlog!CollapseBySandbox, Backlog!FoldLeft, Backlog!MapThenFoldSet, Backlog!Max, Max
    <2>2. PICK it : Iter(it, O, V, BV, <<>>, s)
      BY <1>3, IterExists
    <2>3. Def(it)
      BY <1>2, <2>2 DEF Iter
    <2>4. Def(f)
      BY <2>3, Zenon
    <2> HIDE DEF f
    <2>5. IterOf(f, O, V, BV, <<>>, s)
      BY <1>2, <2>4 DEF IterOf
    <2> QED BY <1>3, <2>1, <2>5, IterIsFold
  <1>5. /\ FoldOf(O, V, <<>>, <<>>) = <<>> /\ \A s \in Seq(BV) : FoldOf(O, V, <<>>, s) \in V
        /\ \A s \in Seq(BV), e \in BV : FoldOf(O, V, <<>>, Append(s, e)) = O[<<FoldOf(O, V, <<>>, s), e>>]
    BY <1>3, FoldByOne
  <1>6. <<>> \in Seq(BV) /\ \A s \in Seq(BV), e \in BV : Append(s, e) \in Seq(BV)
    OBVIOUS
  <1>7. \A s \in Seq(BV) : Backlog!CollapseBySandbox(s) \in V
    BY <1>4, <1>5
  <1>8. ASSUME NEW s \in Seq(BV), NEW e \in BV PROVE Backlog!CollapseBySandbox(Append(s, e)) = Backlog!MergeInto(Backlog!CollapseBySandbox(s), e)
    <2>1. Backlog!CollapseBySandbox(Append(s, e)) = O[<<Backlog!CollapseBySandbox(s), e>>]
      BY <1>4, <1>5, <1>6, Zenon
    <2> QED BY <1>2, <1>7, <2>1, Zenon
  <1>9. Backlog!CollapseBySandbox(<<>>) = <<>>
    BY <1>4, <1>5, <1>6, Zenon
  <1> QED BY <1>7, <1>8, <1>9 DEF V

\* The entries of some users are picked out one by one.
LEMMA EntriesByOne ==
    ASSUME NEW S
    PROVE  /\ Backlog!EntriesOf(<<>>, S) = <<>>
           /\ \A s \in Seq(BV) : Backlog!EntriesOf(s, S) \in Seq(BV)
           /\ \A s \in Seq(BV), e \in BV : Backlog!EntriesOf(Append(s, e), S) = (IF e.user \in S THEN Append(Backlog!EntriesOf(s, S), e) ELSE Backlog!EntriesOf(s, S))
  <1> DEFINE V == Seq(BV)
             O == [p \in V \X BV |-> (IF p[2].user \in S THEN Append(p[1], p[2]) ELSE p[1])]
  <1>1. ASSUME NEW a \in V, NEW e \in BV PROVE (IF e.user \in S THEN Append(a, e) ELSE a) \in V
    OBVIOUS
  <1>2. \A a \in V, e \in BV : O[<<a, e>>] = (IF e.user \in S THEN Append(a, e) ELSE a) /\ (IF e.user \in S THEN Append(a, e) ELSE a) \in V
    BY <1>1
  <1>3. Steps(O, V, BV) /\ <<>> \in V
    BY <1>1 DEF Steps
  <1> HIDE DEF O, V
  <1>4. ASSUME NEW s \in Seq(BV) PROVE Backlog!EntriesOf(s, S) = FoldOf(O, V, <<>>, s)
    <2> DEFINE Def(g) == g = [t \in SUBSET DOMAIN s |->
                                 IF t = {} THEN <<>> ELSE (IF s[Max(t)].user \in S THEN Append(g[t \ {Max(t)}], s[Max(t)]) ELSE g[t \ {Max(t)}])]
               f == CHOOSE g : Def(g)
    <2>1. Backlog!EntriesOf(s, S) = f[DOMAIN s]
      BY DEF Backlog!EntriesOf, Backlog!FoldLeft, Backlog!MapThenFoldSet, Backlog!Max, Max
    <2>2. PICK it : Iter(it, O, V, BV, <<>>, s)
      BY <1>3, IterExists
    <2>3. Def(it)
      BY <1>2, <2>2 DEF Iter
    <2>4. Def(f)
      BY <2>3, Zenon
    <2> HIDE DEF f
    <2>5. IterOf(f, O, V, BV, <<>>, s)
      BY <1>2, <2>4, ZenonT(40) DEF IterOf
    <2> QED BY <1>3, <2>1, <2>5, IterIsFold
  <1>5. /\ FoldOf(O, V, <<>>, <<>>) = <<>> /\ \A s \in Seq(BV) : FoldOf(O, V, <<>>, s) \in V
        /\ \A s \in Seq(BV), e \in BV : FoldOf(O, V, <<>>, Append(s, e)) = O[<<FoldOf(O, V, <<>>, s), e>>]
    BY <1>3, FoldByOne
  <1>6. <<>> \in Seq(BV) /\ \A s \in Seq(BV), e \in BV : Append(s, e) \in Seq(BV)
    OBVIOUS
  <1>7. \A s \in Seq(BV) : Backlog!EntriesOf(s, S) \in V
    BY <1>4, <1>5
  <1>8. ASSUME NEW s \in Seq(BV), NEW e \in BV PROVE Backlog!EntriesOf(Append(s, e), S) = (IF e.user \in S THEN Append(Backlog!EntriesOf(s, S), e) ELSE Backlog!EntriesOf(s, S))
    <2>1. Backlog!EntriesOf(Append(s, e), S) = O[<<Backlog!EntriesOf(s, S), e>>]
      BY <1>4, <1>5, <1>6, Zenon
    <2> QED BY <1>2, <1>7, <2>1, Zenon
  <1>9. Backlog!EntriesOf(<<>>, S) = <<>>
    BY <1>4, <1>5, <1>6, Zenon
  <1> QED BY <1>7, <1>8, <1>9 DEF V

\* So are those of a group.
LEMMA GroupByOne ==
    ASSUME NEW v
    PROVE  /\ Backlog!GroupOf(<<>>, v) = <<>>
           /\ \A s \in Seq(BV) : Backlog!GroupOf(s, v) \in Seq(BV)
           /\ \A s \in Seq(BV), e \in BV : Backlog!GroupOf(Append(s, e), v) = (IF Backlog!InGroup(e, v) THEN Append(Backlog!GroupOf(s, v), e) ELSE Backlog!GroupOf(s, v))
  <1> DEFINE V == Seq(BV)
             O == [p \in V \X BV |-> (IF Backlog!InGroup(p[2], v) THEN Append(p[1], p[2]) ELSE p[1])]
  <1>1. ASSUME NEW a \in V, NEW e \in BV PROVE (IF Backlog!InGroup(e, v) THEN Append(a, e) ELSE a) \in V
    OBVIOUS
  <1>2. \A a \in V, e \in BV : O[<<a, e>>] = (IF Backlog!InGroup(e, v) THEN Append(a, e) ELSE a) /\ (IF Backlog!InGroup(e, v) THEN Append(a, e) ELSE a) \in V
    BY <1>1
  <1>3. Steps(O, V, BV) /\ <<>> \in V
    BY <1>1 DEF Steps
  <1> HIDE DEF O, V
  <1>4. ASSUME NEW s \in Seq(BV) PROVE Backlog!GroupOf(s, v) = FoldOf(O, V, <<>>, s)
    <2> DEFINE Def(g) == g = [t \in SUBSET DOMAIN s |->
                                 IF t = {} THEN <<>> ELSE (IF Backlog!InGroup(s[Max(t)], v) THEN Append(g[t \ {Max(t)}], s[Max(t)]) ELSE g[t \ {Max(t)}])]
               f == CHOOSE g : Def(g)
    <2>1. Backlog!GroupOf(s, v) = f[DOMAIN s]
      BY DEF Backlog!GroupOf, Backlog!FoldLeft, Backlog!MapThenFoldSet, Backlog!Max, Max
    <2>2. PICK it : Iter(it, O, V, BV, <<>>, s)
      BY <1>3, IterExists
    <2>3. Def(it)
      BY <1>2, <2>2 DEF Iter
    <2>4. Def(f)
      BY <2>3, Zenon
    <2> HIDE DEF f
    <2>5. IterOf(f, O, V, BV, <<>>, s)
      BY <1>2, <2>4 DEF IterOf
    <2> QED BY <1>3, <2>1, <2>5, IterIsFold
  <1>5. /\ FoldOf(O, V, <<>>, <<>>) = <<>> /\ \A s \in Seq(BV) : FoldOf(O, V, <<>>, s) \in V
        /\ \A s \in Seq(BV), e \in BV : FoldOf(O, V, <<>>, Append(s, e)) = O[<<FoldOf(O, V, <<>>, s), e>>]
    BY <1>3, FoldByOne
  <1>6. <<>> \in Seq(BV) /\ \A s \in Seq(BV), e \in BV : Append(s, e) \in Seq(BV)
    OBVIOUS
  <1>7. \A s \in Seq(BV) : Backlog!GroupOf(s, v) \in V
    BY <1>4, <1>5
  <1>8. ASSUME NEW s \in Seq(BV), NEW e \in BV PROVE Backlog!GroupOf(Append(s, e), v) = (IF Backlog!InGroup(e, v) THEN Append(Backlog!GroupOf(s, v), e) ELSE Backlog!GroupOf(s, v))
    <2>1. Backlog!GroupOf(Append(s, e), v) = O[<<Backlog!GroupOf(s, v), e>>]
      BY <1>4, <1>5, <1>6, Zenon
    <2> QED BY <1>2, <1>7, <2>1, Zenon
  <1>9. Backlog!GroupOf(<<>>, v) = <<>>
    BY <1>4, <1>5, <1>6, Zenon
  <1> QED BY <1>7, <1>8, <1>9 DEF V

Splits == [covered : Seq(BV), held : Seq(BV)]
NoSplit == [covered |-> <<>>, held |-> <<>>]

\* A turn of the split leaves two lists.
LEMMA TakeTyped ==
    ASSUME NEW a \in Splits, NEW v \in BV, NEW m PROVE Backlog!TakeWhileCovered(a, v, m) \in Splits
  <1>1. Append(a.covered, v) \in Seq(BV) /\ Append(a.held, v) \in Seq(BV)
    BY DEF Splits
  <1>2. [a EXCEPT !.covered = Append(@, v)] \in Splits /\ [a EXCEPT !.held = Append(@, v)] \in Splits
    BY <1>1 DEF Splits
  <1> QED BY <1>2 DEF Backlog!TakeWhileCovered

\* The split takes voucher after voucher.
LEMMA SplitByOne ==
    ASSUME NEW m
    PROVE  /\ Backlog!SplitBacklog(<<>>, m) = NoSplit
           /\ \A s \in Seq(BV) : Backlog!SplitBacklog(s, m) \in Splits
           /\ \A s \in Seq(BV), e \in BV : Backlog!SplitBacklog(Append(s, e), m) = Backlog!TakeWhileCovered(Backlog!SplitBacklog(s, m), e, m)
  <1> DEFINE V == Splits
             O == [p \in V \X BV |-> Backlog!TakeWhileCovered(p[1], p[2], m)]
  <1>1. ASSUME NEW a \in V, NEW e \in BV PROVE Backlog!TakeWhileCovered(a, e, m) \in V
    BY TakeTyped
  <1>2. \A a \in V, e \in BV : O[<<a, e>>] = Backlog!TakeWhileCovered(a, e, m) /\ Backlog!TakeWhileCovered(a, e, m) \in V
    BY <1>1
  <1>3. Steps(O, V, BV) /\ NoSplit \in V
    BY <1>1 DEF Steps, Splits, NoSplit
  <1> HIDE DEF O, V
  <1>4. ASSUME NEW s \in Seq(BV) PROVE Backlog!SplitBacklog(s, m) = FoldOf(O, V, NoSplit, s)
    <2> DEFINE Def(g) == g = [t \in SUBSET DOMAIN s |->
                                 IF t = {} THEN NoSplit ELSE Backlog!TakeWhileCovered(g[t \ {Max(t)}], s[Max(t)], m)]
               f == CHOOSE g : Def(g)
    <2>1. Backlog!SplitBacklog(s, m) = f[DOMAIN s]
      BY DEF Backlog!SplitBacklog, NoSplit, Backlog!FoldLeft, Backlog!MapThenFoldSet, Backlog!Max, Max
    <2>2. PICK it : Iter(it, O, V, BV, NoSplit, s)
      BY <1>3, IterExists
    <2>3. Def(it)
      BY <1>2, <2>2 DEF Iter
    <2>4. Def(f)
      BY <2>3, Zenon
    <2> HIDE DEF f
    <2>5. IterOf(f, O, V, BV, NoSplit, s)
      BY <1>2, <2>4 DEF IterOf
    <2> QED BY <1>3, <2>1, <2>5, IterIsFold
  <1>5. /\ FoldOf(O, V, NoSplit, <<>>) = NoSplit /\ \A s \in Seq(BV) : FoldOf(O, V, NoSplit, s) \in V
        /\ \A s \in Seq(BV), e \in BV : FoldOf(O, V, NoSplit, Append(s, e)) = O[<<FoldOf(O, V, NoSplit, s), e>>]
    BY <1>3, FoldByOne
  <1>6. <<>> \in Seq(BV) /\ \A s \in Seq(BV), e \in BV : Append(s, e) \in Seq(BV)
    OBVIOUS
  <1>7. \A s \in Seq(BV) : Backlog!SplitBacklog(s, m) \in V
    BY <1>4, <1>5
  <1>8. ASSUME NEW s \in Seq(BV), NEW e \in BV PROVE Backlog!SplitBacklog(Append(s, e), m) = Backlog!TakeWhileCovered(Backlog!SplitBacklog(s, m), e, m)
    <2>1. Backlog!SplitBacklog(Append(s, e), m) = O[<<Backlog!SplitBacklog(s, m), e>>]
      BY <1>4, <1>5, <1>6, Zenon
    <2> QED BY <1>2, <1>7, <2>1, Zenon
  <1>9. Backlog!SplitBacklog(<<>>, m) = NoSplit
    BY <1>4, <1>5, <1>6, Zenon
  <1> QED BY <1>7, <1>8, <1>9 DEF V

-----------------------------------------------------------------------------
(* The split of a backlog against a balance. *)

\* a splits p: what is covered comes first and fits, and the next voucher would not.
IsSplit(a, p, m) ==
    /\ a.covered \o a.held = p
    /\ Backlog!FeeOfAll(a.covered) <= m
    /\ a.held # <<>> => Backlog!FeeOfAll(a.covered) + Backlog!TotalFee(a.held[1]) > m

\* A turn of the loop keeps that.
LEMMA TakeSplits ==
    ASSUME NEW a \in Splits, NEW p \in Seq(BV), NEW v \in BV, NEW m \in Nat, IsSplit(a, p, m)
    PROVE  IsSplit(Backlog!TakeWhileCovered(a, v, m), Append(p, v), m)
  <1> DEFINE c == a.covered   h == a.held   r == Backlog!TakeWhileCovered(a, v, m)
  <1>1. c \in Seq(BV) /\ h \in Seq(BV) /\ c \o h = p
    BY DEF Splits, IsSplit
  <1>2. Backlog!FeeOfAll(c) \in Nat /\ Backlog!TotalFee(v) \in Nat
    BY <1>1, FeesByOne, FeeIsNat
  <1>3. CASE h = <<>> /\ Backlog!FeeOfAll(c) + Backlog!TotalFee(v) <= m
    <2>1. r.covered = Append(c, v) /\ r.held = <<>>
      BY <1>3 DEF Backlog!TakeWhileCovered, Splits
    <2>2. Backlog!FeeOfAll(Append(c, v)) = Backlog!FeeOfAll(c) + Backlog!TotalFee(v)
      BY <1>1, FeesByOne
    <2>3. Append(c, v) \o <<>> = Append(p, v)
      BY <1>1, <1>3
    <2> HIDE DEF c, h, r
    <2> QED BY <1>3, <2>1, <2>2, <2>3 DEF IsSplit, r
  <1>4. CASE ~(h = <<>> /\ Backlog!FeeOfAll(c) + Backlog!TotalFee(v) <= m)
    <2>1. r.covered = c /\ r.held = Append(h, v)
      BY <1>4 DEF Backlog!TakeWhileCovered, Splits
    <2>2. Backlog!FeeOfAll(c) <= m /\ (h # <<>> => Backlog!FeeOfAll(c) + Backlog!TotalFee(h[1]) > m)
      BY DEF IsSplit
    <2> HIDE DEF c, h, r
    <2>3. c \o Append(h, v) = Append(p, v)
      <3>1. c \in Seq(BV) /\ h \in Seq(BV)
        BY <1>1
      <3>2. c \o Append(h, v) = Append(c \o h, v)
        BY <3>1
      <3> QED BY <1>1, <3>2
    <2>4. Append(h, v)[1] = IF h = <<>> THEN v ELSE h[1]
      BY <1>1
    <2>5. Backlog!FeeOfAll(c) + Backlog!TotalFee(Append(h, v)[1]) > m
      <3>1. CASE h = <<>>
        BY <1>2, <1>4, <2>4, <3>1
      <3>2. CASE h # <<>>
        BY <2>2, <2>4, <3>2
      <3> QED BY <3>1, <3>2
    <2> QED BY <2>1, <2>2, <2>3, <2>5 DEF IsSplit, r
  <1> QED BY <1>3, <1>4

\* The split pays the longest prefix that fits.
LEMMA SplitIsRight ==
    ASSUME NEW mine \in Seq(BV), NEW m \in Nat
    PROVE  Backlog!SplitBacklog(mine, m) \in Splits /\ IsSplit(Backlog!SplitBacklog(mine, m), mine, m)
  <1> DEFINE X(s) == Backlog!SplitBacklog(s, m)
             T == {p \in Seq(BV) : IsSplit(X(p), p, m)}
  <1>1. /\ X(<<>>) = NoSplit /\ \A s \in Seq(BV) : X(s) \in Splits
        /\ \A s \in Seq(BV), e \in BV : X(Append(s, e)) = Backlog!TakeWhileCovered(X(s), e, m)
    BY SplitByOne
  <1> HIDE DEF X
  <1>2. <<>> \in T
    <2>1. NoSplit.covered = <<>> /\ NoSplit.held = <<>>
      BY DEF NoSplit
    <2>2. Backlog!FeeOfAll(<<>>) = 0
      BY FeesByOne
    <2>3. IsSplit(NoSplit, <<>>, m)
      BY <2>1, <2>2 DEF IsSplit
    <2> QED BY <1>1, <2>3
  <1>3. ASSUME NEW p \in Seq(BV), NEW v \in BV, p \in T PROVE Append(p, v) \in T
    <2>1. IsSplit(Backlog!TakeWhileCovered(X(p), v, m), Append(p, v), m)
      BY <1>1, <1>3, TakeSplits
    <2>2. Append(p, v) \in Seq(BV)
      OBVIOUS
    <2> QED BY <1>1, <2>1, <2>2
  <1> HIDE DEF T
  <1>4. mine \in T
    BY <1>2, <1>3, ListInduction
  <1> QED BY <1>1, <1>4 DEF T, X

-----------------------------------------------------------------------------
(* How often the vouchers of a list bill a unit. *)

Billed(vs, x) == Occurs(Backlog!Uses(vs), x)

\* The units of lists one behind the other.
LEMMA UsesJoined ==
    ASSUME NEW a \in Seq(BV), NEW b \in Seq(BV)
    PROVE  Backlog!Uses(a \o b) = Backlog!Uses(a) \o Backlog!Uses(b)
  <1> DEFINE X(s) == Backlog!Uses(s)
             T == {p \in Seq(BV) : X(a \o p) = X(a) \o X(p)}
  <1>1. /\ X(<<>>) = <<>> /\ \A s \in Seq(BV) : X(s) \in Seq(Units)
        /\ \A s \in Seq(BV), e \in BV : X(Append(s, e)) = X(s) \o e.uses
    BY UsesByOne
  <1> HIDE DEF X
  <1>2. <<>> \in T
    <2>1. a \o <<>> = a /\ <<>> \in Seq(BV)
      OBVIOUS
    <2>2. X(a) \o <<>> = X(a)
      BY <1>1
    <2> QED BY <1>1, <2>1, <2>2
  <1>3. ASSUME NEW p \in Seq(BV), NEW v \in BV, p \in T PROVE Append(p, v) \in T
    <2>1. a \o Append(p, v) = Append(a \o p, v) /\ a \o p \in Seq(BV) /\ Append(p, v) \in Seq(BV)
      OBVIOUS
    <2>2. X(a \o Append(p, v)) = X(a \o p) \o v.uses /\ X(Append(p, v)) = X(p) \o v.uses
      BY <1>1, <2>1
    <2>3. X(a \o p) = X(a) \o X(p)
      BY <1>3
    <2>4. v.uses \in Seq(Units) /\ X(a) \in Seq(Units) /\ X(p) \in Seq(Units)
      BY <1>1 DEF BV
    <2>5. (X(a) \o X(p)) \o v.uses = X(a) \o (X(p) \o v.uses)
      <3> DEFINE f == X(a)   g == X(p)   u == v.uses
      <3>1. f \in Seq(Units) /\ g \in Seq(Units) /\ u \in Seq(Units)
        BY <2>4
      <3> HIDE DEF f, g, u
      <3>2. (f \o g) \o u = f \o (g \o u)
        BY <3>1, JoinedThree, SMTT(30)
      <3> QED BY <3>2 DEF f, g, u
    <2> QED BY <2>1, <2>2, <2>3, <2>5
  <1> HIDE DEF T
  <1>4. b \in T
    BY <1>2, <1>3, ListInduction
  <1> QED BY <1>4 DEF T, X

\* Units are counted voucher by voucher and list by list.
LEMMA BilledByOne ==
    ASSUME NEW x
    PROVE  /\ Billed(<<>>, x) = 0
           /\ \A s \in Seq(BV) : Billed(s, x) \in Nat
           /\ \A s \in Seq(BV), e \in BV :
                 Billed(Append(s, e), x) = Billed(s, x) + Occurs(e.uses, x) /\ Occurs(e.uses, x) \in Nat
           /\ \A s \in Seq(BV), t \in Seq(BV) : Billed(s \o t, x) = Billed(s, x) + Billed(t, x)
  <1>1. Billed(<<>>, x) = 0
    BY UsesByOne, OccursInShort DEF Billed
  <1>2. ASSUME NEW s \in Seq(BV) PROVE Billed(s, x) \in Nat
    BY UsesByOne, OccursIsNat DEF Billed
  <1>3. ASSUME NEW s \in Seq(BV), NEW e \in BV
        PROVE  Billed(Append(s, e), x) = Billed(s, x) + Occurs(e.uses, x) /\ Occurs(e.uses, x) \in Nat
    <2>1. e.uses \in Seq(Units) /\ Backlog!Uses(s) \in Seq(Units)
      BY UsesByOne DEF BV
    <2>2. Backlog!Uses(Append(s, e)) = Backlog!Uses(s) \o e.uses
      BY UsesByOne
    <2> QED BY <2>1, <2>2, OccursIsNat, OccursJoined DEF Billed
  <1>4. ASSUME NEW s \in Seq(BV), NEW t \in Seq(BV) PROVE Billed(s \o t, x) = Billed(s, x) + Billed(t, x)
    <2> DEFINE a == Backlog!Uses(s)   b == Backlog!Uses(t)
    <2>1. a \in Seq(Units) /\ b \in Seq(Units) /\ Backlog!Uses(s \o t) = a \o b
      BY UsesByOne, UsesJoined
    <2> HIDE DEF a, b
    <2>2. Occurs(a \o b, x) = Occurs(a, x) + Occurs(b, x)
      BY <2>1, OccursJoined
    <2> QED BY <2>1, <2>2 DEF Billed, a, b
  <1> QED BY <1>1, <1>2, <1>3, <1>4

\* Lists that bill the same units place by place.
LEMMA BilledAlike ==
    ASSUME NEW a \in Seq(BV), NEW b \in Seq(BV), Len(a) = Len(b), \A k \in DOMAIN a : a[k].uses = b[k].uses
    PROVE  Backlog!Uses(a) = Backlog!Uses(b)
  <1> DEFINE n == Len(a)   K == {k \in 0..n : Backlog!Uses(SubSeq(a, 1, k)) = Backlog!Uses(SubSeq(b, 1, k))}
  <1>1. n \in Nat /\ 0 \in 0..n
    OBVIOUS
  <1>2. 0 \in K
    <2>1. SubSeq(a, 1, 0) = <<>> /\ SubSeq(b, 1, 0) = <<>>
      OBVIOUS
    <2> QED BY <1>1, <2>1
  <1>3. ASSUME NEW k \in 0..(n - 1), k \in K PROVE k + 1 \in K
    <2> DEFINE p == SubSeq(a, 1, k)   q == SubSeq(b, 1, k)   v == a[k + 1]   w == b[k + 1]
    <2>1. /\ p \in Seq(BV) /\ v \in BV /\ SubSeq(a, 1, k + 1) = Append(p, v)
          /\ q \in Seq(BV) /\ w \in BV /\ SubSeq(b, 1, k + 1) = Append(q, w)
      BY FirstAndNext
    <2>2. k + 1 \in 0..n /\ k + 1 \in DOMAIN a
      BY <1>1
    <2>3. v.uses = w.uses /\ Backlog!Uses(p) = Backlog!Uses(q)
      BY <1>3, <2>2
    <2> HIDE DEF p, q, v, w
    <2>4. Backlog!Uses(Append(p, v)) = Backlog!Uses(Append(q, w))
      BY <2>1, <2>3, UsesByOne
    <2> QED BY <2>1, <2>2, <2>4
  <1> HIDE DEF K
  <1>4. n \in K
    BY <1>1, <1>2, <1>3, CountingUp
  <1>5. SubSeq(a, 1, n) = a /\ SubSeq(b, 1, n) = b
    BY FirstAndNext
  <1> QED BY <1>4, <1>5 DEF K

\* Another voucher in one place.
LEMMA BilledChange ==
    ASSUME NEW out \in Seq(BV), NEW i \in DOMAIN out, NEW w \in BV, NEW x
    PROVE  Billed([out EXCEPT ![i] = w], x) + Occurs(out[i].uses, x) = Billed(out, x) + Occurs(w.uses, x)
  <1> DEFINE o == out[i]   r == [out EXCEPT ![i] = w]   N(s) == Billed(s, x)
  <1>1. i \in 1..Len(out) /\ o \in BV
    OBVIOUS
  <1>2. PICK a \in Seq(BV), c \in Seq(BV) : IsCut(out, i, w, a, c)
    <2>1. i \in 1..Len(out)
      BY <1>1
    <2> QED BY <2>1, CutAt
  <1> DEFINE A == Append(a, o)   B == Append(a, w)
  <1>3. A \in Seq(BV) /\ B \in Seq(BV)
    BY <1>1
  <1>5. out = A \o c /\ r = B \o c
    BY <1>2 DEF IsCut
  <1> HIDE DEF o, r
  <1>4. N(A) = N(a) + Occurs(o.uses, x) /\ N(B) = N(a) + Occurs(w.uses, x)
        /\ Occurs(o.uses, x) \in Nat /\ Occurs(w.uses, x) \in Nat
    BY <1>1, BilledByOne
  <1> HIDE DEF A, B
  <1>6. N(A \o c) = N(A) + N(c) /\ N(B \o c) = N(B) + N(c)
    BY <1>3, BilledByOne
  <1>7. N(a) \in Nat /\ N(c) \in Nat
    BY BilledByOne
  <1> HIDE DEF N
  <1>8. N(r) + Occurs(o.uses, x) = N(out) + Occurs(w.uses, x)
    BY <1>4, <1>5, <1>6, <1>7
  <1> QED BY <1>8 DEF N, o, r

-----------------------------------------------------------------------------
(* The entries of some users. *)

\* The users of a list.
LEMMA UsersByOne ==
    /\ Backlog!QueuedUsers(<<>>) = {}
    /\ \A s \in Seq(BV), e \in BV :
          Backlog!QueuedUsers(Append(s, e)) = Backlog!QueuedUsers(s) \cup {e.user}
  <1>1. Backlog!QueuedUsers(<<>>) = {}
    BY DEF Backlog!QueuedUsers
  <1>2. ASSUME NEW s \in Seq(BV), NEW e \in BV
        PROVE  Backlog!QueuedUsers(Append(s, e)) = Backlog!QueuedUsers(s) \cup {e.user}
    <2> DEFINE t == Append(s, e)   n == Len(s)
    <2>1. n \in Nat /\ DOMAIN s = 1..n /\ DOMAIN t = 1..(n + 1) /\ t[n + 1] = e /\ \A k \in 1..n : t[k] = s[k]
      OBVIOUS
    <2> HIDE DEF t, n
    <2>2. {t[k].user : k \in DOMAIN t} = {s[k].user : k \in DOMAIN s} \cup {e.user}
      <3>1. ASSUME NEW u \in {t[k].user : k \in DOMAIN t} PROVE u \in {s[k].user : k \in DOMAIN s} \cup {e.user}
        BY <2>1
      <3>2. ASSUME NEW u \in {s[k].user : k \in DOMAIN s} PROVE u \in {t[k].user : k \in DOMAIN t}
        BY <2>1
      <3>3. e.user \in {t[k].user : k \in DOMAIN t}
        BY <2>1
      <3> QED BY <3>1, <3>2, <3>3
    <2> QED BY <2>2 DEF Backlog!QueuedUsers, t
  <1> QED BY <1>1, <1>2

\* Only what the users of a list are matters.
LEMMA EntriesSame ==
    ASSUME NEW q \in Seq(BV), NEW A, NEW B,
           A \cap Backlog!QueuedUsers(q) = B \cap Backlog!QueuedUsers(q)
    PROVE  Backlog!EntriesOf(q, A) = Backlog!EntriesOf(q, B)
  <1> DEFINE X(s) == Backlog!EntriesOf(s, A)   Y(s) == Backlog!EntriesOf(s, B)   Q(s) == Backlog!QueuedUsers(s)
             T == {p \in Seq(BV) : A \cap Q(p) = B \cap Q(p) => X(p) = Y(p)}
  <1>1. /\ X(<<>>) = <<>>
        /\ \A s \in Seq(BV), e \in BV : X(Append(s, e)) = IF e.user \in A THEN Append(X(s), e) ELSE X(s)
    BY EntriesByOne
  <1>2. /\ Y(<<>>) = <<>>
        /\ \A s \in Seq(BV), e \in BV : Y(Append(s, e)) = IF e.user \in B THEN Append(Y(s), e) ELSE Y(s)
    BY EntriesByOne
  <1>3. \A s \in Seq(BV), e \in BV : Q(Append(s, e)) = Q(s) \cup {e.user}
    BY UsersByOne
  <1> HIDE DEF X, Y, Q
  <1>4. <<>> \in T
    BY <1>1, <1>2
  <1>5. ASSUME NEW p \in Seq(BV), NEW v \in BV, p \in T PROVE Append(p, v) \in T
    <2>1. Append(p, v) \in Seq(BV)
      OBVIOUS
    <2>2. ASSUME A \cap Q(Append(p, v)) = B \cap Q(Append(p, v)) PROVE X(Append(p, v)) = Y(Append(p, v))
      <3>1. Q(Append(p, v)) = Q(p) \cup {v.user}
        BY <1>3
      <3>2. A \cap Q(p) = B \cap Q(p) /\ (v.user \in A <=> v.user \in B)
        BY <2>2, <3>1
      <3>3. X(p) = Y(p)
        BY <1>5, <3>2
      <3> QED BY <1>1, <1>2, <3>2, <3>3
    <2> QED BY <2>1, <2>2
  <1> HIDE DEF T
  <1>6. q \in T
    BY <1>4, <1>5, ListInduction
  <1> QED BY <1>6 DEF T, X, Y, Q

\* Nobody's entries.
LEMMA EntriesOfNone ==
    ASSUME NEW q \in Seq(BV), NEW S, S \cap Backlog!QueuedUsers(q) = {}
    PROVE  Backlog!EntriesOf(q, S) = <<>>
  <1> DEFINE X(s) == Backlog!EntriesOf(s, {})   T == {p \in Seq(BV) : X(p) = <<>>}
  <1>1. /\ X(<<>>) = <<>>
        /\ \A s \in Seq(BV), e \in BV : X(Append(s, e)) = IF e.user \in {} THEN Append(X(s), e) ELSE X(s)
    BY EntriesByOne
  <1> HIDE DEF X
  <1>2. <<>> \in T
    BY <1>1
  <1>3. ASSUME NEW p \in Seq(BV), NEW v \in BV, p \in T PROVE Append(p, v) \in T
    <2>1. Append(p, v) \in Seq(BV)
      OBVIOUS
    <2> QED BY <1>1, <1>3, <2>1
  <1> HIDE DEF T
  <1>4. q \in T
    BY <1>2, <1>3, ListInduction
  <1>5. Backlog!EntriesOf(q, S) = Backlog!EntriesOf(q, {})
    <2>1. S \cap Backlog!QueuedUsers(q) = {} \cap Backlog!QueuedUsers(q)
      OBVIOUS
    <2> QED BY <2>1, EntriesSame
  <1> QED BY <1>4, <1>5 DEF T, X

\* The entries of lists one behind the other.
LEMMA EntriesJoined ==
    ASSUME NEW a \in Seq(BV), NEW b \in Seq(BV), NEW S
    PROVE  Backlog!EntriesOf(a \o b, S) = Backlog!EntriesOf(a, S) \o Backlog!EntriesOf(b, S)
  <1> DEFINE X(s) == Backlog!EntriesOf(s, S)   T == {p \in Seq(BV) : X(a \o p) = X(a) \o X(p)}
  <1>1. /\ X(<<>>) = <<>> /\ \A s \in Seq(BV) : X(s) \in Seq(BV)
        /\ \A s \in Seq(BV), e \in BV : X(Append(s, e)) = IF e.user \in S THEN Append(X(s), e) ELSE X(s)
    BY EntriesByOne
  <1> HIDE DEF X
  <1>2. <<>> \in T
    <2>1. a \o <<>> = a /\ <<>> \in Seq(BV)
      OBVIOUS
    <2>2. X(a) \o <<>> = X(a)
      BY <1>1
    <2> QED BY <1>1, <2>1, <2>2
  <1>3. ASSUME NEW p \in Seq(BV), NEW v \in BV, p \in T PROVE Append(p, v) \in T
    <2>1. a \o Append(p, v) = Append(a \o p, v) /\ a \o p \in Seq(BV) /\ Append(p, v) \in Seq(BV)
      OBVIOUS
    <2> DEFINE c == X(a)   d == X(p)
    <2>2. X(a \o p) = c \o d /\ c \in Seq(BV) /\ d \in Seq(BV)
      BY <1>1, <1>3
    <2>3. /\ X(a \o Append(p, v)) = IF v.user \in S THEN Append(X(a \o p), v) ELSE X(a \o p)
          /\ X(Append(p, v)) = IF v.user \in S THEN Append(d, v) ELSE d
      BY <1>1, <2>1
    <2> HIDE DEF c, d
    <2>4. c \o Append(d, v) = Append(c \o d, v)
      BY <2>2
    <2>5. X(a \o Append(p, v)) = c \o X(Append(p, v))
      BY <2>2, <2>3, <2>4
    <2> QED BY <2>1, <2>5 DEF c
  <1> HIDE DEF T
  <1>4. b \in T
    BY <1>2, <1>3, ListInduction
  <1> QED BY <1>4 DEF T, X

\* Entries of entries.
LEMMA EntriesTwice ==
    ASSUME NEW q \in Seq(BV), NEW R, NEW S
    PROVE  Backlog!EntriesOf(Backlog!EntriesOf(q, S), R) = Backlog!EntriesOf(q, S \cap R)
  <1> DEFINE X(s) == Backlog!EntriesOf(s, S)   Y(s) == Backlog!EntriesOf(s, R)   Z(s) == Backlog!EntriesOf(s, S \cap R)
             T == {p \in Seq(BV) : Y(X(p)) = Z(p)}
  <1>1. /\ X(<<>>) = <<>> /\ \A s \in Seq(BV) : X(s) \in Seq(BV)
        /\ \A s \in Seq(BV), e \in BV : X(Append(s, e)) = IF e.user \in S THEN Append(X(s), e) ELSE X(s)
    BY EntriesByOne
  <1>2. /\ Y(<<>>) = <<>>
        /\ \A s \in Seq(BV), e \in BV : Y(Append(s, e)) = IF e.user \in R THEN Append(Y(s), e) ELSE Y(s)
    BY EntriesByOne
  <1>3. /\ Z(<<>>) = <<>>
        /\ \A s \in Seq(BV), e \in BV : Z(Append(s, e)) = IF e.user \in S \cap R THEN Append(Z(s), e) ELSE Z(s)
    BY EntriesByOne
  <1> HIDE DEF X, Y, Z
  <1>4. <<>> \in T
    BY <1>1, <1>2, <1>3
  <1>5. ASSUME NEW p \in Seq(BV), NEW v \in BV, p \in T PROVE Append(p, v) \in T
    <2>1. Append(p, v) \in Seq(BV) /\ X(p) \in Seq(BV) /\ Y(X(p)) = Z(p)
      BY <1>1, <1>5
    <2>2. Y(Append(X(p), v)) = IF v.user \in R THEN Append(Z(p), v) ELSE Z(p)
      BY <1>2, <2>1
    <2>3. Y(X(Append(p, v))) = Z(Append(p, v))
      BY <1>1, <1>3, <2>1, <2>2
    <2> QED BY <2>1, <2>3
  <1> HIDE DEF T
  <1>6. q \in T
    BY <1>4, <1>5, ListInduction
  <1> QED BY <1>6 DEF T, X, Y, Z

\* Whose entries they are.
LEMMA EntriesUsers ==
    ASSUME NEW q \in Seq(BV), NEW S
    PROVE  Backlog!QueuedUsers(Backlog!EntriesOf(q, S)) = Backlog!QueuedUsers(q) \cap S
  <1> DEFINE X(s) == Backlog!EntriesOf(s, S)   Q(s) == Backlog!QueuedUsers(s)
             T == {p \in Seq(BV) : Q(X(p)) = Q(p) \cap S}
  <1>1. /\ X(<<>>) = <<>> /\ \A s \in Seq(BV) : X(s) \in Seq(BV)
        /\ \A s \in Seq(BV), e \in BV : X(Append(s, e)) = IF e.user \in S THEN Append(X(s), e) ELSE X(s)
    BY EntriesByOne
  <1>2. Q(<<>>) = {} /\ \A s \in Seq(BV), e \in BV : Q(Append(s, e)) = Q(s) \cup {e.user}
    BY UsersByOne
  <1> HIDE DEF X, Q
  <1>3. <<>> \in T
    BY <1>1, <1>2
  <1>4. ASSUME NEW p \in Seq(BV), NEW v \in BV, p \in T PROVE Append(p, v) \in T
    <2>1. Append(p, v) \in Seq(BV) /\ X(p) \in Seq(BV) /\ Q(X(p)) = Q(p) \cap S
      BY <1>1, <1>4
    <2>2. Q(Append(X(p), v)) = Q(X(p)) \cup {v.user} /\ Q(Append(p, v)) = Q(p) \cup {v.user}
      BY <1>2, <2>1
    <2>3. Q(X(Append(p, v))) = Q(Append(p, v)) \cap S
      BY <1>1, <2>1, <2>2, ZenonT(40)
    <2> QED BY <2>1, <2>3
  <1> HIDE DEF T
  <1>5. q \in T
    BY <1>3, <1>4, ListInduction
  <1> QED BY <1>5 DEF T, X, Q

\* A list's units are those of some users and those of the others.
LEMMA EntriesBilled ==
    ASSUME NEW q \in Seq(BV), NEW A, NEW B, A \cap B = {}, Backlog!QueuedUsers(q) \subseteq A \cup B, NEW x
    PROVE  Billed(Backlog!EntriesOf(q, A), x) + Billed(Backlog!EntriesOf(q, B), x) = Billed(q, x)
  <1> DEFINE X(s) == Backlog!EntriesOf(s, A)   Y(s) == Backlog!EntriesOf(s, B)
             Q(s) == Backlog!QueuedUsers(s)   N(s) == Billed(s, x)   M(e) == Occurs(e.uses, x)
             T == {p \in Seq(BV) : Q(p) \subseteq A \cup B => N(X(p)) + N(Y(p)) = N(p)}
  <1>1. /\ X(<<>>) = <<>> /\ \A s \in Seq(BV) : X(s) \in Seq(BV)
        /\ \A s \in Seq(BV), e \in BV : X(Append(s, e)) = IF e.user \in A THEN Append(X(s), e) ELSE X(s)
    BY EntriesByOne
  <1>2. /\ Y(<<>>) = <<>> /\ \A s \in Seq(BV) : Y(s) \in Seq(BV)
        /\ \A s \in Seq(BV), e \in BV : Y(Append(s, e)) = IF e.user \in B THEN Append(Y(s), e) ELSE Y(s)
    BY EntriesByOne
  <1>3. \A s \in Seq(BV), e \in BV : Q(Append(s, e)) = Q(s) \cup {e.user}
    BY UsersByOne
  <1>4. /\ N(<<>>) = 0 /\ \A s \in Seq(BV) : N(s) \in Nat
        /\ \A s \in Seq(BV), e \in BV : N(Append(s, e)) = N(s) + M(e) /\ M(e) \in Nat
    BY BilledByOne
  <1> HIDE DEF X, Y, Q, N, M
  <1>5. <<>> \in T
    BY <1>1, <1>2, <1>4
  <1>6. ASSUME NEW p \in Seq(BV), NEW v \in BV, p \in T PROVE Append(p, v) \in T
    <2>1. Append(p, v) \in Seq(BV) /\ X(p) \in Seq(BV) /\ Y(p) \in Seq(BV)
      BY <1>1, <1>2
    <2>2. ASSUME Q(Append(p, v)) \subseteq A \cup B
          PROVE  N(X(Append(p, v))) + N(Y(Append(p, v))) = N(Append(p, v))
      <3>1. Q(p) \subseteq A \cup B /\ v.user \in A \cup B
        BY <1>3, <2>2
      <3>2. N(X(p)) + N(Y(p)) = N(p)
        BY <1>6, <3>1
      <3>3. /\ N(Append(X(p), v)) = N(X(p)) + M(v) /\ N(Append(Y(p), v)) = N(Y(p)) + M(v)
            /\ N(Append(p, v)) = N(p) + M(v) /\ M(v) \in Nat /\ N(X(p)) \in Nat /\ N(Y(p)) \in Nat
        BY <1>4, <2>1
      <3>4. CASE v.user \in A
        <4>1. X(Append(p, v)) = Append(X(p), v) /\ Y(Append(p, v)) = Y(p)
          BY <1>1, <1>2, <3>4
        <4> QED BY <3>2, <3>3, <4>1
      <3>5. CASE v.user \notin A
        <4>1. X(Append(p, v)) = X(p) /\ Y(Append(p, v)) = Append(Y(p), v)
          BY <1>1, <1>2, <3>1, <3>5
        <4> QED BY <3>2, <3>3, <4>1
      <3> QED BY <3>4, <3>5
    <2> QED BY <2>1, <2>2
  <1> HIDE DEF T
  <1>7. q \in T
    BY <1>5, <1>6, ListInduction
  <1> QED BY <1>7 DEF T, X, Y, Q, N

-----------------------------------------------------------------------------
(* The collapse by sandbox. *)

\* Merging a voucher adds its units and no others.
LEMMA MergeBilled ==
    ASSUME NEW out \in Seq(BV), NEW v \in BV, NEW x
    PROVE  Billed(Backlog!MergeInto(out, v), x) = Billed(out, x) + Occurs(v.uses, x)
  <1> DEFINE hits == {j \in DOMAIN out : Backlog!SameSandbox(out[j], v)}
  <1>1. CASE hits = {}
    <2>1. Backlog!MergeInto(out, v) = Append(out, v)
      BY <1>1 DEF Backlog!MergeInto
    <2> QED BY <2>1, BilledByOne
  <1>2. CASE hits # {}
    <2>1. PICK i \in DOMAIN out : Backlog!MergeInto(out, v) = Backlog!Absorb(out, i, v)
      BY <1>2 DEF Backlog!MergeInto
    <2> DEFINE r == Backlog!Absorb(out, i, v)   o == out[i]
    <2>2. PICK w \in BV : IsAbsorbed(r, out, i, v, w)
      BY AbsorbIs
    <2>3. Billed([out EXCEPT ![i] = w], x) + Occurs(out[i].uses, x) = Billed(out, x) + Occurs(w.uses, x)
      BY BilledChange
    <2>4. o \in BV /\ r = [out EXCEPT ![i] = w] /\ w.uses = o.uses \o v.uses
      BY <2>2 DEF IsAbsorbed
    <2>5. Billed(r, x) + Occurs(o.uses, x) = Billed(out, x) + Occurs(w.uses, x)
      BY <2>3, <2>4, Zenon DEF o
    <2> HIDE DEF r, o
    <2>6. o.uses \in Seq(Units) /\ v.uses \in Seq(Units)
      BY <2>4 DEF BV
    <2> DEFINE a == o.uses   b == v.uses   c == w.uses
    <2>7. a \in Seq(Units) /\ b \in Seq(Units) /\ c = a \o b
      BY <2>4, <2>6
    <2> HIDE DEF a, b, c
    <2>8. Occurs(c, x) = Occurs(a, x) + Occurs(b, x) /\ Occurs(a, x) \in Nat /\ Occurs(b, x) \in Nat
      BY <2>7, OccursJoined, OccursIsNat
    <2>9. r \in Seq(BV)
      BY <2>1, MergeTyped DEF r
    <2>10. Billed(out, x) \in Nat /\ Billed(r, x) \in Nat
      BY <2>9, BilledByOne
    <2>11. Billed(r, x) + Occurs(a, x) = Billed(out, x) + Occurs(c, x)
      BY <2>5 DEF a, c
    <2>12. Billed(r, x) = Billed(out, x) + Occurs(b, x)
      BY <2>8, <2>10, <2>11
    <2> QED BY <2>1, <2>12 DEF r, b
  <1> QED BY <1>1, <1>2

\* The collapse bills every unit as often as the list.
LEMMA CollapseBilled ==
    ASSUME NEW vs \in Seq(BV), NEW x
    PROVE  Billed(Backlog!CollapseBySandbox(vs), x) = Billed(vs, x)
  <1> DEFINE X(s) == Backlog!CollapseBySandbox(s)   N(s) == Billed(s, x)
             T == {p \in Seq(BV) : N(X(p)) = N(p)}
  <1>1. /\ X(<<>>) = <<>> /\ \A s \in Seq(BV) : X(s) \in Seq(BV)
        /\ \A s \in Seq(BV), e \in BV : X(Append(s, e)) = Backlog!MergeInto(X(s), e)
    BY CollapseByOne
  <1>2. \A s \in Seq(BV), e \in BV : /\ N(Append(s, e)) = N(s) + Occurs(e.uses, x)
                                     /\ N(Backlog!MergeInto(s, e)) = N(s) + Occurs(e.uses, x)
    BY BilledByOne, MergeBilled, ZenonT(40)
  <1> HIDE DEF X, N
  <1>3. <<>> \in T
    BY <1>1
  <1>4. ASSUME NEW p \in Seq(BV), NEW v \in BV, p \in T PROVE Append(p, v) \in T
    <2>1. Append(p, v) \in Seq(BV) /\ X(p) \in Seq(BV) /\ N(X(p)) = N(p)
      BY <1>1, <1>4
    <2> QED BY <1>1, <1>2, <2>1
  <1> HIDE DEF T
  <1>5. vs \in T
    BY <1>3, <1>4, ListInduction
  <1> QED BY <1>5 DEF T, X, N

\* i is where the group of v begins in vs.
Begins(vs, v, i) ==
    /\ i \in DOMAIN vs /\ Backlog!InGroup(vs[i], v)
    /\ \A j \in 1..(i - 1) : ~Backlog!InGroup(vs[j], v)

\* There is one such place at most.
LEMMA OneBeginning ==
    ASSUME NEW vs \in Seq(BV), NEW v, NEW i, Begins(vs, v, i)
    PROVE  i \in Nat /\ Backlog!FirstOf(vs, v) = i /\ \A k : Begins(vs, v, k) => k = i
  <1>1. ASSUME NEW k, Begins(vs, v, k) PROVE k = i
    <2>1. k \in 1..Len(vs) /\ i \in 1..Len(vs)
      BY <1>1 DEF Begins
    <2>2. ~(k < i)
      BY <1>1, <2>1 DEF Begins
    <2>3. ~(i < k)
      BY <1>1, <2>1 DEF Begins
    <2> QED BY <2>1, <2>2, <2>3
  <1> DEFINE k == Backlog!FirstOf(vs, v)
  <1>2. Begins(vs, v, k)
    BY DEF Begins, Backlog!FirstOf
  <1> HIDE DEF k
  <1>3. k = i
    BY <1>1, <1>2
  <1>4. i \in Nat
    BY DEF Begins
  <1> QED BY <1>1, <1>3, <1>4 DEF k

\* A list is the grouping of another, with the places where the groups begin.
Beginnings(out, vs) ==
    /\ \A j \in DOMAIN out : \E i : Begins(vs, out[j], i)
    /\ \A i, j \in DOMAIN out : \A k, l : i < j /\ Begins(vs, out[i], k) /\ Begins(vs, out[j], l) => k < l
    /\ \A i \in DOMAIN vs : \E j \in DOMAIN out : Backlog!InGroup(out[j], vs[i])
Group(out, vs, j) ==
    /\ out[j].uses = Backlog!Uses(Backlog!GroupOf(vs, out[j]))
    /\ out[j].agg <=> \/ Len(Backlog!GroupOf(vs, out[j])) > 1
                      \/ Backlog!GroupOf(vs, out[j])[1].agg
Grouped(out, vs) == Beginnings(out, vs) /\ \A j \in DOMAIN out : Group(out, vs, j)

\* That is what the property says.
LEMMA GroupedSays ==
    ASSUME NEW out \in Seq(BV), NEW vs \in Seq(BV), Grouped(out, vs)
    PROVE  Backlog!IsGrouping(out, vs)
  <1>1. ASSUME NEW i \in DOMAIN out, NEW j \in DOMAIN out, i < j
        PROVE  Backlog!FirstOf(vs, out[i]) < Backlog!FirstOf(vs, out[j])
    <2>1. PICK k : Begins(vs, out[i], k)
      BY DEF Grouped, Beginnings
    <2>2. PICK l : Begins(vs, out[j], l)
      BY DEF Grouped, Beginnings
    <2>3. k < l
      BY <1>1, <2>1, <2>2 DEF Grouped, Beginnings
    <2>4. Backlog!FirstOf(vs, out[i]) = k /\ Backlog!FirstOf(vs, out[j]) = l
      BY <2>1, <2>2, OneBeginning
    <2> QED BY <2>3, <2>4
  <1> QED BY <1>1 DEF Grouped, Beginnings, Group, Backlog!IsGrouping

\* Entries of a grouping have groups of their own.
LEMMA OwnGroups ==
    ASSUME NEW out \in Seq(BV), NEW vs \in Seq(BV), Beginnings(out, vs),
           NEW i \in DOMAIN out, NEW j \in DOMAIN out, Backlog!InGroup(out[i], out[j])
    PROVE  i = j
  <1>1. \A k : Begins(vs, out[i], k) <=> Begins(vs, out[j], k)
    BY DEF Begins, Backlog!InGroup
  <1>2. PICK k : Begins(vs, out[i], k)
    BY DEF Beginnings
  <1>3. k \in Nat
    BY <1>2, OneBeginning
  <1>4. ~(i < j) /\ ~(j < i)
    <2>1. i < j => k < k
      BY <1>1, <1>2 DEF Beginnings
    <2>2. j < i => k < k
      BY <1>1, <1>2 DEF Beginnings
    <2> QED BY <1>3, <2>1, <2>2
  <1>5. i \in Nat /\ j \in Nat
    OBVIOUS
  <1> QED BY <1>4, <1>5

\* A group has entries if the list has any of it.
LEMMA GroupHasAny ==
    ASSUME NEW q \in Seq(BV), NEW w
    PROVE  Backlog!GroupOf(q, w) = <<>> <=> \A i \in DOMAIN q : ~Backlog!InGroup(q[i], w)
  <1> DEFINE X(s) == Backlog!GroupOf(s, w)   I(e) == Backlog!InGroup(e, w)
             T == {p \in Seq(BV) : X(p) = <<>> <=> \A i \in DOMAIN p : ~I(p[i])}
  <1>1. /\ X(<<>>) = <<>> /\ \A s \in Seq(BV) : X(s) \in Seq(BV)
        /\ \A s \in Seq(BV), e \in BV : X(Append(s, e)) = IF I(e) THEN Append(X(s), e) ELSE X(s)
    BY GroupByOne
  <1> HIDE DEF X, I
  <1>2. <<>> \in T
    BY <1>1
  <1>3. ASSUME NEW p \in Seq(BV), NEW v \in BV, p \in T PROVE Append(p, v) \in T
    <2> DEFINE t == Append(p, v)   n == Len(p)   c == X(p)
    <2>1. t \in Seq(BV) /\ n \in Nat /\ DOMAIN p = 1..n /\ DOMAIN t = 1..(n + 1) /\ t[n + 1] = v /\ \A k \in 1..n : t[k] = p[k]
      OBVIOUS
    <2>2. c \in Seq(BV) /\ X(t) = IF I(v) THEN Append(c, v) ELSE c
      BY <1>1
    <2> HIDE DEF t, n, c
    <2>3. Append(c, v) # <<>>
      BY <2>2
    <2>4. (\A i \in DOMAIN t : ~I(t[i])) <=> (\A i \in DOMAIN p : ~I(p[i])) /\ ~I(v)
      <3>1. \A i \in 1..n : i \in 1..(n + 1)
        BY <2>1
      <3>2. n + 1 \in 1..(n + 1) /\ \A i \in 1..(n + 1) : i = n + 1 \/ i \in 1..n
        BY <2>1
      <3> QED BY <2>1, <3>1, <3>2
    <2>5. c = <<>> <=> \A i \in DOMAIN p : ~I(p[i])
      BY <1>3 DEF c
    <2>6. X(t) = <<>> <=> \A i \in DOMAIN t : ~I(t[i])
      BY <2>2, <2>3, <2>4, <2>5
    <2> QED BY <2>1, <2>6 DEF t
  <1> HIDE DEF T
  <1>4. q \in T
    BY <1>2, <1>3, ListInduction
  <1> QED BY <1>4 DEF T, X, I

\* Where groups begin when the list has one more.
LEMMA BeginsLater ==
    ASSUME NEW p \in Seq(BV), NEW v \in BV, NEW w
    PROVE  /\ \A i : Begins(p, w, i) => Begins(Append(p, v), w, i)
           /\ \A i : Begins(Append(p, v), w, i) => Begins(p, w, i) \/ (i = Len(p) + 1 /\ Backlog!InGroup(v, w))
           /\ Backlog!InGroup(v, w) /\ (\A i \in DOMAIN p : ~Backlog!InGroup(p[i], w)) =>
                 Begins(Append(p, v), w, Len(p) + 1)
  <1> DEFINE t == Append(p, v)   n == Len(p)
  <1>1. n \in Nat /\ DOMAIN p = 1..n /\ DOMAIN t = 1..(n + 1) /\ t[n + 1] = v /\ \A k \in 1..n : t[k] = p[k]
    OBVIOUS
  <1> HIDE DEF t, n
  <1>2. ASSUME NEW i, Begins(p, w, i) PROVE Begins(t, w, i)
    BY <1>1, <1>2 DEF Begins
  <1>3. ASSUME NEW i, Begins(t, w, i) PROVE Begins(p, w, i) \/ (i = n + 1 /\ Backlog!InGroup(v, w))
    BY <1>1, <1>3 DEF Begins
  <1>4. ASSUME Backlog!InGroup(v, w), \A i \in DOMAIN p : ~Backlog!InGroup(p[i], w)
        PROVE  Begins(t, w, n + 1)
    BY <1>1, <1>4 DEF Begins
  <1> QED BY <1>2, <1>3, <1>4 DEF t, n

\* Belonging together is an equivalence.
LEMMA InOneGroup ==
    /\ \A a : Backlog!InGroup(a, a)
    /\ \A a, b : Backlog!InGroup(a, b) => Backlog!InGroup(b, a)
    /\ \A a, b, c : Backlog!InGroup(a, b) /\ Backlog!InGroup(b, c) => Backlog!InGroup(a, c)
  BY DEF Backlog!InGroup

\* Vouchers of one group have one beginning and the same entries.
LEMMA GroupSame ==
    ASSUME NEW a, NEW b, Backlog!InGroup(a, b), NEW q \in Seq(BV)
    PROVE  (\A i : Begins(q, a, i) <=> Begins(q, b, i)) /\ Backlog!GroupOf(q, a) = Backlog!GroupOf(q, b)
  <1> DEFINE I(e) == Backlog!InGroup(e, a)   J(e) == Backlog!InGroup(e, b)
             X(s) == Backlog!GroupOf(s, a)   Y(s) == Backlog!GroupOf(s, b)
             T == {p \in Seq(BV) : X(p) = Y(p)}
  <1>1. \A e : I(e) <=> J(e)
    BY InOneGroup
  <1>2. \A i : Begins(q, a, i) <=> Begins(q, b, i)
    BY <1>1 DEF Begins
  <1>3. /\ X(<<>>) = <<>>
        /\ \A s \in Seq(BV), e \in BV : X(Append(s, e)) = IF I(e) THEN Append(X(s), e) ELSE X(s)
    BY GroupByOne
  <1>4. /\ Y(<<>>) = <<>>
        /\ \A s \in Seq(BV), e \in BV : Y(Append(s, e)) = IF J(e) THEN Append(Y(s), e) ELSE Y(s)
    BY GroupByOne
  <1> HIDE DEF X, Y, I, J
  <1>5. <<>> \in T
    BY <1>3, <1>4
  <1>6. ASSUME NEW p \in Seq(BV), NEW v \in BV, p \in T PROVE Append(p, v) \in T
    <2>1. Append(p, v) \in Seq(BV)
      OBVIOUS
    <2> QED BY <1>1, <1>3, <1>4, <1>6, <2>1
  <1> HIDE DEF T
  <1>7. q \in T
    BY <1>5, <1>6, ListInduction
  <1> QED BY <1>2, <1>7 DEF T, X, Y

\* A voucher of a new group goes to the end.
LEMMA NewGroup ==
    ASSUME NEW out \in Seq(BV), NEW p \in Seq(BV), NEW v \in BV, Grouped(out, p),
           \A j \in DOMAIN out : ~Backlog!InGroup(out[j], v)
    PROVE  Grouped(Append(out, v), Append(p, v))
  <1> DEFINE t == Append(p, v)   n == Len(p)   r == Append(out, v)   m == Len(out)
             I(a, b) == Backlog!InGroup(a, b)   G(s, a) == Backlog!GroupOf(s, a)
  <1>1. n \in Nat /\ DOMAIN p = 1..n /\ DOMAIN t = 1..(n + 1) /\ t[n + 1] = v /\ \A k \in 1..n : t[k] = p[k]
    OBVIOUS
  <1>2. m \in Nat /\ DOMAIN out = 1..m /\ DOMAIN r = 1..(m + 1) /\ r[m + 1] = v /\ \A k \in 1..m : r[k] = out[k]
    OBVIOUS
  <1>3. t \in Seq(BV)
    OBVIOUS
  <1>4. \A i \in DOMAIN p : ~I(p[i], v)
    BY InOneGroup DEF Grouped, Beginnings
  <1>5. \A j \in 1..m : ~I(v, out[j])
    BY <1>2, InOneGroup
  <1>6. I(v, v)
    BY InOneGroup
  <1>7. Begins(t, v, n + 1) /\ \A k : Begins(t, v, k) => k = n + 1
    <2>1. Begins(t, v, n + 1)
      BY <1>4, <1>6, BeginsLater
    <2> QED BY <1>3, <2>1, OneBeginning
  <1>8. \A j \in 1..m : \A i : Begins(t, out[j], i) <=> Begins(p, out[j], i)
    BY <1>5, BeginsLater
  <1>9. \A j \in 1..m : G(t, out[j]) = G(p, out[j])
    BY <1>5, GroupByOne
  <1>10. G(t, v) = <<v>>
    <2>1. G(p, v) = <<>>
      BY <1>4, GroupHasAny
    <2>2. G(t, v) = Append(G(p, v), v)
      BY <1>6, GroupByOne
    <2> QED BY <2>1, <2>2
  <1>11. Backlog!Uses(<<v>>) = v.uses
    <2> DEFINE e == <<>>
    <2>1. e \in Seq(BV) /\ Append(e, v) = <<v>>
      OBVIOUS
    <2>2. Backlog!Uses(Append(e, v)) = Backlog!Uses(e) \o v.uses
      <3> HIDE DEF e
      <3> QED BY <2>1, UsesByOne
    <2>3. Backlog!Uses(e) = <<>> /\ v.uses \in Seq(Units)
      BY UsesByOne DEF BV
    <2>4. <<>> \o v.uses = v.uses
      BY <2>3
    <2> QED BY <2>1, <2>2, <2>3, <2>4
  <1>12. /\ \A j \in 1..m : \E i : Begins(p, out[j], i)
         /\ \A i, j \in 1..m : \A k, l : i < j /\ Begins(p, out[i], k) /\ Begins(p, out[j], l) => k < l
         /\ \A i \in 1..n : \E j \in 1..m : I(out[j], p[i])
         /\ \A j \in 1..m : Group(out, p, j)
    BY <1>1, <1>2 DEF Grouped, Beginnings
  <1> HIDE DEF t, n, r, m, I, G
  <1>13. \A j \in 1..(m + 1) : j = m + 1 \/ j \in 1..m
    BY <1>2
  <1>14. ASSUME NEW j \in 1..(m + 1) PROVE \E i : Begins(t, r[j], i)
    BY <1>2, <1>7, <1>8, <1>12, <1>13
  <1>15. ASSUME NEW i \in 1..(m + 1), NEW j \in 1..(m + 1), NEW k, NEW l,
                i < j, Begins(t, r[i], k), Begins(t, r[j], l)
         PROVE  k < l
    <2>1. i \in 1..m /\ r[i] = out[i] /\ Begins(p, out[i], k)
      BY <1>2, <1>8, <1>15
    <2>2. CASE j \in 1..m
      <3>1. Begins(p, out[j], l)
        BY <1>2, <1>8, <1>15, <2>2
      <3> QED BY <1>12, <1>15, <2>1, <2>2, <3>1
    <2>3. CASE j = m + 1
      <3>1. l = n + 1
        BY <1>2, <1>7, <1>15, <2>3
      <3>2. k \in 1..n
        BY <1>1, <2>1 DEF Begins
      <3> QED BY <1>1, <3>1, <3>2
    <2> QED BY <1>13, <2>2, <2>3
  <1>16. ASSUME NEW i \in 1..(n + 1) PROVE \E j \in 1..(m + 1) : I(r[j], t[i])
    <2>1. CASE i \in 1..n
      <3>1. PICK j \in 1..m : I(out[j], p[i])
        BY <1>12, <2>1
      <3>2. j \in 1..(m + 1) /\ r[j] = out[j] /\ t[i] = p[i]
        BY <1>1, <1>2, <2>1
      <3> QED BY <3>1, <3>2
    <2>2. CASE i = n + 1
      <3>1. m + 1 \in 1..(m + 1)
        BY <1>2
      <3> QED BY <1>1, <1>2, <1>6, <2>2, <3>1
    <2> QED BY <1>1, <2>1, <2>2
  <1>17. Beginnings(r, t)
    BY <1>1, <1>2, <1>14, <1>15, <1>16 DEF Beginnings, I
  <1>18. ASSUME NEW j \in 1..(m + 1) PROVE Group(r, t, j)
    <2>1. CASE j \in 1..m
      <3>1. Group(out, p, j) /\ r[j] = out[j] /\ G(t, out[j]) = G(p, out[j])
        BY <1>2, <1>9, <1>12, <2>1
      <3> QED BY <3>1 DEF Group, G
    <2>2. CASE j = m + 1
      <3>1. r[j] = v /\ G(t, v) = <<v>> /\ Len(<<v>>) = 1 /\ <<v>>[1] = v
        BY <1>2, <1>10, <2>2
      <3> QED BY <1>11, <3>1 DEF Group, G
    <2> QED BY <1>13, <2>1, <2>2
  <1> QED BY <1>2, <1>17, <1>18 DEF Grouped, r, t

\* A voucher of a group that is there is absorbed by its entry.
LEMMA OldGroup ==
    ASSUME NEW out \in Seq(BV), NEW p \in Seq(BV), NEW v \in BV, Grouped(out, p),
           NEW i \in DOMAIN out, Backlog!InGroup(out[i], v), NEW r, NEW w \in BV, IsAbsorbed(r, out, i, v, w)
    PROVE  Grouped(r, Append(p, v))
  <1> DEFINE t == Append(p, v)   n == Len(p)   m == Len(out)
             I(a, b) == Backlog!InGroup(a, b)   G(s, a) == Backlog!GroupOf(s, a)
  <1>1. n \in Nat /\ DOMAIN p = 1..n /\ DOMAIN t = 1..(n + 1) /\ t[n + 1] = v /\ \A k \in 1..n : t[k] = p[k]
    OBVIOUS
  <1>2. m \in Nat /\ DOMAIN out = 1..m /\ i \in 1..m
    OBVIOUS
  <1>3. DOMAIN r = 1..m /\ r[i] = w /\ \A k \in 1..m : k # i => r[k] = out[k]
    BY <1>2 DEF IsAbsorbed
  <1>4. I(w, out[i]) /\ w.uses = out[i].uses \o v.uses /\ w.agg
    BY DEF IsAbsorbed, Backlog!InGroup
  <1>5. t \in Seq(BV)
    OBVIOUS
  <1>6. \A j \in 1..m : I(r[j], out[j])
    BY <1>3, <1>4, InOneGroup
  <1>7. /\ \A j \in 1..m : \E k : Begins(p, out[j], k)
        /\ \A a, j \in 1..m : \A k, l : a < j /\ Begins(p, out[a], k) /\ Begins(p, out[j], l) => k < l
        /\ \A k \in 1..n : \E j \in 1..m : I(out[j], p[k])
        /\ \A j \in 1..m : Group(out, p, j)
    BY <1>1, <1>2 DEF Grouped, Beginnings
  <1>8. ASSUME NEW j \in 1..m, NEW k PROVE Begins(t, r[j], k) <=> Begins(p, out[j], k)
    <2>1. PICK l : Begins(p, out[j], l)
      BY <1>7
    <2>2. Begins(t, out[j], l) /\ (Begins(p, out[j], k) => Begins(t, out[j], k))
      BY <2>1, BeginsLater
    <2>3. Begins(t, out[j], k) => k = l
      BY <1>5, <2>2, OneBeginning
    <2>4. Begins(t, r[j], k) <=> Begins(t, out[j], k)
      BY <1>5, <1>6, GroupSame
    <2> QED BY <2>1, <2>2, <2>3, <2>4
  <1>9. ASSUME NEW j \in 1..m, j # i PROVE ~I(v, out[j])
    <2>1. SUFFICES ASSUME I(v, out[j]) PROVE FALSE
      OBVIOUS
    <2>2. I(out[i], out[j])
      BY <2>1, InOneGroup
    <2> QED BY <1>2, <1>9, <2>2, OwnGroups DEF Grouped
  <1> HIDE DEF n, m, I
  <1>10. ASSUME NEW k \in 1..(n + 1) PROVE \E j \in 1..m : I(r[j], t[k])
    <2>1. CASE k \in 1..n
      <3>1. PICK j \in 1..m : I(out[j], p[k])
        BY <1>7, <2>1
      <3>2. I(r[j], p[k])
        BY <1>6, <3>1, InOneGroup DEF I
      <3> QED BY <1>1, <2>1, <3>2
    <2>2. CASE k = n + 1
      <3>1. I(r[i], v)
        BY <1>2, <1>6, InOneGroup DEF I
      <3> QED BY <1>1, <1>2, <2>2, <3>1
    <2> QED BY <1>1, <2>1, <2>2
  <1>11. Beginnings(r, t)
    <2>1. \A j \in 1..m : \E k : Begins(t, r[j], k)
      BY <1>7, <1>8
    <2>2. \A a, j \in 1..m : \A k, l : a < j /\ Begins(t, r[a], k) /\ Begins(t, r[j], l) => k < l
      BY <1>7, <1>8
    <2> HIDE DEF t
    <2> QED BY <1>1, <1>3, <1>10, <2>1, <2>2 DEF Beginnings, I
  <1>12. ASSUME NEW j \in 1..m PROVE Group(r, t, j)
    <2>1. CASE j # i
      <3>1. Group(out, p, j) /\ r[j] = out[j]
        BY <1>3, <1>7, <2>1
      <3>2. G(t, out[j]) = G(p, out[j])
        BY <1>9, <2>1, GroupByOne DEF I
      <3> QED BY <3>1, <3>2 DEF Group
    <2>2. CASE j = i
      <3> DEFINE g == G(p, out[i])
      <3>1. G(t, w) = Append(g, v) /\ g \in Seq(BV)
        <4>1. G(t, w) = G(t, out[i])
          BY <1>4, <1>5, GroupSame DEF I
        <4>2. Backlog!InGroup(v, out[i])
          BY InOneGroup
        <4>3. G(t, out[i]) = Append(g, v) /\ g \in Seq(BV)
          BY <4>2, GroupByOne
        <4> QED BY <4>1, <4>3
      <3>2. g # <<>>
        <4>1. PICK k : Begins(p, out[i], k)
          BY <1>2, <1>7
        <4>2. k \in DOMAIN p /\ Backlog!InGroup(p[k], out[i])
          BY <4>1 DEF Begins
        <4> QED BY <4>2, GroupHasAny
      <3>3. Backlog!Uses(g) = out[i].uses
        BY <1>2, <1>7 DEF Group
      <3> HIDE DEF g
      <3>4. Len(Append(g, v)) > 1 /\ Backlog!Uses(Append(g, v)) = Backlog!Uses(g) \o v.uses
        <4>1. Len(Append(g, v)) > 1
          BY <3>1, <3>2
        <4> QED BY <3>1, <4>1, UsesByOne
      <3> QED BY <1>3, <1>4, <2>2, <3>1, <3>3, <3>4 DEF Group
    <2> QED BY <2>1, <2>2
  <1> QED BY <1>3, <1>11, <1>12 DEF Grouped

\* Merging a voucher keeps the grouping.
LEMMA MergeGrouped ==
    ASSUME NEW out \in Seq(BV), NEW p \in Seq(BV), NEW v \in BV, Grouped(out, p)
    PROVE  Grouped(Backlog!MergeInto(out, v), Append(p, v))
  <1> DEFINE hits == {j \in DOMAIN out : Backlog!SameSandbox(out[j], v)}
  <1>1. CASE hits = {}
    <2>1. Backlog!MergeInto(out, v) = Append(out, v)
      BY <1>1 DEF Backlog!MergeInto
    <2>2. \A j \in DOMAIN out : ~Backlog!InGroup(out[j], v)
      BY <1>1 DEF Backlog!SameSandbox, Backlog!InGroup
    <2> QED BY <2>1, <2>2, NewGroup
  <1>2. CASE hits # {}
    <2>1. PICK i \in DOMAIN out : /\ Backlog!MergeInto(out, v) = Backlog!Absorb(out, i, v)
                                  /\ Backlog!SameSandbox(out[i], v)
      BY <1>2 DEF Backlog!MergeInto
    <2> DEFINE r == Backlog!Absorb(out, i, v)
    <2>2. PICK w \in BV : IsAbsorbed(r, out, i, v, w)
      BY AbsorbIs
    <2>3. Backlog!InGroup(out[i], v)
      BY <2>1 DEF Backlog!SameSandbox, Backlog!InGroup
    <2> HIDE DEF r
    <2>4. Grouped(r, Append(p, v))
      BY <2>2, <2>3, OldGroup
    <2> QED BY <2>1, <2>4 DEF r
  <1> QED BY <1>1, <1>2

\* CollapseBySandbox groups a list by user and sandbox.
LEMMA CollapseGroups ==
    ASSUME NEW vs \in Seq(BV)
    PROVE  /\ Backlog!CollapseBySandbox(vs) \in Seq(BV)
           /\ Grouped(Backlog!CollapseBySandbox(vs), vs)
  <1> DEFINE X(s) == Backlog!CollapseBySandbox(s)   T == {p \in Seq(BV) : Grouped(X(p), p)}
  <1>1. /\ X(<<>>) = <<>> /\ \A s \in Seq(BV) : X(s) \in Seq(BV)
        /\ \A s \in Seq(BV), e \in BV : X(Append(s, e)) = Backlog!MergeInto(X(s), e)
    BY CollapseByOne
  <1> HIDE DEF X
  <1>2. <<>> \in T
    <2>1. Grouped(<<>>, <<>>)
      BY DEF Grouped, Beginnings
    <2> QED BY <1>1, <2>1
  <1>3. ASSUME NEW p \in Seq(BV), NEW v \in BV, p \in T PROVE Append(p, v) \in T
    <2>1. Append(p, v) \in Seq(BV) /\ X(p) \in Seq(BV) /\ Grouped(X(p), p)
      BY <1>1, <1>3
    <2>2. Grouped(Backlog!MergeInto(X(p), v), Append(p, v))
      BY <2>1, MergeGrouped
    <2> QED BY <1>1, <2>1, <2>2
  <1> HIDE DEF T
  <1>4. vs \in T
    BY <1>2, <1>3, ListInduction
  <1> QED BY <1>1, <1>4 DEF T, X

-----------------------------------------------------------------------------
(* The sweep's rewrite and the operator's aggregation. *)

\* A voucher that is flagged as an aggregate.
LEMMA FlaggedIs ==
    ASSUME NEW o \in BV
    PROVE  /\ [o EXCEPT !.agg = TRUE] \in BV
           /\ [o EXCEPT !.agg = TRUE].user = o.user /\ [o EXCEPT !.agg = TRUE].uses = o.uses
  BY DEF BV

\* The covered vouchers become aggregates that bill their users for the same units.
LEMMA CoveredGroups ==
    ASSUME NEW c \in Seq(BV)
    PROVE  /\ Backlog!GroupCovered(c) \in Seq(BV)
           /\ \A x : Billed(Backlog!GroupCovered(c), x) = Billed(c, x)
           /\ Backlog!QueuedUsers(Backlog!GroupCovered(c)) \subseteq Backlog!QueuedUsers(c)
  <1> DEFINE s == Backlog!CollapseBySandbox(c)   g == Backlog!GroupCovered(c)   n == Len(s)
  <1>1. s \in Seq(BV) /\ Grouped(s, c)
    BY CollapseGroups
  <1>2. g = [i \in DOMAIN s |-> [s[i] EXCEPT !.agg = TRUE]]
    BY DEF Backlog!GroupCovered
  <1>3. \A x : Billed(s, x) = Billed(c, x)
    BY CollapseBilled
  <1> HIDE DEF s, g
  <1>4. n \in Nat /\ DOMAIN s = 1..n /\ \A k \in 1..n : s[k] \in BV
    BY <1>1
  <1> HIDE DEF n
  <1>5. \A k \in 1..n : g[k] \in BV /\ g[k].user = s[k].user /\ g[k].uses = s[k].uses
    BY <1>2, <1>4, FlaggedIs
  <1>6. g \in Seq(BV) /\ Len(g) = n /\ DOMAIN g = 1..n
    <2>1. g = [i \in 1..n |-> g[i]] /\ DOMAIN g = 1..n
      BY <1>2, <1>4
    <2>2. g \in [1..n -> BV]
      BY <1>5, <2>1
    <2> QED BY <1>4, <2>1, <2>2
  <1>7. Backlog!Uses(g) = Backlog!Uses(s)
    <2>1. Len(g) = Len(s) /\ \A k \in DOMAIN g : g[k].uses = s[k].uses
      BY <1>5, <1>6 DEF n
    <2> QED BY <1>1, <1>6, <2>1, BilledAlike
  <1>8. \A x : Billed(g, x) = Billed(c, x)
    BY <1>3, <1>7 DEF Billed
  <1>9. ASSUME NEW k \in 1..n PROVE g[k].user \in Backlog!QueuedUsers(c)
    <2>1. PICK i : Begins(c, s[k], i)
      BY <1>1, <1>4 DEF Grouped, Beginnings
    <2>2. i \in DOMAIN c /\ c[i].user = s[k].user
      BY <2>1 DEF Begins, Backlog!InGroup
    <2> QED BY <1>5, <2>2 DEF Backlog!QueuedUsers
  <1>10. Backlog!QueuedUsers(g) \subseteq Backlog!QueuedUsers(c)
    BY <1>6, <1>9 DEF Backlog!QueuedUsers
  <1> QED BY <1>6, <1>8, <1>10 DEF g

\* The users of lists one behind the other.
LEMMA UsersJoined ==
    ASSUME NEW a \in Seq(BV), NEW b \in Seq(BV)
    PROVE  Backlog!QueuedUsers(a \o b) = Backlog!QueuedUsers(a) \cup Backlog!QueuedUsers(b)
  <1> DEFINE Q(s) == Backlog!QueuedUsers(s)   T == {p \in Seq(BV) : Q(a \o p) = Q(a) \cup Q(p)}
  <1>1. Q(<<>>) = {} /\ \A s \in Seq(BV), e \in BV : Q(Append(s, e)) = Q(s) \cup {e.user}
    BY UsersByOne
  <1> HIDE DEF Q
  <1>2. <<>> \in T
    <2>1. a \o <<>> = a /\ <<>> \in Seq(BV)
      OBVIOUS
    <2> QED BY <1>1, <2>1
  <1>3. ASSUME NEW p \in Seq(BV), NEW v \in BV, p \in T PROVE Append(p, v) \in T
    <2>1. a \o Append(p, v) = Append(a \o p, v) /\ a \o p \in Seq(BV) /\ Append(p, v) \in Seq(BV)
      OBVIOUS
    <2>2. Q(a \o Append(p, v)) = Q(a \o p) \cup {v.user} /\ Q(Append(p, v)) = Q(p) \cup {v.user}
      BY <1>1, <2>1
    <2>3. Q(a \o Append(p, v)) = Q(a) \cup Q(Append(p, v))
      BY <1>3, <2>2
    <2> QED BY <2>1, <2>3
  <1> HIDE DEF T
  <1>4. b \in T
    BY <1>2, <1>3, ListInduction
  <1> QED BY <1>4 DEF T, Q

\* What is queued is what a user has queued and what the others have.
LEMMA MineAndTheirs ==
    ASSUME NEW q \in Seq(BV), NEW u
    PROVE  /\ Backlog!QueuedOf(q, u) \in Seq(BV) /\ Backlog!NotOf(q, u) \in Seq(BV)
           /\ Backlog!QueuedUsers(Backlog!QueuedOf(q, u)) \subseteq {u}
           /\ Backlog!QueuedUsers(Backlog!NotOf(q, u)) = Backlog!QueuedUsers(q) \ {u}
           /\ \A x : Billed(Backlog!NotOf(q, u), x) + Billed(Backlog!QueuedOf(q, u), x) = Billed(q, x)
           /\ \A w : w # u => Backlog!QueuedOf(Backlog!NotOf(q, u), w) = Backlog!QueuedOf(q, w)
           /\ Backlog!QueuedOf(Backlog!NotOf(q, u), u) = <<>>
  <1> DEFINE A == Backlog!QueuedUsers(q) \ {u}   B == {u}
  <1>1. Backlog!NotOf(q, u) = Backlog!EntriesOf(q, A) /\ Backlog!QueuedOf(q, u) = Backlog!EntriesOf(q, B)
    BY DEF Backlog!NotOf, Backlog!QueuedOf
  <1>2. Backlog!EntriesOf(q, A) \in Seq(BV) /\ Backlog!EntriesOf(q, B) \in Seq(BV)
    BY EntriesByOne
  <1>3. A \cap B = {} /\ Backlog!QueuedUsers(q) \subseteq A \cup B
    OBVIOUS
  <1>4. /\ Backlog!QueuedUsers(Backlog!EntriesOf(q, A)) = Backlog!QueuedUsers(q) \cap A
        /\ Backlog!QueuedUsers(Backlog!EntriesOf(q, B)) = Backlog!QueuedUsers(q) \cap B
    BY EntriesUsers
  <1>5. Backlog!QueuedUsers(q) \cap A = Backlog!QueuedUsers(q) \ {u}
    OBVIOUS
  <1>6. ASSUME NEW w, w # u PROVE Backlog!QueuedOf(Backlog!NotOf(q, u), w) = Backlog!QueuedOf(q, w)
    <2>1. Backlog!EntriesOf(Backlog!EntriesOf(q, A), {w}) = Backlog!EntriesOf(q, A \cap {w})
      BY EntriesTwice
    <2>2. (A \cap {w}) \cap Backlog!QueuedUsers(q) = {w} \cap Backlog!QueuedUsers(q)
      BY <1>6
    <2>3. Backlog!EntriesOf(q, A \cap {w}) = Backlog!EntriesOf(q, {w})
      BY <2>2, EntriesSame
    <2> QED BY <1>1, <2>1, <2>3 DEF Backlog!QueuedOf
  <1>7. Backlog!QueuedOf(Backlog!NotOf(q, u), u) = <<>>
    <2>1. Backlog!EntriesOf(Backlog!EntriesOf(q, A), {u}) = Backlog!EntriesOf(q, A \cap {u})
      BY EntriesTwice
    <2>2. (A \cap {u}) \cap Backlog!QueuedUsers(q) = {}
      OBVIOUS
    <2>3. Backlog!EntriesOf(q, A \cap {u}) = <<>>
      BY <2>2, EntriesOfNone
    <2> QED BY <1>1, <2>1, <2>3 DEF Backlog!QueuedOf
  <1>8. ASSUME NEW x
        PROVE  Billed(Backlog!EntriesOf(q, A), x) + Billed(Backlog!EntriesOf(q, B), x) = Billed(q, x)
    <2> HIDE DEF A, B
    <2> QED BY <1>3, EntriesBilled
  <1>9. Backlog!QueuedUsers(Backlog!EntriesOf(q, B)) \subseteq {u}
    BY <1>4
  <1> HIDE DEF A, B
  <1>10. Backlog!QueuedUsers(Backlog!NotOf(q, u)) = Backlog!QueuedUsers(q) \ {u}
    BY <1>1, <1>4, <1>5
  <1>11. \A x : Billed(Backlog!NotOf(q, u), x) + Billed(Backlog!QueuedOf(q, u), x) = Billed(q, x)
    BY <1>1, <1>8
  <1>12. Backlog!QueuedUsers(Backlog!QueuedOf(q, u)) \subseteq {u}
    BY <1>1, <1>9
  <1> QED BY <1>1, <1>2, <1>6, <1>7, <1>10, <1>11, <1>12

\* AggregateCovered moves what a user owes between the queue and the held list.
Rewritten(r, q, h, u) ==
    /\ r.queue \in Seq(BV) /\ r.held \in Seq(BV)
    /\ \A x : Billed(r.queue \o r.held, x) = Billed(q \o h, x)
    /\ Backlog!IsPrefix(Backlog!NotOf(q, u), r.queue)
    /\ Backlog!QueuedUsers(r.held) \subseteq {u}
    /\ \A w : w # u => Backlog!QueuedOf(r.queue, w) = Backlog!QueuedOf(q, w)

\* It creates and loses no unit, and leaves the others' entries as they are and ahead.
LEMMA RewriteKeeps ==
    ASSUME NEW q \in Seq(BV), NEW h \in Seq(BV), NEW u, Backlog!QueuedUsers(h) \subseteq {u}, NEW m \in Nat
    PROVE  Rewritten(Backlog!AggregateCovered(q, h, u, m), q, h, u)
  <1> DEFINE mine == Backlog!QueuedOf(q, u)   all == h \o mine   s == Backlog!SplitBacklog(all, m)
             c == s.covered   k == s.held   g == Backlog!GroupCovered(c)   a == Backlog!NotOf(q, u)
             r == Backlog!AggregateCovered(q, h, u, m)
             Q(l) == Backlog!QueuedUsers(l)
  <1>1. /\ mine \in Seq(BV) /\ a \in Seq(BV) /\ Q(mine) \subseteq {u}
        /\ \A x : Billed(a, x) + Billed(mine, x) = Billed(q, x)
        /\ \A w : w # u => Backlog!QueuedOf(a, w) = Backlog!QueuedOf(q, w)
    BY MineAndTheirs
  <1>2. r.queue = a \o g /\ r.held = k
    BY DEF Backlog!AggregateCovered
  <1> HIDE DEF mine, a
  <1>3. all \in Seq(BV)
    BY <1>1
  <1> HIDE DEF all, r
  <1>4. s \in Splits /\ IsSplit(s, all, m)
    BY <1>3, SplitIsRight
  <1>5. c \in Seq(BV) /\ k \in Seq(BV) /\ c \o k = all
    BY <1>4 DEF Splits, IsSplit
  <1> HIDE DEF s, c, k
  <1>6. g \in Seq(BV) /\ (\A x : Billed(g, x) = Billed(c, x)) /\ Q(g) \subseteq Q(c)
    BY <1>5, CoveredGroups
  <1> HIDE DEF g
  <1>7. Q(c) \subseteq {u} /\ Q(k) \subseteq {u}
    <2>1. Q(all) = Q(h) \cup Q(mine)
      BY <1>1, UsersJoined DEF all
    <2>2. Q(c \o k) = Q(c) \cup Q(k)
      BY <1>5, UsersJoined
    <2> HIDE DEF Q
    <2>3. Q(h) \subseteq {u}
      BY DEF Q
    <2> QED BY <1>1, <1>5, <2>1, <2>2, <2>3
  <1>8. a \o g \in Seq(BV)
    BY <1>1, <1>6
  <1>9. ASSUME NEW x PROVE Billed((a \o g) \o k, x) = Billed(q \o h, x)
    <2> DEFINE N(l) == Billed(l, x)
    <2>1. /\ N((a \o g) \o k) = N(a \o g) + N(k) /\ N(a \o g) = N(a) + N(g) /\ N(q \o h) = N(q) + N(h)
          /\ N(c \o k) = N(c) + N(k)
      BY <1>1, <1>5, <1>6, <1>8, BilledByOne, ZenonT(40)
    <2>2. N(all) = N(h) + N(mine)
      BY <1>1, BilledByOne DEF all
    <2>3. N(a) + N(mine) = N(q) /\ N(g) = N(c) /\ N(c \o k) = N(all)
      BY <1>1, <1>5, <1>6
    <2>4. N(a) \in Nat /\ N(g) \in Nat /\ N(k) \in Nat /\ N(h) \in Nat /\ N(mine) \in Nat
      BY <1>1, <1>5, <1>6, BilledByOne
    <2> HIDE DEF N
    <2>5. N((a \o g) \o k) = N(q \o h)
      BY <2>1, <2>2, <2>3, <2>4
    <2> QED BY <2>5 DEF N
  <1>10. Backlog!IsPrefix(a, a \o g)
    <2>1. Len(a) <= Len(a \o g) /\ SubSeq(a, 1, Len(a)) = a
      BY <1>1, <1>6
    <2>2. SubSeq(a \o g, 1, Len(a)) = a
      BY <1>1, <1>6
    <2> QED BY <2>1, <2>2 DEF Backlog!IsPrefix
  <1>11. ASSUME NEW w, w # u PROVE Backlog!QueuedOf(a \o g, w) = Backlog!QueuedOf(q, w)
    <2> DEFINE E(l) == Backlog!EntriesOf(l, {w})
    <2>1. E(a \o g) = E(a) \o E(g)
      <3>1. a \in Seq(BV) /\ g \in Seq(BV)
        BY <1>1, <1>6
      <3> DEFINE S == {w}
      <3> HIDE DEF S
      <3>2. Backlog!EntriesOf(a \o g, S) = Backlog!EntriesOf(a, S) \o Backlog!EntriesOf(g, S)
        BY <3>1, EntriesJoined
      <3> QED BY <3>2 DEF S
    <2>2. {w} \cap Q(g) = {}
      BY <1>6, <1>7, <1>11
    <2>3. E(g) = <<>>
      BY <1>6, <2>2, EntriesOfNone
    <2>4. E(a) \in Seq(BV)
      BY <1>1, EntriesByOne
    <2> HIDE DEF E
    <2>5. E(a) \o <<>> = E(a)
      BY <2>4
    <2>6. E(a \o g) = E(a)
      BY <2>1, <2>3, <2>5
    <2>7. Backlog!QueuedOf(a \o g, w) = Backlog!QueuedOf(a, w)
      BY <2>6 DEF E, Backlog!QueuedOf
    <2> QED BY <1>1, <1>11, <2>7
  <1>12. /\ r.queue \in Seq(BV) /\ r.held \in Seq(BV)
         /\ \A x : Billed(r.queue \o r.held, x) = Billed(q \o h, x)
    BY <1>2, <1>5, <1>8, <1>9
  <1>13. Backlog!IsPrefix(a, r.queue) /\ Q(r.held) \subseteq {u}
    BY <1>2, <1>7, <1>10
  <1>14. \A w : w # u => Backlog!QueuedOf(r.queue, w) = Backlog!QueuedOf(q, w)
    BY <1>2, <1>11
  <1> QED BY <1>12, <1>13, <1>14 DEF Rewritten, a, r

\* Aggregate bills what one user has queued with one voucher.
Aggregated(r, q, u) ==
    /\ r \in Seq(BV) /\ \A x : Billed(r, x) = Billed(q, x)
    /\ Backlog!Uses(Backlog!QueuedOf(r, u)) = Backlog!Uses(Backlog!QueuedOf(q, u))
    /\ Backlog!NotOf(r, u) = Backlog!NotOf(q, u)
    /\ Len(Backlog!QueuedOf(r, u)) <= 1

\* That is for the same units, and leaves the others' entries as they are.
LEMMA AggregateKeeps ==
    ASSUME NEW q \in Seq(BV), NEW u \in Users
    PROVE  Aggregated(Backlog!Aggregate(q, u), q, u)
  <1> DEFINE mine == Backlog!QueuedOf(q, u)   a == Backlog!NotOf(q, u)
  <1>1. /\ mine \in Seq(BV) /\ a \in Seq(BV)
        /\ Backlog!QueuedUsers(a) = Backlog!QueuedUsers(q) \ {u}
        /\ \A x : Billed(a, x) + Billed(mine, x) = Billed(q, x)
        /\ Backlog!QueuedOf(a, u) = <<>>
    BY MineAndTheirs
  <1> HIDE DEF mine, a
  <1>2. CASE mine = <<>>
    <2>1. Backlog!Aggregate(q, u) = q
      BY <1>2 DEF Backlog!Aggregate, mine
    <2>2. Len(mine) <= 1
      BY <1>2
    <2> QED BY <2>1, <2>2 DEF Aggregated, mine
  <1>3. CASE mine # <<>>
    <2> DEFINE b == Backlog!Uses(mine)
               w == [user |-> u, sandbox |-> Backlog!NoSandbox, uses |-> b, agg |-> TRUE]
               r == Append(a, w)
    <2>1. Backlog!Aggregate(q, u) = r
      BY <1>3 DEF Backlog!Aggregate, mine, a
    <2>2. b \in Seq(Units)
      BY <1>1, UsesByOne
    <2> HIDE DEF b
    <2>3. w \in BV /\ w.user = u /\ w.uses = b
      BY <2>2 DEF BV
    <2> HIDE DEF w
    <2>4. r \in Seq(BV)
      BY <1>1, <2>3
    <2>5. ASSUME NEW x PROVE Billed(r, x) = Billed(q, x)
      <3>1. Billed(r, x) = Billed(a, x) + Occurs(w.uses, x)
        BY <1>1, <2>3, BilledByOne
      <3>2. Occurs(w.uses, x) = Billed(mine, x)
        BY <2>3 DEF Billed, b
      <3> QED BY <1>1, <3>1, <3>2
    <2>6. Backlog!QueuedOf(r, u) = <<w>>
      <3>1. Backlog!EntriesOf(r, {u}) = Append(Backlog!EntriesOf(a, {u}), w)
        BY <1>1, <2>3, EntriesByOne
      <3>2. Backlog!QueuedOf(r, u) = Append(<<>>, w)
        BY <1>1, <3>1 DEF Backlog!QueuedOf
      <3> QED BY <3>2
    <2>7. Backlog!Uses(<<w>>) = b
      <3> DEFINE e == <<>>
      <3>1. e \in Seq(BV) /\ Append(e, w) = <<w>>
        OBVIOUS
      <3>2. Backlog!Uses(Append(e, w)) = Backlog!Uses(e) \o w.uses
        <4> HIDE DEF e
        <4> QED BY <2>3, <3>1, UsesByOne
      <3>3. Backlog!Uses(e) = <<>>
        BY UsesByOne
      <3>4. <<>> \o b = b
        BY <2>2
      <3> QED BY <2>3, <3>1, <3>2, <3>3, <3>4
    <2>8. Backlog!NotOf(r, u) = a
      <3> DEFINE A == Backlog!QueuedUsers(q) \ {u}   C == Backlog!QueuedUsers(r) \ {u}
      <3>1. Backlog!QueuedUsers(r) = Backlog!QueuedUsers(a) \cup {u}
        BY <1>1, <2>3, UsersByOne
      <3>2. C = A
        BY <1>1, <3>1
      <3>3. Backlog!NotOf(r, u) = Backlog!EntriesOf(r, C) /\ a = Backlog!EntriesOf(q, A)
        BY DEF Backlog!NotOf, a
      <3>4. w.user \notin A
        BY <2>3
      <3> HIDE DEF A, C
      <3>5. Backlog!EntriesOf(r, A) = Backlog!EntriesOf(a, A)
        BY <1>1, <2>3, <3>4, EntriesByOne
      <3>6. Backlog!EntriesOf(Backlog!EntriesOf(q, A), A) = Backlog!EntriesOf(q, A \cap A) /\ A \cap A = A
        BY EntriesTwice
      <3> QED BY <3>2, <3>3, <3>5, <3>6
    <2>9. Len(<<w>>) <= 1
      OBVIOUS
    <2> HIDE DEF r
    <2>10. Aggregated(r, q, u)
      BY <2>4, <2>5, <2>6, <2>7, <2>8, <2>9 DEF Aggregated, a, b, mine
    <2> QED BY <2>1, <2>10
  <1> QED BY <1>2, <1>3

-----------------------------------------------------------------------------
(* What the lists hold. *)

\* Lists that bill units equally often have the same units.
LEMMA SameUnits ==
    ASSUME NEW a \in Seq(BV), NEW b \in Seq(BV), \A x : Billed(a, x) = Billed(b, x)
    PROVE  Backlog!ToSet(Backlog!Uses(a)) = Backlog!ToSet(Backlog!Uses(b))
  <1> DEFINE s == Backlog!Uses(a)   t == Backlog!Uses(b)
  <1>1. s \in Seq(Units) /\ t \in Seq(Units)
    BY UsesByOne
  <1>2. \A x : Occurs(s, x) = Occurs(t, x)
    BY DEF Billed
  <1> HIDE DEF s, t
  <1>3. \A x : x \in {s[k] : k \in DOMAIN s} <=> x \in {t[k] : k \in DOMAIN t}
    <2>1. ASSUME NEW x PROVE x \in {s[k] : k \in DOMAIN s} <=> Occurs(s, x) > 0
      BY <1>1, OccursIsNat
    <2>2. ASSUME NEW x PROVE x \in {t[k] : k \in DOMAIN t} <=> Occurs(t, x) > 0
      BY <1>1, OccursIsNat
    <2> QED BY <1>2, <2>1, <2>2, Zenon
  <1>4. {s[k] : k \in DOMAIN s} = {t[k] : k \in DOMAIN t}
    BY <1>3
  <1> QED BY <1>4 DEF Backlog!ToSet, s, t

\* Units that are billed once at most are not billed twice.
LEMMA NoneTwice ==
    ASSUME NEW a \in Seq(BV), \A x : Billed(a, x) <= 1
    PROVE  Backlog!NoUnitTwice(a)
  <1> DEFINE s == Backlog!Uses(a)
  <1>1. s \in Seq(Units) /\ \A x : Occurs(s, x) <= 1
    BY UsesByOne DEF Billed
  <1> HIDE DEF s
  <1>2. Cardinality({s[k] : k \in DOMAIN s}) = Len(s)
    BY <1>1, OncePerPlace
  <1> QED BY <1>2 DEF Backlog!NoUnitTwice, Backlog!ToSet, Backlog!Cardinality, Cardinality, s

\* The n-th voucher bills the n-th unit, and the held ones are the debtor's.
BacklogInv ==
    /\ queued \in Seq(BV) /\ heldList \in Seq(BV)
    /\ Backlog!QueuedUsers(heldList) \subseteq {Backlog!Debtor}
    /\ \A x : Billed(queued, x) + Billed(heldList, x) = IF x \in 1..Backlog!Total THEN 1 ELSE 0

\* At the start there are none.
LEMMA BacklogInit == ASSUME Backlog!Init PROVE BacklogInv
  <1>1. queued = <<>> /\ heldList = <<>>
    BY DEF Backlog!Init
  <1>2. queued \in Seq(BV) /\ heldList \in Seq(BV) /\ Backlog!Total = 0
    BY <1>1 DEF Backlog!Total
  <1>3. Backlog!QueuedUsers(heldList) = {}
    BY <1>1, UsersByOne
  <1>4. \A x : Billed(queued, x) = 0 /\ Billed(heldList, x) = 0
    BY <1>1, BilledByOne
  <1>5. \A x : x \notin 1..Backlog!Total
    BY <1>2
  <1> QED BY <1>2, <1>3, <1>4, <1>5 DEF BacklogInv

\* A voucher for the next unit.
LEMMA NextVoucher ==
    ASSUME BacklogInv, NEW u \in Users \cup {Backlog!Debtor}, NEW s \in Sandboxes, NEW agg \in BOOLEAN,
           Backlog!Total < MaxEntries
    PROVE  LET v == Backlog!NewVoucher(u, s, agg)   n == Backlog!Total
           IN  /\ n \in Nat /\ v \in BV /\ v.user = u
               /\ \A x : Occurs(v.uses, x) = IF x = n + 1 THEN 1 ELSE 0
  <1> DEFINE v == Backlog!NewVoucher(u, s, agg)   n == Backlog!Total   b == <<n + 1>>
  <1>1. n \in Nat
    BY DEF BacklogInv, Backlog!Total
  <1>2. v = [user |-> u, sandbox |-> s, uses |-> b, agg |-> agg]
    BY DEF Backlog!NewVoucher
  <1> HIDE DEF n
  <1>3. b \in Seq(Units)
    <2>1. n + 1 \in Units
      BY <1>1, BacklogAssumption DEF Units, n
    <2> QED BY <2>1
  <1>4. \A x : Occurs(b, x) = IF x = n + 1 THEN 1 ELSE 0
    BY OccursInShort
  <1> HIDE DEF b, v
  <1>5. v \in BV /\ v.user = u /\ v.uses = b
    BY <1>2, <1>3 DEF BV
  <1> QED BY <1>1, <1>4, <1>5 DEF n, v

\* Another voucher, queued or held, bills the next unit and none of the earlier ones.
LEMMA BacklogKept == ASSUME BacklogInv, [Backlog!Next]_Backlog!vars PROVE BacklogInv'
  <1> DEFINE n == Backlog!Total
  <1>1. /\ queued \in Seq(BV) /\ heldList \in Seq(BV)
        /\ Backlog!QueuedUsers(heldList) \subseteq {Backlog!Debtor}
        /\ \A x : Billed(queued, x) + Billed(heldList, x) = IF x \in 1..n THEN 1 ELSE 0
    BY DEF BacklogInv
  <1>2. n = Len(queued) + Len(heldList) /\ Len(queued) \in Nat /\ Len(heldList) \in Nat
    BY <1>1 DEF Backlog!Total
  <1>3. ASSUME NEW u \in Users, NEW s \in Sandboxes, NEW agg \in BOOLEAN, Backlog!Enqueue(u, s, agg)
        PROVE  BacklogInv'
    <2> DEFINE v == Backlog!NewVoucher(u, s, agg)   q == Append(queued, v)
    <2>1. queued' = q /\ heldList' = heldList /\ n < MaxEntries
      BY <1>3 DEF Backlog!Enqueue
    <2>2. n \in Nat /\ v \in BV /\ \A x : Occurs(v.uses, x) = IF x = n + 1 THEN 1 ELSE 0
      BY <2>1, NextVoucher
    <2> HIDE DEF v
    <2>3. q \in Seq(BV) /\ Len(q) = Len(queued) + 1
      BY <1>1, <2>2
    <2>4. Backlog!Total' = n + 1
      BY <1>2, <2>1, <2>3 DEF Backlog!Total
    <2> HIDE DEF n
    <2>5. ASSUME NEW x PROVE Billed(q, x) + Billed(heldList, x) = IF x \in 1..(n + 1) THEN 1 ELSE 0
      <3>1. /\ Billed(q, x) = Billed(queued, x) + Occurs(v.uses, x)
            /\ Billed(queued, x) \in Nat /\ Billed(heldList, x) \in Nat
        BY <1>1, <2>2, BilledByOne
      <3>2. x \in 1..(n + 1) <=> x \in 1..n \/ x = n + 1
        BY <2>2
      <3>3. n + 1 \notin 1..n
        BY <2>2
      <3> QED BY <1>1, <2>2, <3>1, <3>2, <3>3
    <2>6. \A x : Billed(queued', x) + Billed(heldList', x) = IF x \in 1..Backlog!Total' THEN 1 ELSE 0
      BY <2>1, <2>4, <2>5
    <2> QED BY <1>1, <2>1, <2>3, <2>6 DEF BacklogInv
  <1>4. ASSUME NEW s \in Sandboxes, Backlog!Hold(s) PROVE BacklogInv'
    <2> DEFINE v == Backlog!NewVoucher(Backlog!Debtor, s, FALSE)   q == Append(heldList, v)
    <2>1. heldList' = q /\ queued' = queued /\ n < MaxEntries
      BY <1>4 DEF Backlog!Hold
    <2>2. n \in Nat /\ v \in BV /\ v.user = Backlog!Debtor /\ \A x : Occurs(v.uses, x) = IF x = n + 1 THEN 1 ELSE 0
      BY <2>1, NextVoucher
    <2> HIDE DEF v
    <2>3. q \in Seq(BV) /\ Len(q) = Len(heldList) + 1
      BY <1>1, <2>2
    <2>4. Backlog!Total' = n + 1
      BY <1>2, <2>1, <2>3 DEF Backlog!Total
    <2> HIDE DEF n
    <2>5. ASSUME NEW x PROVE Billed(queued, x) + Billed(q, x) = IF x \in 1..(n + 1) THEN 1 ELSE 0
      <3>1. /\ Billed(q, x) = Billed(heldList, x) + Occurs(v.uses, x)
            /\ Billed(queued, x) \in Nat /\ Billed(heldList, x) \in Nat
        BY <1>1, <2>2, BilledByOne
      <3>2. x \in 1..(n + 1) <=> x \in 1..n \/ x = n + 1
        BY <2>2
      <3>3. n + 1 \notin 1..n
        BY <2>2
      <3> QED BY <1>1, <2>2, <3>1, <3>2, <3>3
    <2>6. \A x : Billed(queued', x) + Billed(heldList', x) = IF x \in 1..Backlog!Total' THEN 1 ELSE 0
      BY <2>1, <2>4, <2>5
    <2>7. Backlog!QueuedUsers(q) \subseteq {Backlog!Debtor}
      BY <1>1, <2>2, UsersByOne
    <2> QED BY <1>1, <2>1, <2>3, <2>6, <2>7 DEF BacklogInv
  <1>5. CASE UNCHANGED Backlog!vars
    BY <1>5 DEF BacklogInv, Backlog!vars, Backlog!Total
  <1> QED BY <1>3, <1>4, <1>5 DEF Backlog!Next

\* What the queue and the held list bill once, CollapseBySandbox, AggregateCovered and Aggregate bill once.
LEMMA UnitsAreKept == ASSUME BacklogInv PROVE KeepsEveryUnit
  <1> DEFINE D == Backlog!Debtor
  <1>1. /\ queued \in Seq(BV) /\ heldList \in Seq(BV) /\ Backlog!QueuedUsers(heldList) \subseteq {D}
        /\ \A x : Billed(queued, x) + Billed(heldList, x) <= 1
    <2>1. \A x : Billed(queued, x) + Billed(heldList, x) = IF x \in 1..Backlog!Total THEN 1 ELSE 0
      BY DEF BacklogInv
    <2>2. \A x : Billed(queued, x) + Billed(heldList, x) <= 1
      BY <2>1
    <2> QED BY <2>2 DEF BacklogInv
  <1>2. \A x : /\ Billed(queued \o heldList, x) <= 1 /\ Billed(queued, x) <= 1
    <2>1. ASSUME NEW x PROVE /\ Billed(queued \o heldList, x) <= 1 /\ Billed(queued, x) <= 1
      <3>1. /\ Billed(queued \o heldList, x) = Billed(queued, x) + Billed(heldList, x)
            /\ Billed(queued, x) \in Nat /\ Billed(heldList, x) \in Nat
        BY <1>1, BilledByOne
      <3> QED BY <1>1, <3>1
    <2> QED BY <2>1
  <1>3. queued \o heldList \in Seq(BV)
    BY <1>1
  <1>4. Backlog!CollapseIsGrouping
    BY <1>1, CollapseGroups, GroupedSays DEF Backlog!CollapseIsGrouping
  <1>5. Backlog!RewriteKeepsEveryUnit
    <2>1. ASSUME NEW m \in 0..MaxBalance
          PROVE  LET r == Backlog!AggregateCovered(queued, heldList, D, m)
                 IN  /\ Backlog!NoUnitTwice(r.queue \o r.held)
                     /\ Backlog!ToSet(Backlog!Uses(r.queue \o r.held)) = Backlog!ToSet(Backlog!Uses(queued \o heldList))
                     /\ Backlog!IsPrefix(Backlog!NotOf(queued, D), r.queue)
                     /\ \A i \in DOMAIN r.held : r.held[i].user = D
                     /\ \A u \in Users \ {D} : Backlog!UnitsOf(r.queue, u) = Backlog!UnitsOf(queued, u)
      <3> DEFINE r == Backlog!AggregateCovered(queued, heldList, D, m)
      <3>1. m \in Nat
        BY BacklogAssumption
      <3>2. Rewritten(r, queued, heldList, D)
        BY <1>1, <3>1, RewriteKeeps
      <3> HIDE DEF r, D
      <3>3. /\ r.queue \in Seq(BV) /\ r.held \in Seq(BV)
            /\ \A x : Billed(r.queue \o r.held, x) = Billed(queued \o heldList, x)
            /\ Backlog!IsPrefix(Backlog!NotOf(queued, D), r.queue)
            /\ Backlog!QueuedUsers(r.held) \subseteq {D}
            /\ \A w : w # D => Backlog!QueuedOf(r.queue, w) = Backlog!QueuedOf(queued, w)
        BY <3>2 DEF Rewritten
      <3> DEFINE l == r.queue \o r.held
      <3>4. l \in Seq(BV)
        BY <3>3
      <3>5. (\A x : Billed(l, x) = Billed(queued \o heldList, x)) /\ \A x : Billed(l, x) <= 1
        BY <1>2, <3>3
      <3> HIDE DEF l
      <3>6. Backlog!NoUnitTwice(l)
        BY <3>4, <3>5, NoneTwice
      <3>7. Backlog!ToSet(Backlog!Uses(l)) = Backlog!ToSet(Backlog!Uses(queued \o heldList))
        BY <1>3, <3>4, <3>5, SameUnits
      <3>8. \A i \in DOMAIN r.held : r.held[i].user = D
        BY <3>3 DEF Backlog!QueuedUsers
      <3>9. \A u \in Users \ {D} : Backlog!UnitsOf(r.queue, u) = Backlog!UnitsOf(queued, u)
        BY <3>3 DEF Backlog!UnitsOf
      <3> QED BY <3>3, <3>6, <3>7, <3>8, <3>9 DEF r, l
    <2> QED BY <2>1 DEF Backlog!RewriteKeepsEveryUnit
  <1>6. Backlog!AggregateKeepsEveryUnit
    <2>1. ASSUME NEW u \in Users
          PROVE  LET r == Backlog!Aggregate(queued, u)
                 IN  /\ Backlog!UnitsOf(r, u) = Backlog!UnitsOf(queued, u)
                     /\ Backlog!NoUnitTwice(r)
                     /\ Backlog!NotOf(r, u) = Backlog!NotOf(queued, u)
                     /\ Len(Backlog!QueuedOf(r, u)) <= 1
      <3> DEFINE r == Backlog!Aggregate(queued, u)
      <3>1. Aggregated(r, queued, u)
        BY <1>1, AggregateKeeps
      <3> HIDE DEF r
      <3>2. r \in Seq(BV) /\ \A x : Billed(r, x) <= 1
        BY <1>2, <3>1 DEF Aggregated
      <3>3. Backlog!NoUnitTwice(r)
        BY <3>2, NoneTwice
      <3> QED BY <3>1, <3>3 DEF Aggregated, Backlog!UnitsOf, r
    <2> QED BY <2>1 DEF Backlog!AggregateKeepsEveryUnit
  <1> QED BY <1>4, <1>5, <1>6 DEF KeepsEveryUnit

\* The debt is a list of vouchers, and of any such list the split pays the longest affordable prefix.
LEMMA SplitsAreRight == ASSUME BacklogInv PROVE SplitIsLongestPrefix
  <1> DEFINE mine == heldList \o Backlog!QueuedOf(queued, Backlog!Debtor)
  <1>1. mine \in Seq(BV)
    BY MineAndTheirs DEF BacklogInv
  <1>2. ASSUME NEW m \in 0..MaxBalance PROVE IsSplit(Backlog!SplitBacklog(mine, m), mine, m)
    <2>1. m \in Nat
      BY BacklogAssumption
    <2> HIDE DEF mine
    <2> QED BY <1>1, <2>1, SplitIsRight
  <1> QED BY <1>2 DEF IsSplit, SplitIsLongestPrefix, Backlog!SplitIsLongestPrefix

\* The split pays the longest affordable prefix of the debt, oldest first, whatever the
\* backlog, the fees and the balance (AggregateCovered).
THEOREM SplitIsLongest == ProxySpec => []SplitIsLongestPrefix
  <1>1. ProxyInit => BacklogInv
    BY BacklogInit DEF ProxyInit
  <1>2. BacklogInv /\ [ProxyNext]_proxyVars => BacklogInv'
    BY OnePartMoves, BacklogKept
  <1>3. BacklogInv => SplitIsLongestPrefix
    BY SplitsAreRight
  <1> QED BY <1>1, <1>2, <1>3, PTL DEF ProxySpec

\* No rewrite of a backlog creates, loses or misattributes a usage unit, however long it is:
\* CollapseBySandbox is the grouping by user and sandbox, and AggregateCovered and Aggregate bill
\* the units that were there.
THEOREM EveryUnitIsKept == ProxySpec => []KeepsEveryUnit
  <1>1. ProxyInit => BacklogInv
    BY BacklogInit DEF ProxyInit
  <1>2. BacklogInv /\ [ProxyNext]_proxyVars => BacklogInv'
    BY OnePartMoves, BacklogKept
  <1>3. BacklogInv => KeepsEveryUnit
    BY UnitsAreKept
  <1> QED BY <1>1, <1>2, <1>3, PTL DEF ProxySpec
=============================================================================
