---------------------------- MODULE BrokerProofs ----------------------------
(* Theorems about the broker, for any number of sandboxes, concurrent requests *)
(* and deposits, any freshness window and any life of an anti-replay key that  *)
(* is longer.                                                                  *)
EXTENDS Broker, FiniteSetTheorems, TLAPS

-----------------------------------------------------------------------------
(* The inductive invariant. *)

IsPost(p) ==
    /\ DOMAIN p = {"pc", "req", "amount", "slot"}
    /\ p.pc \in {"idle", "deficit", "asked", "waiting", "funded"}
    /\ p.pc # "idle" => p.req \in Requests(SeenTTL)
    /\ p.amount \in Nat
    /\ p.slot \in Slots \cup {None} /\ (p.pc = "asked" => p.slot \in Slots)

IsDeposit(d) ==
    /\ DOMAIN d = {"state", "amount", "polled"}
    /\ d.state \in {"unused", "pending", "landed", "failed"}
    /\ d.amount \in Nat /\ d.polled \in BOOLEAN

IsMonitor(m) ==
    /\ DOMAIN m = {"pc", "amount", "slot"}
    /\ m.pc \in {"idle", "low", "asked"} /\ m.amount \in Nat
    /\ m.slot \in Slots \cup {None} /\ (m.pc = "asked" => m.slot \in Slots)

DepositTypes == deposit = [s \in Slots |-> deposit[s]] /\ \A s \in Slots : IsDeposit(deposit[s])

Types ==
    /\ balance \in Nat /\ service \in BOOLEAN /\ running \subseteq Sandboxes
    /\ posts \subseteq Requests(SeenTTL + 1) /\ deletes \subseteq Requests(Window)
    /\ session \subseteq Sandboxes /\ seen \subseteq Requests(SeenTTL)
    /\ inflight \in Slots \cup {None} /\ backoff \in 0..(FailedBackoff + TimeoutBackoff)
    /\ DepositTypes
    /\ post = [h \in Handlers |-> post[h]] /\ \A h \in Handlers : IsPost(post[h])
    /\ IsMonitor(monitor)
    /\ answered \subseteq Requests(SeenTTL + 1) /\ stranded \in Nat

\* A request that was answered has its key for as long as keys live.
KeyKept == \A r \in answered : r.age <= SeenTTL => r \in seen

\* The requests in progress that have decided on a deposit.
Deciding == {h \in Handlers : PostAt(h, "deficit")}

\* Deposits still to come after the removal were decided on before it.
Decided ==
    /\ service => stranded = 0
    /\ stranded + Cardinality(Deciding) + (IF monitor.pc = "low" THEN 1 ELSE 0)
          <= Cardinality(Handlers) + 1

BrokerInv == Types /\ KeyKept /\ Decided
-----------------------------------------------------------------------------
(* Types. *)

\* The smaller of two numbers is one of them.
LEMMA MinOfTwo ==
    ASSUME NEW a \in Nat, NEW b \in Nat
    PROVE  Min({a, b}) \in Nat
  <1>1. \E x \in {a, b} : \A y \in {a, b} : x <= y
    OBVIOUS
  <1> QED BY <1>1 DEF Min

\* A deposit that is asked for.
LEMMA AskType ==
    ASSUME DepositTypes, stranded \in Nat, NEW s \in Slots, NEW amount \in Nat, AskForDeposit(s, amount)
    PROVE  DepositTypes' /\ stranded' \in Nat
  <1>1. IsDeposit([state |-> "pending", amount |-> amount, polled |-> FALSE])
    BY DEF IsDeposit
  <1>2. DepositTypes'
    BY <1>1 DEF DepositTypes, AskForDeposit
  <1>3. stranded' \in Nat
    BY DEF AskForDeposit
  <1> QED BY <1>2, <1>3

\* A deposit that is marked.
LEMMA MarkType ==
    ASSUME DepositTypes, NEW s \in Slots, MarkInflight(s)
    PROVE  DepositTypes' /\ inflight' \in Slots
  <1>1. IsDeposit([deposit[s] EXCEPT !.polled = TRUE])
    BY DEF DepositTypes, IsDeposit
  <1> QED BY <1>1 DEF DepositTypes, MarkInflight

\* A deposit that lands or fails.
LEMMA ResolveType ==
    ASSUME DepositTypes, NEW s \in Slots, NEW state \in {"landed", "failed"}, Resolve(s, state)
    PROVE  DepositTypes'
  <1>1. IsDeposit([deposit[s] EXCEPT !.state = state]) /\ IsDeposit(NoDeposit)
    BY DEF DepositTypes, IsDeposit, NoDeposit
  <1> QED BY <1>1 DEF DepositTypes, Resolve

\* A deposit nobody follows any more.
LEMMA UnfollowedType ==
    ASSUME NEW d, IsDeposit(d)
    PROVE  IsDeposit(Unfollowed(d))
  <1>1. IsDeposit([d EXCEPT !.polled = FALSE]) /\ IsDeposit(NoDeposit)
    BY DEF IsDeposit, NoDeposit
  <1> QED BY <1>1 DEF Unfollowed

\* Every step keeps the types.
LEMMA TypesStep ==
    ASSUME Types, Next
    PROVE  Types'
  <1> USE SandboxesAssumption, HandlersAssumption, TimesAssumption, AmountsAssumption, BoundsAssumption
      DEF Types, redisVars, chainVars, netVars, historyVars, boundVars, None, Requests, Kinds
  <1>1. CASE RequestFunding
    BY <1>1 DEF RequestFunding, DepositTypes
  <1>2. ASSUME NEW sb \in Sandboxes, StartSandbox(sb) PROVE Types'
    BY <1>2 DEF StartSandbox, DepositTypes
  <1>3. ASSUME NEW sb \in Sandboxes, StopSandbox(sb) PROVE Types'
    BY <1>3 DEF StopSandbox, DepositTypes
  <1>4. ASSUME NEW h \in Handlers, NEW r \in posts, Accept(h, r) PROVE Types'
    BY <1>4 DEF Accept, PostAt, Needed, Fresh, IsPost, DepositTypes
  <1>5. ASSUME NEW h \in Handlers, NEW s \in Slots, FundDeficit(h, s) PROVE Types'
    <2>1. DepositTypes' /\ stranded' \in Nat
      BY <1>5, AskType DEF FundDeficit, IsPost
    <2>2. \A g \in Handlers : IsPost(post'[g])
      BY <1>5 DEF FundDeficit, PostAt, IsPost
    <2> QED BY <1>5, <2>1, <2>2 DEF FundDeficit
  <1>6. ASSUME NEW h \in Handlers, Marked(h) PROVE Types'
    <2>1. post[h].slot \in Slots
      BY <1>6 DEF Marked, PostAt, IsPost
    <2>2. DepositTypes' /\ inflight' \in Slots
      BY <1>6, <2>1, MarkType DEF Marked
    <2>3. \A g \in Handlers : IsPost(post'[g])
      BY <1>6 DEF Marked, PostAt, IsPost
    <2> QED BY <1>6, <2>2, <2>3 DEF Marked
  <1>7. ASSUME NEW h \in Handlers, Confirmed(h) PROVE Types'
    BY <1>7 DEF Confirmed, PostAt, PostTo, IsPost, DepositTypes
  <1>8. ASSUME NEW h \in Handlers, GiveUp(h) PROVE Types'
    BY <1>8 DEF GiveUp, PostEnds, Waiting, IsPost, DepositTypes
  <1>9. ASSUME NEW h \in Handlers, Register(h) PROVE Types'
    BY <1>9 DEF Register, PostAt, PostEnds, WriteSeen, Waiting, IsPost, DepositTypes
  <1>10. ASSUME NEW h \in Handlers, RegisterCancelled(h) PROVE Types'
    BY <1>10 DEF RegisterCancelled, PostAt, PostEnds, WriteSeen, Waiting, IsPost, DepositTypes
  <1>11. ASSUME NEW r \in deletes, Deregister(r) PROVE Types'
    BY <1>11 DEF Deregister, DepositTypes
  <1>12. CASE Check
    <2>1. Burn \in Nat
      BY FS_Subset, FS_CardinalityType DEF Burn
    <2>2. Burn * TopupIntervals - balance \in Nat
      <3>1. Burn * ThresholdIntervals <= Burn * TopupIntervals
        BY <2>1
      <3>2. Burn * ThresholdIntervals \in Nat /\ Burn * TopupIntervals \in Nat
        BY <2>1
      <3> QED BY <1>12, <3>1, <3>2 DEF Check
    <2>3. IsMonitor(monitor')
      BY <1>12, <2>2 DEF Check, IsMonitor
    <2> QED BY <1>12, <2>3 DEF Check, DepositTypes
  <1>13. ASSUME NEW s \in Slots, TopUp(s) PROVE Types'
    <2>1. DepositTypes' /\ stranded' \in Nat
      BY <1>13, AskType DEF TopUp, IsMonitor
    <2> QED BY <1>13, <2>1 DEF TopUp, IsMonitor
  <1>14. CASE TopUpMarked
    <2>1. monitor.slot \in Slots
      BY <1>14 DEF TopUpMarked, IsMonitor
    <2>2. DepositTypes' /\ inflight' \in Slots
      BY <1>14, <2>1, MarkType DEF TopUpMarked
    <2> QED BY <1>14, <2>2 DEF TopUpMarked, Asleep, IsMonitor
  <1>15. CASE TopUpRefused
    BY <1>15 DEF TopUpRefused, Asleep, IsMonitor, DepositTypes
  <1>16. ASSUME NEW s \in Slots, Land(s) PROVE Types'
    <2>1. balance' \in Nat
      <3>1. balance + deposit[s].amount \in Nat
        BY DEF DepositTypes, IsDeposit
      <3> QED BY <1>16, <3>1, MinOfTwo DEF Land
    <2>2. DepositTypes'
      BY <1>16, ResolveType DEF Land
    <2> QED BY <1>16, <2>1, <2>2 DEF Land
  <1>17. ASSUME NEW s \in Slots, Fail(s) PROVE Types'
    <2>1. DepositTypes'
      BY <1>17, ResolveType DEF Fail
    <2> QED BY <1>17, <2>1 DEF Fail
  <1>18. ASSUME NEW s \in Slots, PollEnds(s) PROVE Types'
    <2>1. DepositTypes'
      BY <1>18, UnfollowedType DEF PollEnds, DepositTypes
    <2> QED BY <1>18, <2>1 DEF PollEnds
  <1>19. CASE ExpireInflight
    BY <1>19 DEF ExpireInflight, DepositTypes
  <1>20. CASE Settle
    BY <1>20 DEF Settle, DepositTypes
  <1>21. CASE RemoveService
    BY <1>21 DEF RemoveService, DepositTypes
  <1>22. CASE Tick
    BY <1>22 DEF Tick, Aged, PostAt, Waiting, DepositTypes, IsPost
  <1>23. CASE Restart
    <2>1. DepositTypes'
      BY <1>23, UnfollowedType DEF Restart, DepositTypes
    <2> QED BY <1>23, <2>1 DEF Restart, Waiting, Asleep, IsPost, IsMonitor
  <1> QED BY <1>1, <1>2, <1>3, <1>4, <1>5, <1>6, <1>7, <1>8, <1>9, <1>10, <1>11, <1>12, <1>13,
             <1>14, <1>15, <1>16, <1>17, <1>18, <1>19, <1>20, <1>21, <1>22, <1>23
                 DEF Next, HandlePost, MonitorStep

-----------------------------------------------------------------------------
(* The anti-replay key. *)

\* A key and its request grow old together.
LEMMA KeyKeptStep ==
    ASSUME Types, KeyKept, Next
    PROVE  KeyKept'
  <1> USE DEF KeyKept, Types, redisVars, chainVars, netVars, historyVars, boundVars
  <1>1. CASE RequestFunding
    BY <1>1 DEF RequestFunding
  <1>2. ASSUME NEW sb \in Sandboxes, StartSandbox(sb) PROVE KeyKept'
    BY <1>2 DEF StartSandbox
  <1>3. ASSUME NEW sb \in Sandboxes, StopSandbox(sb) PROVE KeyKept'
    BY <1>3 DEF StopSandbox
  <1>4. ASSUME NEW h \in Handlers, NEW r \in posts, Accept(h, r) PROVE KeyKept'
    BY <1>4 DEF Accept, PostAt, Needed, Fresh
  <1>5. ASSUME NEW h \in Handlers, NEW s \in Slots, FundDeficit(h, s) PROVE KeyKept'
    BY <1>5 DEF FundDeficit, PostAt, AskForDeposit
  <1>6. ASSUME NEW h \in Handlers, Marked(h) PROVE KeyKept'
    BY <1>6 DEF Marked, PostAt, MarkInflight
  <1>7. ASSUME NEW h \in Handlers, Confirmed(h) PROVE KeyKept'
    BY <1>7 DEF Confirmed, PostAt, PostTo
  <1>8. ASSUME NEW h \in Handlers, GiveUp(h) PROVE KeyKept'
    BY <1>8 DEF GiveUp, PostEnds, Waiting
  <1>9. ASSUME NEW h \in Handlers, Register(h) PROVE KeyKept'
    BY <1>9 DEF Register, PostAt, PostEnds, WriteSeen, Waiting
  <1>10. ASSUME NEW h \in Handlers, RegisterCancelled(h) PROVE KeyKept'
    BY <1>10 DEF RegisterCancelled, PostAt, PostEnds, WriteSeen, Waiting
  <1>11. ASSUME NEW r \in deletes, Deregister(r) PROVE KeyKept'
    BY <1>11 DEF Deregister
  <1>12. CASE Check
    BY <1>12 DEF Check, LookUpService, Burn
  <1>13. ASSUME NEW s \in Slots, TopUp(s) PROVE KeyKept'
    BY <1>13 DEF TopUp, AskForDeposit
  <1>14. CASE TopUpMarked
    BY <1>14 DEF TopUpMarked, MarkInflight, Asleep
  <1>15. CASE TopUpRefused
    BY <1>15 DEF TopUpRefused, Asleep
  <1>16. ASSUME NEW s \in Slots, Land(s) PROVE KeyKept'
    BY <1>16 DEF Land, Resolve, NoDeposit
  <1>17. ASSUME NEW s \in Slots, Fail(s) PROVE KeyKept'
    BY <1>17 DEF Fail, Resolve, NoDeposit
  <1>18. ASSUME NEW s \in Slots, PollEnds(s) PROVE KeyKept'
    BY <1>18 DEF PollEnds, Unfollowed, NoDeposit
  <1>19. CASE ExpireInflight
    BY <1>19 DEF ExpireInflight
  <1>20. CASE Settle
    BY <1>20 DEF Settle
  <1>21. CASE RemoveService
    BY <1>21 DEF RemoveService
  <1>22. CASE Tick
    BY <1>22, TimesAssumption DEF Tick, Aged, Requests
  <1>23. CASE Restart
    BY <1>23 DEF Restart, Waiting, Asleep, Unfollowed, NoDeposit
  <1> QED BY <1>1, <1>2, <1>3, <1>4, <1>5, <1>6, <1>7, <1>8, <1>9, <1>10, <1>11, <1>12, <1>13,
             <1>14, <1>15, <1>16, <1>17, <1>18, <1>19, <1>20, <1>21, <1>22, <1>23
                 DEF Next, HandlePost, MonitorStep

\* What is taken up was never answered.
LEMMA NoReplayStep ==
    ASSUME Types, KeyKept, Next
    PROVE  \A g \in Handlers : PostAt(g, "idle") /\ post'[g].pc # "idle" => post'[g].req \notin answered
  <1> DEFINE Goal == \A g \in Handlers : PostAt(g, "idle") /\ post'[g].pc # "idle" => post'[g].req \notin answered
  <1> USE DEF KeyKept, Types, redisVars, chainVars, netVars, historyVars, boundVars, PostAt
  <1>1. CASE RequestFunding
    BY <1>1 DEF RequestFunding
  <1>2. ASSUME NEW sb \in Sandboxes, StartSandbox(sb) PROVE Goal
    BY <1>2 DEF StartSandbox
  <1>3. ASSUME NEW sb \in Sandboxes, StopSandbox(sb) PROVE Goal
    BY <1>3 DEF StopSandbox
  <1>4. ASSUME NEW h \in Handlers, NEW r \in posts, Accept(h, r) PROVE Goal
    BY <1>4, TimesAssumption DEF Accept, Fresh, Requests
  <1>5. ASSUME NEW h \in Handlers, NEW s \in Slots, FundDeficit(h, s) PROVE Goal
    BY <1>5 DEF FundDeficit, PostAt
  <1>6. ASSUME NEW h \in Handlers, Marked(h) PROVE Goal
    BY <1>6 DEF Marked, PostAt, MarkInflight
  <1>7. ASSUME NEW h \in Handlers, Confirmed(h) PROVE Goal
    BY <1>7 DEF Confirmed, PostAt, PostTo
  <1>8. ASSUME NEW h \in Handlers, GiveUp(h) PROVE Goal
    BY <1>8 DEF GiveUp, PostEnds, Waiting
  <1>9. ASSUME NEW h \in Handlers, Register(h) PROVE Goal
    BY <1>9 DEF Register, PostAt, PostEnds, WriteSeen, Waiting
  <1>10. ASSUME NEW h \in Handlers, RegisterCancelled(h) PROVE Goal
    BY <1>10 DEF RegisterCancelled, PostAt, PostEnds, WriteSeen, Waiting
  <1>11. ASSUME NEW r \in deletes, Deregister(r) PROVE Goal
    BY <1>11 DEF Deregister
  <1>12. CASE Check
    BY <1>12 DEF Check, LookUpService, Burn
  <1>13. ASSUME NEW s \in Slots, TopUp(s) PROVE Goal
    BY <1>13 DEF TopUp, AskForDeposit
  <1>14. CASE TopUpMarked
    BY <1>14 DEF TopUpMarked, MarkInflight, Asleep
  <1>15. CASE TopUpRefused
    BY <1>15 DEF TopUpRefused, Asleep
  <1>16. ASSUME NEW s \in Slots, Land(s) PROVE Goal
    BY <1>16 DEF Land, Resolve, NoDeposit
  <1>17. ASSUME NEW s \in Slots, Fail(s) PROVE Goal
    BY <1>17 DEF Fail, Resolve, NoDeposit
  <1>18. ASSUME NEW s \in Slots, PollEnds(s) PROVE Goal
    BY <1>18 DEF PollEnds, Unfollowed, NoDeposit
  <1>19. CASE ExpireInflight
    BY <1>19 DEF ExpireInflight
  <1>20. CASE Settle
    BY <1>20 DEF Settle
  <1>21. CASE RemoveService
    BY <1>21 DEF RemoveService
  <1>22. CASE Tick
    BY <1>22 DEF Tick, Aged, PostAt, Waiting
  <1>23. CASE Restart
    BY <1>23 DEF Restart, Waiting, Asleep, Unfollowed, NoDeposit
  <1> QED BY <1>1, <1>2, <1>3, <1>4, <1>5, <1>6, <1>7, <1>8, <1>9, <1>10, <1>11, <1>12, <1>13,
             <1>14, <1>15, <1>16, <1>17, <1>18, <1>19, <1>20, <1>21, <1>22, <1>23
                 DEF Next, HandlePost, MonitorStep

-----------------------------------------------------------------------------
(* Deposits after the removal of the service. *)

\* The requests that have decided are among the handlers.
LEMMA DecidingFinite ==
    /\ IsFiniteSet(Deciding) /\ Cardinality(Deciding) \in Nat /\ Cardinality(Handlers) \in Nat
    /\ Cardinality(Deciding) <= Cardinality(Handlers)
  BY HandlersAssumption, FS_Subset, FS_CardinalityType DEF Deciding

\* Fewer have decided than before.
LEMMA DecidingShrinks ==
    ASSUME Deciding' \subseteq Deciding
    PROVE  Cardinality(Deciding') \in Nat /\ Cardinality(Deciding') <= Cardinality(Deciding)
  BY DecidingFinite, FS_Subset, FS_CardinalityType

\* With the service there, nothing is stranded, and no more decide than there are.
LEMMA WhileRegistered ==
    ASSUME service', stranded' = 0
    PROVE  Decided'
  <1>1. IsFiniteSet(Deciding') /\ Cardinality(Deciding') \in Nat /\ Cardinality(Deciding') <= Cardinality(Handlers)
    BY HandlersAssumption, FS_Subset, FS_CardinalityType DEF Deciding
  <1>2. Cardinality(Handlers) \in Nat
    BY HandlersAssumption, FS_CardinalityType
  <1> QED BY <1>1, <1>2 DEF Decided

\* No step but those of the payment layer's client strands a deposit.
LEMMA NoNewDecision ==
    ASSUME Types, Decided, Deciding' \subseteq Deciding, monitor'.pc = "low" => monitor.pc = "low",
           service' => service, stranded' = stranded
    PROVE  Decided'
  BY DecidingFinite, DecidingShrinks DEF Decided, Types

\* Whoever asks for a deposit has decided on it before the service went.
LEMMA DecidedStep ==
    ASSUME Types, Decided, Next
    PROVE  Decided'
  <1> USE DEF redisVars, chainVars, netVars, historyVars, boundVars
  <1>1. CASE RequestFunding
    BY <1>1, NoNewDecision DEF RequestFunding, Deciding, PostAt
  <1>2. ASSUME NEW sb \in Sandboxes, StartSandbox(sb) PROVE Decided'
    BY <1>2, NoNewDecision DEF StartSandbox, Deciding, PostAt
  <1>3. ASSUME NEW sb \in Sandboxes, StopSandbox(sb) PROVE Decided'
    BY <1>3, NoNewDecision DEF StopSandbox, Deciding, PostAt
  <1>4. ASSUME NEW h \in Handlers, NEW r \in posts, Accept(h, r) PROVE Decided'
    BY <1>4, WhileRegistered DEF Accept, Decided
  <1>5. ASSUME NEW h \in Handlers, NEW s \in Slots, FundDeficit(h, s) PROVE Decided'
    <2>1. CASE service
      BY <1>5, <2>1, WhileRegistered DEF FundDeficit, AskForDeposit, Decided
    <2>2. CASE ~service
      <3>1. h \in Deciding /\ Deciding' = Deciding \ {h}
        BY <1>5 DEF FundDeficit, Deciding, PostAt, Types
      <3>2. Cardinality(Deciding') = Cardinality(Deciding) - 1
        BY <3>1, DecidingFinite, FS_RemoveElement
      <3>3. stranded' = stranded + 1 /\ monitor' = monitor /\ ~service'
        BY <1>5, <2>2 DEF FundDeficit, AskForDeposit
      <3> QED BY <3>2, <3>3, DecidingFinite DEF Decided, Types
    <2> QED BY <2>1, <2>2
  <1>6. ASSUME NEW h \in Handlers, Marked(h) PROVE Decided'
    BY <1>6, NoNewDecision DEF Marked, PostAt, MarkInflight, Asleep, Types, IsPost, Deciding
  <1>7. ASSUME NEW h \in Handlers, Confirmed(h) PROVE Decided'
    BY <1>7, NoNewDecision DEF Confirmed, PostAt, PostTo, Asleep, Types, IsPost, Deciding
  <1>8. ASSUME NEW h \in Handlers, GiveUp(h) PROVE Decided'
    BY <1>8, NoNewDecision DEF GiveUp, PostEnds, Waiting, Asleep, Types, IsPost, Deciding, PostAt
  <1>9. ASSUME NEW h \in Handlers, Register(h) PROVE Decided'
    BY <1>9, NoNewDecision DEF Register, PostAt, PostEnds, WriteSeen, Waiting, Asleep, Types,
       IsPost, Deciding
  <1>10. ASSUME NEW h \in Handlers, RegisterCancelled(h) PROVE Decided'
    BY <1>10, NoNewDecision DEF RegisterCancelled, PostAt, PostEnds, WriteSeen, Waiting, Asleep,
       Types, IsPost, Deciding
  <1>11. ASSUME NEW r \in deletes, Deregister(r) PROVE Decided'
    BY <1>11, NoNewDecision DEF Deregister, Deciding, PostAt
  <1>12. CASE Check
    BY <1>12, WhileRegistered DEF Check, LookUpService, Decided
  <1>13. ASSUME NEW s \in Slots, TopUp(s) PROVE Decided'
    <2>1. CASE service
      BY <1>13, <2>1, WhileRegistered DEF TopUp, AskForDeposit, Decided
    <2>2. CASE ~service
      <3>1. Deciding' = Deciding
        BY <1>13 DEF TopUp, Deciding, PostAt
      <3>2. stranded' = stranded + 1 /\ monitor.pc = "low" /\ monitor'.pc = "asked" /\ ~service'
        BY <1>13, <2>2 DEF TopUp, AskForDeposit, Types, IsMonitor
      <3> QED BY <3>1, <3>2, DecidingFinite DEF Decided, Types
    <2> QED BY <2>1, <2>2
  <1>14. CASE TopUpMarked
    BY <1>14, NoNewDecision DEF TopUpMarked, Asleep, Deciding, PostAt
  <1>15. CASE TopUpRefused
    BY <1>15, NoNewDecision DEF TopUpRefused, Asleep, Deciding, PostAt
  <1>16. ASSUME NEW s \in Slots, Land(s) PROVE Decided'
    BY <1>16, NoNewDecision DEF Land, Deciding, PostAt
  <1>17. ASSUME NEW s \in Slots, Fail(s) PROVE Decided'
    BY <1>17, NoNewDecision DEF Fail, Deciding, PostAt
  <1>18. ASSUME NEW s \in Slots, PollEnds(s) PROVE Decided'
    BY <1>18, NoNewDecision DEF PollEnds, Deciding, PostAt
  <1>19. CASE ExpireInflight
    BY <1>19, NoNewDecision DEF ExpireInflight, Deciding, PostAt
  <1>20. CASE Settle
    BY <1>20, NoNewDecision DEF Settle, Deciding, PostAt
  <1>21. CASE RemoveService
    BY <1>21, NoNewDecision DEF RemoveService, Deciding, PostAt
  <1>22. CASE Tick
    BY <1>22, NoNewDecision DEF Tick, Aged, PostAt, Waiting, Asleep, Types, IsPost, Deciding
  <1>23. CASE Restart
    BY <1>23, NoNewDecision DEF Restart, Waiting, Asleep, Unfollowed, NoDeposit, Types, IsPost,
       Deciding, PostAt
  <1> QED BY <1>1, <1>2, <1>3, <1>4, <1>5, <1>6, <1>7, <1>8, <1>9, <1>10, <1>11, <1>12, <1>13,
             <1>14, <1>15, <1>16, <1>17, <1>18, <1>19, <1>20, <1>21, <1>22, <1>23
                 DEF Next, HandlePost, MonitorStep

-----------------------------------------------------------------------------
(* The theorems. *)

\* The broker comes up with nothing promised.
LEMMA InitInv == ASSUME Init PROVE BrokerInv
  <1>1. Types
    <2>1. IsDeposit(NoDeposit) /\ IsPost(Waiting) /\ IsMonitor(Asleep)
      BY DEF IsDeposit, NoDeposit, IsPost, Waiting, IsMonitor, Asleep, None
    <2> QED BY <2>1, TimesAssumption DEF Init, Types, DepositTypes
  <1>2. Deciding = {}
    BY DEF Init, Deciding, PostAt, Waiting
  <1>3. Decided
    BY <1>2, FS_EmptySet, DecidingFinite DEF Init, Decided, Asleep
  <1> QED BY <1>1, <1>3 DEF Init, BrokerInv, KeyKept

\* Every step keeps the invariant.
LEMMA InvStep == ASSUME BrokerInv, [Next]_vars PROVE BrokerInv'
  <1>1. CASE Next
    BY <1>1, TypesStep, KeyKeptStep, DecidedStep DEF BrokerInv
  <1>2. CASE UNCHANGED vars
    <2>1. UNCHANGED <<balance, service, running, posts, deletes, session, seen, inflight, backoff,
                      deposit, post, monitor, answered, stranded>>
      BY <1>2 DEF vars, redisVars, chainVars, netVars, historyVars
    <2> QED BY <2>1 DEF BrokerInv, Types, DepositTypes, KeyKept, Decided, Deciding, PostAt
  <1> QED BY <1>1, <1>2

\* The inductive invariant.
THEOREM BrokerIsSound == Spec => []BrokerInv
  BY InitInv, InvStep, PTL DEF Spec

\* The values of the variables.
THEOREM BrokerTypes == Spec => []TypeOK
  <1>1. BrokerInv => TypeOK
    BY DEF BrokerInv, Types, DepositTypes, IsDeposit, IsPost, IsMonitor, TypeOK, PostAt
  <1> QED BY <1>1, BrokerIsSound, PTL

\* A request that was answered with 200 is never taken up again, however late and
\* however often it is delivered, for every window and every key life beyond it
\* (handlePostSession, the seen key).
THEOREM BrokerNoReplay == Spec => NoReplay
  <1>1. ASSUME BrokerInv, [Next]_vars
        PROVE  [\A h \in Handlers : PostAt(h, "idle") /\ post'[h].pc # "idle" => post'[h].req \notin answered]_vars
    BY <1>1, NoReplayStep DEF BrokerInv
  <1> QED BY <1>1, BrokerIsSound, PTL DEF Spec, NoReplay

\* However many requests are in progress when the owner removes the service, no
\* more than one deposit for each and one of the monitor is still asked for
\* (handlePostSession, Monitor.check).
THEOREM BrokerBoundedStranding == Spec => []BoundedStranding
  <1>1. BrokerInv => BoundedStranding
    BY DecidingFinite DEF BrokerInv, Types, Decided, BoundedStranding
  <1> QED BY <1>1, BrokerIsSound, PTL

=============================================================================
