------------------------- MODULE StopPipelineProofs -------------------------
(* Theorems about the stop pipeline, for every number of sandboxes and every   *)
(* capacity of the channel.                                                    *)
EXTENDS StopPipeline, TLAPS

\* The local conditions the proof works with: what the handler's place and the
\* waiting hooks say about a sandbox.
BillingParts == RunningIsBilled /\ CleanupIsFinal /\ ClosedIsDown

LEMMA InitBilled == Init => BilledInv
  <1> SUFFICES ASSUME Init PROVE BilledInv
    OBVIOUS
  <1>1. Asleep \in [pc: HandlerPcs, sb: Sandboxes]
    BY SandboxesAssumption DEF Asleep, HandlerPcs
  <1>2. <<>> \in Seq(Sandboxes) /\ Len(<<>>) <= StopCap
    BY CapAssumption
  <1>3. TypeOK
    BY <1>1, <1>2 DEF Init, TypeOK, States, Booting, NoHooks
  <1>4. BillingParts
    BY DEF Init, BillingParts, RunningIsBilled, CleanupIsFinal, ClosedIsDown, Asleep, NoHooks
  <1> QED BY <1>3, <1>4 DEF BilledInv, BillingParts

-----------------------------------------------------------------------------
(* Types. *)

LEMMA HandlerType ==
    ASSUME TypeOK, HandlerStep
    PROVE  TypeOK'
  <1> USE DEF TypeOK, HandlerPcs, States, HandlerAt, HandlerTo
  <1>1. CASE Receive
    <2>1. Head(stopCh) \in Sandboxes /\ Tail(stopCh) \in Seq(Sandboxes)
      BY <1>1 DEF Receive
    <2>2. Len(Tail(stopCh)) <= StopCap
      BY <1>1, CapAssumption DEF Receive
    <2> QED BY <1>1, <2>1, <2>2 DEF Receive
  <1>2. CASE SkipOrGoOn
    BY <1>2 DEF SkipOrGoOn
  <1>3. CASE StopSandbox
    BY <1>3 DEF StopSandbox
  <1>4. CASE WaitStopped
    BY <1>4 DEF WaitStopped
  <1>5. CASE ArchiveSandbox
    BY <1>5 DEF ArchiveSandbox
  <1>6. CASE Recheck
    BY <1>6 DEF Recheck
  <1>7. CASE ForgetSession
    BY <1>7 DEF ForgetSession
  <1>8. CASE Unmark
    BY <1>8 DEF Unmark
  <1> QED BY <1>1, <1>2, <1>3, <1>4, <1>5, <1>6, <1>7, <1>8 DEF HandlerStep

\* A send into a channel that has room keeps within its capacity.
LEMMA SendType ==
    ASSUME TypeOK, NEW s \in Sandboxes, Len(stopCh) < StopCap
    PROVE  Append(stopCh, s) \in Seq(Sandboxes) /\ Len(Append(stopCh, s)) <= StopCap
  BY CapAssumption DEF TypeOK

LEMMA RecoveryType ==
    ASSUME TypeOK, RecoveryStep
    PROVE  TypeOK'
  <1>1. CASE RecoverAtStartup
    BY <1>1 DEF RecoverAtStartup, Scan, TypeOK
  <1>2. CASE RecoverOnTick
    BY <1>2 DEF RecoverOnTick, Scan, TypeOK
  <1>3. CASE RecoverDone
    BY <1>3 DEF RecoverDone, TypeOK
  <1>4. ASSUME NEW s \in Sandboxes, RecoverSend(s)
        PROVE  TypeOK'
    BY <1>4, SendType DEF RecoverSend, TypeOK
  <1> QED BY <1>1, <1>2, <1>3, <1>4 DEF RecoveryStep

LEMMA SandboxStepType ==
    ASSUME TypeOK, NEW s \in Sandboxes,
           \/ PersistStop(s) \/ RunHook(s) \/ FinishStop(s)
           \/ OwnerStart(s) \/ OwnerStop(s) \/ OwnerArchive(s) \/ OwnerDelete(s)
    PROVE  TypeOK'
  <1>1. CASE PersistStop(s)
    BY <1>1, SendType DEF PersistStop, TrySend, TypeOK
  <1>2. CASE RunHook(s)
    BY <1>2 DEF RunHook, TypeOK
  <1>3. CASE FinishStop(s)
    BY <1>3 DEF FinishStop, TypeOK, States, processVars
  <1>4. CASE OwnerStart(s)
    BY <1>4 DEF OwnerStart, Accepted, TypeOK, States
  <1>5. CASE OwnerStop(s)
    BY <1>5 DEF OwnerStop, Accepted, TypeOK, States
  <1>6. CASE OwnerArchive(s)
    BY <1>6 DEF OwnerArchive, Accepted, TypeOK, States
  <1>7. CASE OwnerDelete(s)
    BY <1>7 DEF OwnerDelete, Accepted, TypeOK, States
  <1> QED BY <1>1, <1>2, <1>3, <1>4, <1>5, <1>6, <1>7

LEMMA RebootType ==
    ASSUME TypeOK, Reboot, sandbox' \in [Sandboxes -> States]
    PROVE  TypeOK'
  <1>1. Asleep \in [pc: HandlerPcs, sb: Sandboxes]
    BY SandboxesAssumption DEF Asleep, HandlerPcs
  <1>2. <<>> \in Seq(Sandboxes) /\ Len(<<>>) <= StopCap
    BY CapAssumption
  <1> QED BY <1>1, <1>2 DEF Reboot, Booting, NoHooks, TypeOK

LEMMA NextType ==
    ASSUME TypeOK, [Next]_vars
    PROVE  TypeOK'
  <1>1. CASE HandlerStep
    BY <1>1, HandlerType
  <1>2. CASE RecoveryStep
    BY <1>2, RecoveryType
  <1>3. CASE Crash
    <2>1. sandbox' \in [Sandboxes -> States]
      BY <1>3 DEF Crash, TypeOK
    <2> QED BY <1>3, <2>1, RebootType DEF Crash
  <1>4. CASE Shutdown
    BY <1>4, RebootType DEF Shutdown
  <1>5. ASSUME NEW s \in Sandboxes,
               \/ PersistStop(s) \/ RunHook(s) \/ FinishStop(s)
               \/ OwnerStart(s) \/ OwnerStop(s) \/ OwnerArchive(s) \/ OwnerDelete(s)
        PROVE  TypeOK'
    BY <1>5, SandboxStepType
  <1>6. CASE UNCHANGED vars
    BY <1>6 DEF vars, processVars, boundVars, TypeOK
  <1> QED BY <1>1, <1>2, <1>3, <1>4, <1>5, <1>6 DEF Next

-----------------------------------------------------------------------------
(* Who is billed. *)

\* The handler deletes a session only of a sandbox that is down for good, and
\* moves on to the cleanup only when it has seen that.
LEMMA HandlerBilled ==
    ASSUME BilledInv, HandlerStep
    PROVE  BillingParts'
  <1> USE DEF BilledInv, BillingParts, TypeOK, RunningIsBilled, CleanupIsFinal, ClosedIsDown,
              HandlerAt, HandlerTo, HandlerPcs, Terminal
  <1>1. CASE Receive
    <2>1. handler'.pc = "classify"
      BY <1>1 DEF Receive
    <2> QED BY <1>1, <2>1 DEF Receive
  <1>2. CASE SkipOrGoOn
    BY <1>2 DEF SkipOrGoOn, Classify
  <1>3. CASE StopSandbox
    BY <1>3 DEF StopSandbox
  <1>4. CASE WaitStopped
    BY <1>4 DEF WaitStopped
  <1>5. CASE ArchiveSandbox
    BY <1>5 DEF ArchiveSandbox
  <1>6. CASE Recheck
    BY <1>6 DEF Recheck, Classify
  <1>7. CASE ForgetSession
    BY <1>7 DEF ForgetSession
  <1>8. CASE Unmark
    BY <1>8 DEF Unmark
  <1> QED BY <1>1, <1>2, <1>3, <1>4, <1>5, <1>6, <1>7, <1>8 DEF HandlerStep

LEMMA RecoveryBilled ==
    ASSUME BilledInv, RecoveryStep
    PROVE  BillingParts'
  <1>1. UNCHANGED <<sandbox, session, handler, hooks, restarted>>
    BY DEF RecoveryStep, RecoverAtStartup, RecoverOnTick, RecoverDone, RecoverSend, Scan
  <1> QED BY <1>1 DEF BilledInv, BillingParts, RunningIsBilled, CleanupIsFinal, ClosedIsDown,
                      Terminal

\* An owner's request takes the sandbox out of "started", or marks it restarted.
LEMMA SandboxStepBilled ==
    ASSUME BilledInv, NEW s \in Sandboxes,
           \/ PersistStop(s) \/ RunHook(s) \/ FinishStop(s)
           \/ OwnerStart(s) \/ OwnerStop(s) \/ OwnerArchive(s) \/ OwnerDelete(s)
    PROVE  BillingParts'
  <1> USE DEF BilledInv, BillingParts, TypeOK, RunningIsBilled, CleanupIsFinal, ClosedIsDown,
              Terminal, States
  <1>1. CASE PersistStop(s)
    BY <1>1 DEF PersistStop
  <1>2. CASE RunHook(s)
    BY <1>2 DEF RunHook
  <1>3. CASE FinishStop(s)
    BY <1>3 DEF FinishStop, processVars
  <1>4. CASE OwnerStart(s)
    BY <1>4 DEF OwnerStart, Accepted
  <1>5. CASE OwnerStop(s)
    BY <1>5 DEF OwnerStop, Accepted
  <1>6. CASE OwnerArchive(s)
    BY <1>6 DEF OwnerArchive, Accepted
  <1>7. CASE OwnerDelete(s)
    BY <1>7 DEF OwnerDelete, Accepted
  <1> QED BY <1>1, <1>2, <1>3, <1>4, <1>5, <1>6, <1>7

LEMMA RebootBilled ==
    ASSUME BilledInv, Reboot,
           \A s \in Sandboxes : sandbox'[s] = "started" => sandbox[s] = "started"
    PROVE  BillingParts'
  <1>1. handler'.pc = "idle" /\ hooks' = NoHooks
    BY DEF Reboot, Asleep
  <1> QED BY <1>1 DEF Reboot, NoHooks, BilledInv, BillingParts, RunningIsBilled,
                      CleanupIsFinal, ClosedIsDown

LEMMA NextBilled ==
    ASSUME BilledInv, [Next]_vars
    PROVE  BilledInv'
  <1>1. TypeOK'
    BY NextType DEF BilledInv
  <1>2. BillingParts'
    <2>1. CASE HandlerStep
      BY <2>1, HandlerBilled
    <2>2. CASE RecoveryStep
      BY <2>2, RecoveryBilled
    <2>3. CASE Crash
      BY <2>3, RebootBilled DEF Crash
    <2>4. CASE Shutdown
      <3>1. ASSUME NEW s \in Sandboxes, sandbox'[s] = "started"
            PROVE  sandbox[s] = "started"
        <4>1. CASE sandbox[s] = "stopped"
          BY <2>4, <3>1, <4>1 DEF Shutdown
        <4>2. CASE sandbox[s] \notin {"started", "stopped"}
          BY <2>4, <3>1, <4>2 DEF Shutdown
        <4> QED BY <4>1, <4>2
      <3> QED BY <2>4, <3>1, RebootBilled DEF Shutdown
    <2>5. ASSUME NEW s \in Sandboxes,
                 \/ PersistStop(s) \/ RunHook(s) \/ FinishStop(s)
                 \/ OwnerStart(s) \/ OwnerStop(s) \/ OwnerArchive(s) \/ OwnerDelete(s)
          PROVE  BillingParts'
      BY <2>5, SandboxStepBilled
    <2>6. CASE UNCHANGED vars
      BY <2>6 DEF vars, processVars, BilledInv, BillingParts, RunningIsBilled,
                  CleanupIsFinal, ClosedIsDown, Terminal
    <2> QED BY <2>1, <2>2, <2>3, <2>4, <2>5, <2>6 DEF Next
  <1> QED BY <1>1, <1>2 DEF BilledInv, BillingParts

LEMMA BilledInvHolds == Spec => []BilledInv
  BY InitBilled, NextBilled, PTL DEF Spec

-----------------------------------------------------------------------------
\* Every reachable state has its type, and the stop channel never holds more
\* than its capacity (stopCh, persistStop, recoverPendingStops).
THEOREM StopPipelineTypeCorrect == Spec => []TypeOK
  <1>1. BilledInv => TypeOK
    BY DEF BilledInv
  <1> QED BY <1>1, BilledInvHolds, PTL

\* A running sandbox that was never restarted has its billing session, for any
\* number of sandboxes, failed calls, crashes and orders (runStopHandler).
THEOREM RunningIsBilledHolds == Spec => []RunningIsBilled
  <1>1. BilledInv => RunningIsBilled
    BY DEF BilledInv
  <1> QED BY <1>1, BilledInvHolds, PTL
=============================================================================
