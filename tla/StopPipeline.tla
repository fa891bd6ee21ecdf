---------------------------- MODULE StopPipeline ----------------------------
(***************************************************************************)
(* How a sandbox that cannot be paid for is taken down: persistStop leaves *)
(* a marker in Redis and a signal in a bounded channel, runStopHandler     *)
(* stops, waits, archives and cleans up, runPendingStopRecovery puts the   *)
(* markers that are left back into the channel, at startup and every few   *)
(* minutes.  Beside them run the owners' requests, whose billing hooks are *)
(* goroutines of their own, and Daytona, an external service that stops    *)
(* asynchronously and may fail to answer.                                  *)
(*                                                                         *)
(* A step is one Redis command or one Daytona call.  A session is open or  *)
(* not: what it bills is left out, as is the broker's entry.               *)
(***************************************************************************)
EXTENDS Naturals, Sequences

CONSTANTS
    Sandboxes,
    StopCap,        \* capacity of stopCh
    MaxOrders, MaxFailures, MaxRequests, MaxCrashes
                    \* bounds: rejections, failed Daytona calls, owners'
                    \* requests, process restarts

ASSUME CapAssumption == StopCap \in Nat \ {0}
ASSUME BoundsAssumption ==
    MaxOrders \in Nat /\ MaxFailures \in Nat /\ MaxRequests \in Nat /\ MaxCrashes \in Nat
ASSUME SandboxesAssumption == Sandboxes # {}

VARIABLES
    sandbox,            \* Daytona: the state of each sandbox
    session, marker,    \* Redis: billing:compute:<id>, stop:sandbox:<id>
    stopCh, handler, recovery,    \* the process
    hooks,              \* per sandbox, billing hooks that have not run yet
    restarted,          \* history: sandboxes their owner started again
    orders, failures, requests, crashes    \* spent bounds

processVars == <<stopCh, handler, recovery, hooks>>
boundVars == <<orders, failures, requests, crashes>>
vars == <<sandbox, session, marker, processVars, restarted, boundVars>>

States == {"started", "stopping", "stopped", "archived", "gone"}
Terminal(s) == sandbox[s] \in {"archived", "gone"}
Asleep == [pc |-> "idle", sb |-> CHOOSE s \in Sandboxes : TRUE]
Booting == [pc |-> "boot", todo |-> {}]
NoHooks == [s \in Sandboxes |-> {}]

\* Every sandbox runs and is billed; its create hook has run.
Init ==
    /\ sandbox = [s \in Sandboxes |-> "started"]
    /\ session = Sandboxes /\ marker = {}
    /\ stopCh = <<>> /\ handler = Asleep /\ recovery = Booting
    /\ hooks = NoHooks /\ restarted = {}
    /\ orders = 0 /\ failures = 0 /\ requests = 0 /\ crashes = 0

\* A Daytona call fails.
Failure == failures < MaxFailures /\ failures' = failures + 1

-----------------------------------------------------------------------------
(* The order. *)

\* Mutant: the signal is queued whether there is room or not.
TrySendUnbounded(s) == stopCh' = Append(stopCh, s)

\* A send that gives up when the channel is full.
TrySend(s) == stopCh' = IF Len(stopCh) < StopCap THEN Append(stopCh, s) ELSE stopCh

\* SetNX first; an existing marker means that the order was given already.
PersistStop(s) ==
    /\ orders < MaxOrders /\ orders' = orders + 1
    /\ s \notin marker
    /\ marker' = marker \cup {s}
    /\ TrySend(s)
    /\ UNCHANGED <<sandbox, session, handler, recovery, hooks, restarted, failures,
                   requests, crashes>>

-----------------------------------------------------------------------------
(* The stop handler. *)

HandlerAt(pc) == handler.pc = pc
HandlerTo(pc) == handler' = [handler EXCEPT !.pc = pc]

Receive ==
    /\ HandlerAt("idle") /\ stopCh # <<>>
    /\ handler' = [pc |-> "classify", sb |-> Head(stopCh)]
    /\ stopCh' = Tail(stopCh)
    /\ UNCHANGED <<sandbox, session, marker, recovery, hooks, restarted, boundVars>>

\* classifySandbox: a lookup that fails counts as active.
Classify(terminal) ==
    \/ terminal = Terminal(handler.sb) /\ UNCHANGED failures
    \/ terminal = FALSE /\ Failure

\* Step 0: a sandbox that is archived or gone only needs the cleanup.
SkipOrGoOn ==
    /\ HandlerAt("classify")
    /\ \E terminal \in BOOLEAN :
          /\ Classify(terminal)
          /\ HandlerTo(IF terminal THEN "forget" ELSE "stop")
    /\ UNCHANGED <<sandbox, session, marker, stopCh, recovery, hooks, restarted, orders,
                   requests, crashes>>

\* Step 1.  Daytona refuses to stop what is not started; errors are ignored.
StopSandbox ==
    /\ HandlerAt("stop")
    /\ \/ /\ sandbox' = IF sandbox[handler.sb] = "started"
                        THEN [sandbox EXCEPT ![handler.sb] = "stopping"] ELSE sandbox
          /\ UNCHANGED failures
       \/ Failure /\ UNCHANGED sandbox
    /\ HandlerTo("wait")
    /\ UNCHANGED <<session, marker, stopCh, recovery, hooks, restarted, orders, requests,
                   crashes>>

\* Step 2: until it is stopped, or two minutes are over; a stop under way
\* outlasts them only when Daytona fails.
WaitStopped ==
    /\ HandlerAt("wait")
    /\ IF sandbox[handler.sb] = "stopping" THEN Failure ELSE UNCHANGED failures
    /\ HandlerTo("archive")
    /\ UNCHANGED <<sandbox, session, marker, stopCh, recovery, hooks, restarted, orders,
                   requests, crashes>>

\* Step 3.  Only a stopped sandbox can be archived.  When the call fails its
\* effect may have happened all the same.
ArchiveSandbox ==
    /\ HandlerAt("archive")
    /\ \/ /\ sandbox[handler.sb] = "stopped"
          /\ sandbox' = [sandbox EXCEPT ![handler.sb] = "archived"]
          /\ \/ HandlerTo("forget") /\ UNCHANGED failures
             \/ HandlerTo("recheck") /\ Failure
       \/ /\ sandbox[handler.sb] # "stopped"
          /\ HandlerTo("recheck") /\ UNCHANGED <<sandbox, failures>>
       \/ HandlerTo("recheck") /\ Failure /\ UNCHANGED sandbox
    /\ UNCHANGED <<session, marker, stopCh, recovery, hooks, restarted, orders, requests,
                   crashes>>

\* Mutant: a failed archive is cleaned up after like a successful one.
RecheckAnyway ==
    /\ HandlerAt("recheck")
    /\ HandlerTo("forget")
    /\ UNCHANGED <<sandbox, session, marker, stopCh, recovery, hooks, restarted, boundVars>>

\* The archive failed: only a sandbox that is terminal after all is cleaned up,
\* the others keep marker and session.
Recheck ==
    /\ HandlerAt("recheck")
    /\ \E terminal \in BOOLEAN :
          /\ Classify(terminal)
          /\ HandlerTo(IF terminal THEN "forget" ELSE "idle")
    /\ UNCHANGED <<sandbox, session, marker, stopCh, recovery, hooks, restarted, orders,
                   requests, crashes>>

\* The cleanup: the session first, then the marker.
ForgetSession ==
    /\ HandlerAt("forget")
    /\ session' = session \ {handler.sb}
    /\ HandlerTo("unmark")
    /\ UNCHANGED <<sandbox, marker, stopCh, recovery, hooks, restarted, boundVars>>

\* Mutant: the marker stays.
UnmarkNothing ==
    /\ HandlerAt("unmark")
    /\ HandlerTo("idle")
    /\ UNCHANGED <<sandbox, session, marker, stopCh, recovery, hooks, restarted, boundVars>>

Unmark ==
    /\ HandlerAt("unmark")
    /\ marker' = marker \ {handler.sb}
    /\ HandlerTo("idle")
    /\ UNCHANGED <<sandbox, session, stopCh, recovery, hooks, restarted, boundVars>>

-----------------------------------------------------------------------------
(* The recovery of markers. *)

Scan ==
    /\ recovery' = [pc |-> "sending", todo |-> marker]
    /\ UNCHANGED <<sandbox, session, marker, stopCh, handler, hooks, restarted, boundVars>>

RecoverAtStartup == recovery.pc = "boot" /\ Scan

\* Mutant: markers are looked for at startup only.
RecoverOnTickNothing ==
    /\ recovery.pc = "waiting"
    /\ recovery' = [pc |-> "sending", todo |-> {}]
    /\ UNCHANGED <<sandbox, session, marker, stopCh, handler, hooks, restarted, boundVars>>

RecoverOnTick == recovery.pc = "waiting" /\ Scan

\* A send that waits for room.
RecoverSend(s) ==
    /\ recovery.pc = "sending" /\ s \in recovery.todo
    /\ Len(stopCh) < StopCap
    /\ stopCh' = Append(stopCh, s)
    /\ recovery' = [recovery EXCEPT !.todo = @ \ {s}]
    /\ UNCHANGED <<sandbox, session, marker, handler, hooks, restarted, boundVars>>

RecoverDone ==
    /\ recovery.pc = "sending" /\ recovery.todo = {}
    /\ recovery' = [recovery EXCEPT !.pc = "waiting"]
    /\ UNCHANGED <<sandbox, session, marker, stopCh, handler, hooks, restarted, boundVars>>

-----------------------------------------------------------------------------
(* Owners, Daytona, the process. *)

Request == requests < MaxRequests /\ requests' = requests + 1

\* A request Daytona accepted: the sandbox changes and a hook is spawned.
Accepted(s, from, to, hook) ==
    /\ Request
    /\ sandbox[s] \in from
    /\ sandbox' = [sandbox EXCEPT ![s] = to]
    /\ hooks' = [hooks EXCEPT ![s] = @ \cup {hook}]
    /\ UNCHANGED <<session, marker, stopCh, handler, recovery, orders, failures, crashes>>

OwnerStart(s) ==
    /\ Accepted(s, {"stopped", "archived"}, "started", "open")
    /\ restarted' = restarted \cup {s}

OwnerStop(s) == Accepted(s, {"started"}, "stopping", "close") /\ UNCHANGED restarted

OwnerArchive(s) == Accepted(s, {"stopped"}, "archived", "close") /\ UNCHANGED restarted

OwnerDelete(s) == Accepted(s, States \ {"gone"}, "gone", "close") /\ UNCHANGED restarted

\* OnStart opens a session unless there is one; OnStop, OnArchive and OnDelete
\* delete it.
RunHook(s) ==
    /\ \E hook \in hooks[s] :
          /\ hooks' = [hooks EXCEPT ![s] = @ \ {hook}]
          /\ session' = IF hook = "open" THEN session \cup {s} ELSE session \ {s}
    /\ UNCHANGED <<sandbox, marker, stopCh, handler, recovery, restarted, boundVars>>

\* The stop that was asked for is done.
FinishStop(s) ==
    /\ sandbox[s] = "stopping"
    /\ sandbox' = [sandbox EXCEPT ![s] = "stopped"]
    /\ UNCHANGED <<session, marker, processVars, restarted, boundVars>>

\* What is in memory is lost.
Reboot ==
    /\ crashes < MaxCrashes /\ crashes' = crashes + 1
    /\ stopCh' = <<>> /\ handler' = Asleep /\ recovery' = Booting /\ hooks' = NoHooks
    /\ UNCHANGED <<session, marker, restarted, orders, failures, requests>>

Crash == Reboot /\ UNCHANGED sandbox

\* archiveRunningOnShutdown has 30 seconds: some sandboxes are archived, some
\* are left on the way.
Shutdown ==
    /\ Reboot
    /\ sandbox' \in [Sandboxes -> States]
    /\ \A s \in Sandboxes :
          sandbox'[s] \in CASE sandbox[s] = "started" -> {"started", "stopping", "stopped", "archived"}
                            [] sandbox[s] = "stopped" -> {"stopped", "archived"}
                            [] OTHER -> {sandbox[s]}

-----------------------------------------------------------------------------
HandlerStep == \/ Receive \/ SkipOrGoOn \/ StopSandbox \/ WaitStopped \/ ArchiveSandbox
               \/ Recheck \/ ForgetSession \/ Unmark

RecoveryStep == \/ RecoverAtStartup \/ RecoverOnTick \/ RecoverDone
                \/ \E s \in Sandboxes : RecoverSend(s)

Next ==
    \/ HandlerStep \/ RecoveryStep \/ Crash \/ Shutdown
    \/ \E s \in Sandboxes :
          \/ PersistStop(s) \/ RunHook(s) \/ FinishStop(s)
          \/ OwnerStart(s) \/ OwnerStop(s) \/ OwnerArchive(s) \/ OwnerDelete(s)

Spec == Init /\ [][Next]_vars

\* Handler and recovery are goroutines in endless loops, the ticker fires for
\* ever, and Daytona finishes the stops it accepted.
Fairness ==
    /\ WF_vars(HandlerStep)
    /\ WF_vars(RecoveryStep)
    /\ \A s \in Sandboxes : WF_vars(FinishStop(s))

FairSpec == Spec /\ Fairness

-----------------------------------------------------------------------------
(* Properties. *)

HandlerPcs == {"idle", "classify", "stop", "wait", "archive", "recheck", "forget", "unmark"}

\* The channel never holds more than its capacity, and everything else has its
\* type (stopCh, persistStop, recoverPendingStops).
TypeOK ==
    /\ sandbox \in [Sandboxes -> States]
    /\ session \subseteq Sandboxes /\ marker \subseteq Sandboxes /\ restarted \subseteq Sandboxes
    /\ stopCh \in Seq(Sandboxes) /\ Len(stopCh) <= StopCap
    /\ handler \in [pc: HandlerPcs, sb: Sandboxes]
    /\ recovery \in [pc: {"boot", "waiting", "sending"}, todo: SUBSET Sandboxes]
    /\ hooks \in [Sandboxes -> SUBSET {"open", "close"}]

\* A sandbox that was never restarted and still runs has its billing session,
\* however the stop handler fared with it: "deleting it here would strand a
\* still-running sandbox with no billing session" (runStopHandler).
RunningIsBilled ==
    \A s \in Sandboxes \ restarted : sandbox[s] = "started" => s \in session

\* Why it holds: the handler cleans up only after what cannot run any more.
CleanupIsFinal ==
    handler.pc \in {"forget", "unmark"} /\ handler.sb \notin restarted => Terminal(handler.sb)

\* Sessions are closed by hooks only after the sandbox has left "started".
ClosedIsDown ==
    \A s \in Sandboxes \ restarted : "close" \in hooks[s] => sandbox[s] # "started"

BilledInv == TypeOK /\ RunningIsBilled /\ CleanupIsFinal /\ ClosedIsDown

\* An order takes effect: unless its owner starts it again, the sandbox ends up
\* archived or gone and its session closed, although the signal may have been
\* dropped for a full channel, calls may fail and the process may die
\* (persistStop, runStopHandler, runPendingStopRecovery).
OrderTakesEffect ==
    \A s \in Sandboxes :
        s \in marker ~> (Terminal(s) /\ s \notin session) \/ s \in restarted

\* No marker stays for ever, where it would swallow every later order for its
\* sandbox (persistStop, runStopHandler).
MarkerCleared == \A s \in Sandboxes : s \in marker ~> s \notin marker

\* An order is carried out and its marker then cleared (persistStop,
\* runStopHandler, runPendingStopRecovery).
OrdersComplete == OrderTakesEffect /\ MarkerCleared
=============================================================================
