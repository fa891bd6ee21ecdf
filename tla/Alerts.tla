------------------------------- MODULE Alerts --------------------------------
(***************************************************************************)
(* Operator alerts: the monitors that look at the node once a minute       *)
(* (internal/observability), the reports the settler makes about users,    *)
(* and Notify (internal/alert), which claims a key for the dedup window    *)
(* and then, in a second call, puts the alert into a ring of the latest.   *)
(* The clock counts the monitors' ticks.                                   *)
(***************************************************************************)
EXTENDS Naturals, SequencesExt

CONSTANTS Users,         \* whose vouchers the settler may report
          Samplers,      \* monitors that report what they see: wallet, signer
          Findings,      \* Findings[m]: the alerts monitor m may raise
          Nothing,
          DedupWindow, HistoryMaxLen,
          MaxFailures    \* bound on failing Redis and chain calls, and crashes

VARIABLES finding,       \* what each sampler would see now, or Nothing
          deep,          \* the queue is longer than the threshold
          consecutiveOver,
          due,           \* monitors that have yet to look in this tick
          claims,        \* remaining time of each dedup key
          history,       \* alert:history, newest first
          spoken,        \* history: subjects that reported within their window
          lost,          \* history: of these, the ones whose alert was lost after its claim
          failures

vars == <<finding, deep, consecutiveOver, due, claims, history, spoken, lost, failures>>

Subjects == Users \cup {"backlog"} \cup UNION {Findings[m] : m \in Samplers}
Monitors == Samplers \cup {"queue"}

Init ==
    /\ finding = [m \in Samplers |-> Nothing] /\ deep \in BOOLEAN
    /\ consecutiveOver = 0
    /\ due = Samplers
    /\ claims = [k \in Subjects |-> 0]
    /\ history = <<>>
    /\ spoken = {} /\ lost = {}
    /\ failures = 0

Fails == failures < MaxFailures /\ failures' = failures + 1

-----------------------------------------------------------------------------
(* Notify *)

\* The dedup key of an alert: its kind, and the user it is about, if any.
KeyOfKind(s) == IF s \in Users THEN CHOOSE u \in Users : TRUE ELSE s
Key(s) == s

\* persist: LPUSH and LTRIM
Pushed(s) == SubSeq(<<s>> \o history, 1, Min({Len(history) + 1, HistoryMaxLen}))

Suppressed(s) ==
    /\ claims[Key(s)] > 0
    /\ spoken' = spoken \cup {s}
    /\ UNCHANGED <<claims, history, lost, failures>>

\* claimDedup, SETNX with the window as its expiry, and then persist.
Stored(s) ==
    /\ claims[Key(s)] = 0
    /\ claims' = [claims EXCEPT ![Key(s)] = DedupWindow]
    /\ history' = Pushed(s)
    /\ spoken' = spoken \cup {s}
    /\ UNCHANGED <<lost, failures>>

\* Redis fails, or the process dies, between the two: the alert is lost and its
\* key suppresses the next ones.
LostAfterClaim(s) ==
    /\ claims[Key(s)] = 0 /\ Fails
    /\ claims' = [claims EXCEPT ![Key(s)] = DedupWindow]
    /\ spoken' = spoken \cup {s} /\ lost' = lost \cup {s}
    /\ UNCHANGED history

\* A failing SETNX lets the alert through.
ClaimFails(s) ==
    /\ Fails
    /\ history' = Pushed(s)
    /\ UNCHANGED <<claims, spoken, lost>>

Notify(s) == Suppressed(s) \/ Stored(s) \/ LostAfterClaim(s) \/ ClaimFails(s)

-----------------------------------------------------------------------------
(* The monitors and the settler. *)

quiet == <<claims, history, spoken, lost, failures>>

\* check, checkSigner
Sample(m) ==
    /\ m \in due
    /\ due' = due \ {m}
    /\ IF finding[m] = Nothing THEN UNCHANGED quiet ELSE Notify(finding[m])
    /\ UNCHANGED <<finding, deep, consecutiveOver>>

\* RunQueueDepthMonitor: the second tick in a row, and every one after it.
OverTwice == consecutiveOver >= 1

SampleQueue ==
    /\ "queue" \in due
    /\ due' = due \ {"queue"}
    /\ consecutiveOver' = IF ~deep THEN 0 ELSE IF consecutiveOver < 2 THEN consecutiveOver + 1 ELSE 2
    /\ IF deep /\ OverTwice THEN Notify("backlog") ELSE UNCHANGED quiet
    /\ UNCHANGED <<finding, deep>>

\* An error of the chain or of LLEN ends the monitor's turn.
SampleFails(m) ==
    /\ m \in due
    /\ Fails
    /\ due' = due \ {m}
    /\ consecutiveOver' = IF m = "queue" THEN 0 ELSE consecutiveOver
    /\ UNCHANGED <<finding, deep, claims, history, spoken, lost>>

\* The settler rejects a voucher of the user.
Reject(u) ==
    /\ Notify(u)
    /\ UNCHANGED <<finding, deep, consecutiveOver, due>>

-----------------------------------------------------------------------------
(* The node, the clock and crashes. *)

\* The key's expiry.
AgedNever(left) == left
Aged(left) == IF left > 0 THEN left - 1 ELSE 0

\* A monitor ends its turn well within the minute, and sees the node once in it:
\* what changes in a minute might as well change when it begins.
NextMinute ==
    /\ due = {}
    /\ due' = Monitors
    /\ claims' = [k \in Subjects |-> Aged(claims[k])]
    /\ spoken' = {s \in spoken : claims'[Key(s)] > 0}
    /\ lost' = {s \in lost : claims'[Key(s)] > 0}
    /\ finding' \in [Samplers -> {Nothing} \cup UNION {Findings[m] : m \in Samplers}]
    /\ \A m \in Samplers : finding'[m] \in Findings[m] \cup {Nothing}
    /\ deep' \in BOOLEAN
    /\ UNCHANGED <<consecutiveOver, history, failures>>

\* The samplers look at once after a restart; the queue's monitor waits a tick.
Restart ==
    /\ Fails
    /\ consecutiveOver' = 0
    /\ due' = Samplers
    /\ UNCHANGED <<finding, deep, claims, history, spoken, lost>>

Monitoring ==
    \/ SampleQueue \/ NextMinute
    \/ \E m \in Samplers : Sample(m)

Next ==
    \/ Monitoring \/ Restart
    \/ \E m \in Monitors : SampleFails(m)
    \/ \E u \in Users : Reject(u)

Spec == Init /\ [][Next]_vars
FairSpec == Spec /\ WF_vars(Monitoring)

-----------------------------------------------------------------------------
TypeOK ==
    /\ consecutiveOver \in 0..2 /\ due \subseteq Monitors
    /\ claims \in [Subjects -> 0..DedupWindow]
    /\ Len(history) <= HistoryMaxLen /\ Range(history) \subseteq Subjects
    /\ spoken \subseteq Subjects /\ lost \subseteq Subjects

\* Who has reported within the window is in the list the operator reads, unless
\* Redis or the process failed at that very alert: neither another subject's key
\* nor a chronic reporter's repeats keep it out (subject, claimDedup, LTRIM).
Heard == \A s \in spoken \ lost : s \in Range(history)

Reported(s) == s \in spoken \ lost /\ s \in Range(history)

\* A condition that lasts is reported again and again, also when its first alert
\* was lost after the claim or a reading failed (the key expires, the monitors
\* stay armed).
KeepsReporting ==
    /\ <>[]deep => []<>Reported("backlog")
    /\ \A m \in Samplers : \A f \in Findings[m] : <>[](finding[m] = f) => []<>Reported(f)
=============================================================================
