----------------------- MODULE BillingSessionsProofs -----------------------
(* Theorems about the billing sessions, for any number of sandboxes, any       *)
(* interval, chunk size and cap per tick, and any downtime.                    *)
EXTENDS BillingSessions, TLAPS

-----------------------------------------------------------------------------
(* The inductive invariant. *)

IsSession(x) ==
    /\ DOMAIN x = {"key", "id", "next", "from"}
    /\ x.key \in Ids /\ x.id \in Ids /\ x.next \in Int /\ x.from \in Int

IsHook(h) ==
    /\ DOMAIN h = {"sb", "kind", "pc", "next", "from"}
    /\ h.sb \in Sandboxes /\ h.kind \in {"create", "start", "ensure", "close"}
    /\ h.pc \in {"check", "emit", "open", "close"}
    /\ h.next \in Int /\ h.from \in Int

IsGenerator(g) ==
    /\ DOMAIN g = {"pc", "todo", "live", "unknown", "at", "id", "start", "left", "count"}
    /\ g.pc \in {"idle", "list", "visit", "emit", "update"}
    /\ \A x \in g.todo : IsSession(x)
    /\ g.live \subseteq Sandboxes /\ g.unknown \in BOOLEAN
    /\ g.at \in Int /\ g.id \in Ids /\ g.start \in Int /\ g.left \in Nat /\ g.count \in Nat

\* The types in full, which TypeOK needs to be inductive.
Types ==
    /\ sandbox \in [Sandboxes -> {"none", "running", "stopped", "archived", "gone"}]
    /\ \A x \in sessions : IsSession(x)
    /\ \A h \in hooks : IsHook(h)
    /\ IsGenerator(gen)
    /\ skips \in [Ids -> 0..SkipsBeforeConfirm]
    /\ now \in Int
    /\ billed \in [Sandboxes -> [Seconds -> Nat]]
    /\ reopened \subseteq Sandboxes /\ raced \subseteq Sandboxes /\ unrecorded \subseteq Sandboxes

\* One hash per key, whose id is the key's or missing.
OneHash(S) ==
    /\ \A x \in S : x.id \in {x.key, Nameless}
    /\ \A x, y \in S : x.key = y.key => x = y

\* The generator is at work on a session.
Working == gen.pc \in {"emit", "update"}

Shape ==
    /\ Types
    /\ \A h \in hooks : h.kind = "close" <=> h.pc = "close"
    /\ OneHash(sessions) /\ OneHash(gen.todo)
    /\ gen.count <= VouchersPerTick
    /\ gen.pc = "update" => MoreToEmit
    /\ Working /\ gen.id # Nameless => \A y \in gen.todo : y.id # gen.id
    /\ gen.pc = "idle" => gen.todo = {}

\* No time lies ahead of the clock, but for the one interval paid in advance.
Clocked ==
    /\ \A x \in sessions : x.from <= now + Interval /\ x.next <= now + Interval
    /\ \A x \in sessions : x.id # Nameless => x.from <= now
    /\ \A y \in gen.todo : y.id # Nameless => y.from <= now
    /\ \A h \in hooks : /\ h.pc \in {"emit", "open"} => h.from <= now
                        /\ h.pc = "open" => h.next <= now + Interval
    /\ gen.at <= now \/ gen.pc \in {"idle", "list"}
    /\ Working => gen.start + Interval * gen.left <= gen.at + Interval

OpeningHook(h) == h.pc \in {"emit", "open"}

\* A sandbox that was never created has left no trace.
Untouched ==
    \A s \in Sandboxes : sandbox[s] = "none" =>
        /\ \A x \in sessions : x.key # s
        /\ \A h \in hooks : h.sb # s
        /\ \A y \in gen.todo : y.id # s
        /\ gen.id # s
        /\ \A t \in Seconds : billed[s][t] = 0

\* While one hook alone opens the session of a sandbox, there is none yet.
OneOpener ==
    \A s \in Sandboxes \ raced :
        /\ \A g, h \in hooks : g.sb = s /\ h.sb = s /\ g.kind # "close" /\ h.kind # "close" => g = h
        /\ \A h \in hooks : h.sb = s /\ OpeningHook(h) => \A x \in Named : x.key # s

\* By the counts b, every second from i up to j has been billed to s.
Paid(b, s, i, j) == \A t \in Seconds : i <= t /\ t < j => b[s][t] > 0

\* What the generator read, what a hook is about to write and what the session
\* says may be of different times: each is paid for from the session's opening.
PaidFor(s) ==
    /\ \A x \in Named : x.key = s => Paid(billed, s, x.from, x.next)
    /\ \A y \in gen.todo : y.id = s =>
          /\ Paid(billed, s, y.from, y.next)
          /\ \A x \in Named : x.key = s => Paid(billed, s, x.from, y.next)
          /\ \A h \in hooks : h.sb = s /\ OpeningHook(h) => Paid(billed, s, h.from, y.next)
    /\ Working /\ gen.id = s =>
          /\ \A x \in Named : x.key = s => Paid(billed, s, x.from, gen.start)
          /\ \A h \in hooks : h.sb = s /\ OpeningHook(h) => Paid(billed, s, h.from, gen.start)

\* What a hook or the generator does by itself.
PaidByEach ==
    /\ \A h \in hooks : h.pc = "open" => Paid(billed, h.sb, h.from, h.next)
    /\ Working /\ gen.id # Nameless => Paid(billed, gen.id, gen.at, gen.start)
    /\ gen.pc = "update" /\ gen.id # Nameless => Paid(billed, gen.id, gen.start, ChunkEnd)

PaidParts == PaidByEach /\ \A s \in Sandboxes \ raced : PaidFor(s)

\* Nothing from i on has been billed.
Unbilled(b, s, i) == \A t \in Seconds : i <= t => b[s][t] = 0

\* A hook is about to open the first session: nobody else bills the sandbox.
Alone(s, h) ==
    /\ \A g \in hooks : g.sb = s /\ OpeningHook(g) => g = h
    /\ \A x \in sessions : x.key # s
    /\ \A y \in gen.todo : y.id # s
    /\ ~(Working /\ gen.id = s)
    /\ h.pc = "emit" => \A t \in Seconds : billed[s][t] = 0
    /\ h.pc = "open" => Unbilled(billed, s, h.next)

\* Whoever bills next starts where nothing has been billed.
Fresh(s) ==
    /\ \A t \in Seconds : billed[s][t] <= 1
    /\ \A h \in hooks : h.sb = s /\ OpeningHook(h) => Alone(s, h)
    /\ \A x \in Named : x.key = s /\ ~(gen.pc = "update" /\ gen.id = s) => Unbilled(billed, s, x.next)
    /\ \A y \in gen.todo : y.id = s => Unbilled(billed, s, y.next)
    /\ gen.id = s /\ gen.pc = "emit" => Unbilled(billed, s, gen.start)
    /\ gen.id = s /\ gen.pc = "update" => Unbilled(billed, s, ChunkEnd)

\* The first session of a sandbox, as long as every voucher was recorded.
FirstSession == \A s \in Sandboxes \ (reopened \cup unrecorded) : Fresh(s)

SessionInv == Shape /\ Clocked /\ Untouched /\ OneOpener /\ PaidParts /\ FirstSession
-----------------------------------------------------------------------------
(* Types. *)

\* Facts of arithmetic that the provers need said.
LEMMA DivNat ==
    ASSUME NEW a \in Nat, NEW b \in Nat \ {0}
    PROVE  a \div b \in Nat /\ b * (a \div b) <= a
  OBVIOUS

\* A chunk is a number of intervals that are left.
LEMMA ChunkType ==
    ASSUME Types
    PROVE  ChunkEnd \in Int /\ Chunk \in Nat /\ gen.left - Chunk \in Nat
  BY IntervalAssumption, TuningAssumption DEF Types, IsGenerator, ChunkEnd, Chunk

\* A hook that goes on is a hook.
LEMMA ContinueType ==
    ASSUME NEW h, IsHook(h), NEW pc \in {"emit", "open"}, NEW next \in Int, NEW from \in Int
    PROVE  IsHook([h EXCEPT !.pc = pc, !.next = next, !.from = from])
  BY DEF IsHook

\* Every step keeps the types.
LEMMA TypesStep ==
    ASSUME Types, Next
    PROVE  Types'
  <1> USE IntervalAssumption, TuningAssumption, NamelessAssumption
      DEF Types, Failure, Request, boundVars, histVars, causes
  <1>1. CASE ScanAllSessions
    BY <1>1 DEF ScanAllSessions, Down, IsSession, IsHook, IsGenerator, Ids
  <1>2. CASE ListSandboxes
    <2>1. Billable \subseteq Sandboxes
      BY DEF Billable
    <2>2. IsGenerator([gen EXCEPT !.pc = "visit", !.live = Billable, !.at = now])
      BY <2>1 DEF IsGenerator
    <2>3. IsGenerator([gen EXCEPT !.pc = "visit", !.unknown = TRUE, !.at = now])
      BY DEF IsGenerator
    <2>4. IsGenerator([gen EXCEPT !.pc = "visit", !.at = now])
      BY DEF IsGenerator
    <2>5. IsGenerator(gen')
      BY <1>2, <2>2, <2>3, <2>4 DEF ListSandboxes
    <2> QED BY <1>2, <2>5 DEF ListSandboxes
  <1>3. CASE EmitChunk
    BY <1>3 DEF EmitChunk, Bill, IsSession, IsHook, IsGenerator, Ids
  <1>4. CASE RecordChunk
    <2>1. ChunkEnd \in Int /\ Chunk \in Nat /\ gen.left - Chunk \in Nat
      BY ChunkType
    <2>2. IsGenerator(gen')
      BY <1>4, <2>1 DEF RecordChunk, AfterChunk, IsGenerator
    <2>3. \A x \in sessions' : IsSession(x)
      BY <1>4, <2>1 DEF RecordChunk, UpdateNextVoucherAt, At, IsSession, IsGenerator, Ids
    <2> QED BY <1>4, <2>2, <2>3 DEF RecordChunk
  <1>5. CASE ChunkFails
    BY <1>5 DEF ChunkFails, NextSession, LeftUnrecorded, IsSession, IsHook, IsGenerator, Ids
  <1>6. CASE CaughtUp
    BY <1>6 DEF CaughtUp, NextSession, IsSession, IsHook, IsGenerator, Ids
  <1>7. CASE EndOfTick
    BY <1>7 DEF EndOfTick, Down, IsSession, IsHook, IsGenerator, Ids
  <1>8. ASSUME NEW x \in gen.todo, VisitNotDue(x) PROVE Types'
    BY <1>8 DEF VisitNotDue, Visited, IsSession, IsHook, IsGenerator, Ids
  <1>9. ASSUME NEW x \in gen.todo, VisitAbsent(x) PROVE Types'
    BY <1>9 DEF VisitAbsent, Visited, OneMore, IsSession, IsHook, IsGenerator, Ids
  <1>10. ASSUME NEW x \in gen.todo, ClosePhantom(x) PROVE Types'
    BY <1>10 DEF ClosePhantom, Visited, DeleteSession, At, ConfirmGone, IsSession, IsHook,
       IsGenerator, Ids
  <1>11. ASSUME NEW x \in gen.todo, VisitDue(x) PROVE Types'
    <2>1. Overdue(x.next) \in Nat
      <3>1. gen.at - x.next \in Nat
        BY <1>11 DEF VisitDue, Due, IsSession, IsGenerator
      <3> QED BY <3>1, DivNat DEF Overdue
    <2> QED BY <1>11, <2>1 DEF VisitDue, Visited, IsGenerator, IsSession, Ids
  <1>12. ASSUME NEW h \in hooks, CheckSession(h) PROVE Types'
    <2>1. IsHook([h EXCEPT !.pc = "emit", !.next = 0, !.from = now])
      BY DEF IsHook
    <2>2. \A g \in hooks' : IsHook(g)
      BY <1>12, <2>1 DEF CheckSession, Done, Continue
    <2>3. h.sb \in Sandboxes
      BY DEF IsHook
    <2>4. reopened' \subseteq Sandboxes
      BY <1>12, <2>3 DEF CheckSession, HasSession, Done, Continue
    <2> QED BY <1>12, <2>2, <2>4 DEF CheckSession
  <1>13. ASSUME NEW h \in hooks, EmitFirst(h) PROVE Types'
    <2>1. h.from \in Int /\ h.from + Interval \in Int
      BY DEF IsHook
    <2>2. IsHook([h EXCEPT !.pc = "open", !.next = h.from + Interval, !.from = h.from])
      BY <2>1, ContinueType
    <2>3. \A g \in hooks' : IsHook(g)
      BY <1>13, <2>2 DEF EmitFirst, Continue
    <2> QED BY <1>13, <2>3 DEF EmitFirst, Bill, IsHook
  <1>14. ASSUME NEW h \in hooks, EmitFirstFails(h) PROVE Types'
    <2>1. h.from \in Int
      BY DEF IsHook
    <2>2. IsHook([h EXCEPT !.pc = "open", !.next = h.from, !.from = h.from])
      BY <2>1, ContinueType
    <2> QED BY <1>14, <2>2 DEF EmitFirstFails, Done, Continue, NextAfterFailedEmit
  <1>15. ASSUME NEW h \in hooks, OpenSession(h) PROVE Types'
    BY <1>15 DEF OpenSession, CreateSession, At, Done, IsSession, IsHook, IsGenerator, Ids
  <1>16. ASSUME NEW h \in hooks, CloseSession(h) PROVE Types'
    BY <1>16 DEF CloseSession, DeleteSession, At, Done, IsSession, IsHook, IsGenerator, Ids
  <1>17. CASE Tick
    BY <1>17 DEF Tick, IsSession, IsHook, IsGenerator, Ids
  <1>18. CASE Crash
    BY <1>18 DEF Crash, Down, NoSkips, LeftUnrecorded, IsSession, IsHook, IsGenerator, Ids
  <1>19. ASSUME NEW s \in Sandboxes, Create(s) PROVE Types'
    BY <1>19 DEF Create, Spawn, Hook, Opening, IsSession, IsHook, IsGenerator, Ids
  <1>20. ASSUME NEW s \in Sandboxes, Start(s) PROVE Types'
    BY <1>20 DEF Start, Spawn, Hook, Opening, IsSession, IsHook, IsGenerator, Ids
  <1>21. ASSUME NEW s \in Sandboxes, Vanish(s) PROVE Types'
    BY <1>21 DEF Vanish, IsSession, IsHook, IsGenerator, Ids
  <1>22. ASSUME NEW s \in Sandboxes, Ensure(s) PROVE Types'
    BY <1>22 DEF Ensure, Spawn, Hook, Opening, IsSession, IsHook, IsGenerator, Ids
  <1>23. ASSUME NEW s \in Sandboxes, AdminClose(s) PROVE Types'
    BY <1>23 DEF AdminClose, DeleteSession, At, IsSession, IsHook, IsGenerator, Ids
  <1>24. ASSUME NEW s \in Sandboxes, NEW to \in {"stopped", "archived", "gone"}, TakeDown(s, to)
         PROVE Types'
    BY <1>24 DEF TakeDown, Spawn, Hook, Opening, IsSession, IsHook, IsGenerator, Ids
  <1> QED BY <1>1, <1>2, <1>3, <1>4, <1>5, <1>6, <1>7, <1>8, <1>9, <1>10, <1>11, <1>12, <1>13,
             <1>14, <1>15, <1>16, <1>17, <1>18, <1>19, <1>20, <1>21, <1>22, <1>23, <1>24
                 DEF Next, GeneratorStep, HookStep

-----------------------------------------------------------------------------
(* What a step writes. *)

\* The hook that goes on is one record in the place of another.
LEMMA Continued ==
    ASSUME NEW h, IsHook(h), NEW pc, NEW next, NEW from, Continue(h, pc, next, from)
    PROVE  \E k : /\ hooks' = (hooks \ {h}) \cup {k}
                  /\ k.sb = h.sb /\ k.kind = h.kind
                  /\ k.pc = pc /\ k.next = next /\ k.from = from
  <1> DEFINE k == [h EXCEPT !.pc = pc, !.next = next, !.from = from]
  <1>1. k.sb = h.sb /\ k.kind = h.kind /\ k.pc = pc /\ k.next = next /\ k.from = from
    BY DEF IsHook
  <1>2. hooks' = (hooks \ {h}) \cup {k}
    BY DEF Continue
  <1> QED BY <1>1, <1>2

\* The listing gives the generator its clock and leaves its list alone.
LEMMA Listed ==
    ASSUME Types, ListSandboxes
    PROVE  /\ gen'.pc = "visit" /\ gen'.at = now
           /\ gen'.todo = gen.todo /\ gen'.count = gen.count /\ gen'.id = gen.id
  BY DEF Types, IsGenerator, ListSandboxes

\* A chunk is at least one interval and no more than what is left.
LEMMA ChunkBounds ==
    ASSUME Types, MoreToEmit
    PROVE  /\ Interval * (gen.left - Chunk) \in Nat
           /\ ChunkEnd > gen.start
           /\ ChunkEnd + Interval * (gen.left - Chunk) = gen.start + Interval * gen.left
  <1> USE IntervalAssumption, TuningAssumption DEF Types, IsGenerator
  <1>1. Chunk \in Nat /\ Chunk > 0 /\ gen.left - Chunk \in Nat /\ gen.left \in Nat
    BY DEF MoreToEmit, Chunk
  <1>2. Interval * Chunk > 0 /\ Interval * (gen.left - Chunk) \in Nat
    BY <1>1
  <1>3. Interval * Chunk + Interval * (gen.left - Chunk) = Interval * gen.left
    BY <1>1
  <1> QED BY <1>1, <1>2, <1>3 DEF ChunkEnd

\* The periods that are due start no later than the tick.
LEMMA OverdueBounds ==
    ASSUME Types, NEW n \in Int, n <= gen.at
    PROVE  Overdue(n) \in Nat /\ n + Interval * Overdue(n) <= gen.at + Interval
  <1> USE IntervalAssumption DEF Types, IsGenerator
  <1> DEFINE d == gen.at - n
  <1>1. d \in Nat
    OBVIOUS
  <1>2. d \div Interval \in Nat /\ Interval * (d \div Interval) <= d
    BY <1>1, DivNat
  <1>3. Interval * (d \div Interval + 1) = Interval * (d \div Interval) + Interval
    BY <1>2
  <1> QED BY <1>2, <1>3 DEF Overdue

\* The first voucher is queued, and the hook goes on to open the session.
LEMMA Emitted ==
    ASSUME Types, NEW h \in hooks, EmitFirst(h)
    PROVE  \E k : /\ hooks' = (hooks \ {h}) \cup {k} /\ k.sb = h.sb /\ k.kind = h.kind
                  /\ k.pc = "open" /\ k.next = h.from + Interval /\ k.from = h.from
  <1>1. IsHook(h) BY DEF Types
  <1> QED BY <1>1, Continued DEF EmitFirst

\* The first voucher could not be queued, and the hook opens the session all the same.
LEMMA NotEmitted ==
    ASSUME Types, NEW h \in hooks, EmitFirstFails(h), h.kind # "start"
    PROVE  \E k : /\ hooks' = (hooks \ {h}) \cup {k} /\ k.sb = h.sb /\ k.kind = h.kind
                  /\ k.pc = "open" /\ k.next = h.from /\ k.from = h.from
  <1>1. IsHook(h) BY DEF Types
  <1> QED BY <1>1, Continued DEF EmitFirstFails, NextAfterFailedEmit

\* There is no session: the hook goes on from now.
LEMMA ToEmit ==
    ASSUME Types, NEW h \in hooks, CheckSession(h), ~HasSession(h.sb)
    PROVE  \E k : /\ hooks' = (hooks \ {h}) \cup {k} /\ k.sb = h.sb /\ k.kind = h.kind
                  /\ k.pc = "emit" /\ k.next = 0 /\ k.from = now
  <1>1. IsHook(h) BY DEF Types
  <1> QED BY <1>1, Continued DEF CheckSession

-----------------------------------------------------------------------------
(* Every part of the invariant is kept. *)

\* One hash per key survives every write to the hash, and the generator never
\* has the session it works on in its list.
LEMMA ShapeStep ==
    ASSUME Shape, Next, Types'
    PROVE  Shape'
  <1> USE IntervalAssumption, TuningAssumption, NamelessAssumption
      DEF Shape, Failure, Request, boundVars, histVars, causes, OneHash, Working, GenAt
  <1>1. CASE ScanAllSessions
    BY <1>1 DEF ScanAllSessions, Down, IsSession, IsHook, IsGenerator, Ids, MoreToEmit, Types
  <1>2. CASE ListSandboxes
    BY <1>2, Listed DEF ListSandboxes, IsSession, IsHook, IsGenerator, Ids, MoreToEmit, Types
  <1>3. CASE EmitChunk
    BY <1>3 DEF EmitChunk, Bill, IsSession, IsHook, IsGenerator, Ids, MoreToEmit, Types
  <1>4. CASE RecordChunk
    BY <1>4 DEF RecordChunk, UpdateNextVoucherAt, AfterChunk, HasSession, At, ChunkEnd, Chunk,
       IsSession, IsHook, IsGenerator, Ids, MoreToEmit, Types
  <1>5. CASE ChunkFails
    BY <1>5 DEF ChunkFails, NextSession, LeftUnrecorded, IsSession, IsHook, IsGenerator, Ids,
       MoreToEmit, Types
  <1>6. CASE CaughtUp
    BY <1>6 DEF CaughtUp, NextSession, IsSession, IsHook, IsGenerator, Ids, MoreToEmit, Types
  <1>7. CASE EndOfTick
    BY <1>7 DEF EndOfTick, Down, IsSession, IsHook, IsGenerator, Ids, MoreToEmit, Types
  <1>8. ASSUME NEW x \in gen.todo, VisitNotDue(x) PROVE Shape'
    BY <1>8 DEF VisitNotDue, Visited, IsSession, IsHook, IsGenerator, Ids, MoreToEmit, Types
  <1>9. ASSUME NEW x \in gen.todo, VisitAbsent(x) PROVE Shape'
    BY <1>9 DEF VisitAbsent, Visited, OneMore, IsSession, IsHook, IsGenerator, Ids, MoreToEmit,
       Types
  <1>10. ASSUME NEW x \in gen.todo, ClosePhantom(x) PROVE Shape'
    BY <1>10 DEF ClosePhantom, Visited, DeleteSession, At, ConfirmGone, IsSession, IsHook,
       IsGenerator, Ids, MoreToEmit, Types
  <1>11. ASSUME NEW x \in gen.todo, VisitDue(x) PROVE Shape'
    BY <1>11 DEF VisitDue, Visited, Overdue, Due, IsSession, IsHook, IsGenerator, Ids, MoreToEmit,
       Types
  <1>12. ASSUME NEW h \in hooks, CheckSession(h) PROVE Shape'
    <2>1. CASE HasSession(h.sb)
      BY <1>12, <2>1 DEF CheckSession, Done, IsSession, IsHook, IsGenerator, Ids, MoreToEmit, Types
    <2>2. CASE ~HasSession(h.sb)
      <3>1. PICK k : /\ hooks' = (hooks \ {h}) \cup {k} /\ k.sb = h.sb /\ k.kind = h.kind
                     /\ k.pc = "emit" /\ k.next = 0 /\ k.from = now
        BY <1>12, <2>2, ToEmit
      <3> QED BY <1>12, <2>2, <3>1 DEF CheckSession, HasSession, At, IsSession, IsHook,
                 IsGenerator, Ids, MoreToEmit, Types
    <2> QED BY <2>1, <2>2
  <1>13. ASSUME NEW h \in hooks, EmitFirst(h) PROVE Shape'
    <2>1. PICK k : /\ hooks' = (hooks \ {h}) \cup {k} /\ k.sb = h.sb /\ k.kind = h.kind
                     /\ k.pc = "open" /\ k.next = h.from + Interval /\ k.from = h.from
        BY <1>13, Emitted
    <2> QED BY <1>13, <2>1 DEF EmitFirst, Bill, IsSession, IsHook, IsGenerator, Ids, MoreToEmit,
               Types
  <1>14. ASSUME NEW h \in hooks, EmitFirstFails(h) PROVE Shape'
    <2>1. CASE h.kind = "start"
      BY <1>14, <2>1 DEF EmitFirstFails, Done, IsSession, IsHook, IsGenerator, Ids, MoreToEmit,
         Types
    <2>2. CASE h.kind # "start"
      <3>1. PICK k : /\ hooks' = (hooks \ {h}) \cup {k} /\ k.sb = h.sb /\ k.kind = h.kind
                     /\ k.pc = "open" /\ k.next = h.from /\ k.from = h.from
        BY <1>14, <2>2, NotEmitted
      <3> QED BY <1>14, <2>2, <3>1 DEF EmitFirstFails, IsSession, IsHook, IsGenerator, Ids,
                 MoreToEmit, Types
    <2> QED BY <2>1, <2>2
  <1>15. ASSUME NEW h \in hooks, OpenSession(h) PROVE Shape'
    BY <1>15 DEF OpenSession, CreateSession, At, Done, IsSession, IsHook, IsGenerator, Ids,
       MoreToEmit, Types
  <1>16. ASSUME NEW h \in hooks, CloseSession(h) PROVE Shape'
    BY <1>16 DEF CloseSession, DeleteSession, At, Done, IsSession, IsHook, IsGenerator, Ids,
       MoreToEmit, Types
  <1>17. CASE Tick
    BY <1>17 DEF Tick, IsSession, IsHook, IsGenerator, Ids, MoreToEmit, Types
  <1>18. CASE Crash
    BY <1>18 DEF Crash, Down, NoSkips, LeftUnrecorded, IsSession, IsHook, IsGenerator, Ids,
       MoreToEmit, Types
  <1>19. ASSUME NEW s \in Sandboxes, Create(s) PROVE Shape'
    BY <1>19 DEF Create, Spawn, Hook, Opening, IsSession, IsHook, IsGenerator, Ids, MoreToEmit,
       Types
  <1>20. ASSUME NEW s \in Sandboxes, Start(s) PROVE Shape'
    BY <1>20 DEF Start, Spawn, Hook, Opening, IsSession, IsHook, IsGenerator, Ids, MoreToEmit, Types
  <1>21. ASSUME NEW s \in Sandboxes, Vanish(s) PROVE Shape'
    BY <1>21 DEF Vanish, IsSession, IsHook, IsGenerator, Ids, MoreToEmit, Types
  <1>22. ASSUME NEW s \in Sandboxes, Ensure(s) PROVE Shape'
    BY <1>22 DEF Ensure, Spawn, Hook, Opening, IsSession, IsHook, IsGenerator, Ids, MoreToEmit,
       Types
  <1>23. ASSUME NEW s \in Sandboxes, AdminClose(s) PROVE Shape'
    BY <1>23 DEF AdminClose, DeleteSession, At, IsSession, IsHook, IsGenerator, Ids, MoreToEmit,
       Types
  <1>24. ASSUME NEW s \in Sandboxes, NEW to \in {"stopped", "archived", "gone"}, TakeDown(s, to)
         PROVE Shape'
    BY <1>24 DEF TakeDown, Spawn, Hook, Opening, IsSession, IsHook, IsGenerator, Ids, MoreToEmit,
       Types
  <1> QED BY <1>1, <1>2, <1>3, <1>4, <1>5, <1>6, <1>7, <1>8, <1>9, <1>10, <1>11, <1>12, <1>13,
             <1>14, <1>15, <1>16, <1>17, <1>18, <1>19, <1>20, <1>21, <1>22, <1>23, <1>24
                 DEF Next, GeneratorStep, HookStep

\* No step puts a time ahead of the clock.
LEMMA ClockedStep ==
    ASSUME Shape, Clocked, Next, Types'
    PROVE  Clocked'
  <1> USE IntervalAssumption, TuningAssumption, NamelessAssumption
      DEF Shape, Clocked, Failure, Request, boundVars, histVars, causes, OneHash, Working, GenAt
  <1>1. CASE ScanAllSessions
    BY <1>1 DEF ScanAllSessions, Down, IsSession, IsHook, IsGenerator, Ids, MoreToEmit, Types
  <1>2. CASE ListSandboxes
    BY <1>2, Listed DEF ListSandboxes, IsSession, IsHook, IsGenerator, Ids, MoreToEmit, Types
  <1>3. CASE EmitChunk
    BY <1>3 DEF EmitChunk, Bill, IsSession, IsHook, IsGenerator, Ids, MoreToEmit, Types
  <1>4. CASE RecordChunk
    <2>1. Interval * (gen.left - Chunk) \in Nat /\ ChunkEnd + Interval * (gen.left - Chunk) = gen.start + Interval * gen.left
      BY <1>4, ChunkBounds DEF RecordChunk
    <2>2. ChunkEnd \in Int /\ gen.start + Interval * gen.left <= gen.at + Interval /\ gen.at <= now
      BY <1>4, ChunkType DEF RecordChunk
    <2>3. ChunkEnd <= now + Interval
      BY <2>1, <2>2 DEF Types, IsGenerator
    <2>4. /\ gen'.start = ChunkEnd /\ gen'.left = gen.left - Chunk /\ gen'.at = gen.at
          /\ gen'.pc = "emit" /\ gen'.todo = gen.todo
      BY <1>4 DEF RecordChunk, AfterChunk, IsGenerator, Types
    <2>5. Working' => gen'.start + Interval * gen'.left <= gen'.at + Interval
      BY <2>1, <2>2, <2>4
    <2>6. \A x \in sessions' : x.from <= now' + Interval /\ x.next <= now' + Interval
      BY <1>4, <2>2, <2>3 DEF RecordChunk, UpdateNextVoucherAt, HasSession, At, IsSession, Types
    <2>7. \A x \in sessions' : x.id # Nameless => x.from <= now'
      BY <1>4 DEF RecordChunk, UpdateNextVoucherAt, HasSession, At, IsSession, Types
    <2> QED BY <1>4, <2>2, <2>4, <2>5, <2>6, <2>7 DEF RecordChunk
  <1>5. CASE ChunkFails
    BY <1>5 DEF ChunkFails, NextSession, LeftUnrecorded, IsSession, IsHook, IsGenerator, Ids,
       MoreToEmit, Types
  <1>6. CASE CaughtUp
    BY <1>6 DEF CaughtUp, NextSession, IsSession, IsHook, IsGenerator, Ids, MoreToEmit, Types
  <1>7. CASE EndOfTick
    BY <1>7 DEF EndOfTick, Down, IsSession, IsHook, IsGenerator, Ids, MoreToEmit, Types
  <1>8. ASSUME NEW x \in gen.todo, VisitNotDue(x) PROVE Clocked'
    BY <1>8 DEF VisitNotDue, Visited, IsSession, IsHook, IsGenerator, Ids, MoreToEmit, Types
  <1>9. ASSUME NEW x \in gen.todo, VisitAbsent(x) PROVE Clocked'
    BY <1>9 DEF VisitAbsent, Visited, OneMore, IsSession, IsHook, IsGenerator, Ids, MoreToEmit,
       Types
  <1>10. ASSUME NEW x \in gen.todo, ClosePhantom(x) PROVE Clocked'
    BY <1>10 DEF ClosePhantom, Visited, DeleteSession, At, ConfirmGone, IsSession, IsHook,
       IsGenerator, Ids, MoreToEmit, Types
  <1>11. ASSUME NEW x \in gen.todo, VisitDue(x) PROVE Clocked'
    <2>1. x.next \in Int /\ x.next <= gen.at
      BY <1>11 DEF VisitDue, Due, IsSession, IsGenerator, Types
    <2>2. Overdue(x.next) \in Nat /\ x.next + Interval * Overdue(x.next) <= gen.at + Interval
      BY <2>1, OverdueBounds
    <2>3. gen'.start = x.next /\ gen'.left = Overdue(x.next) /\ gen'.at = gen.at /\ gen'.todo \subseteq gen.todo
          /\ gen'.pc = "emit"
      BY <1>11 DEF VisitDue, Visited, IsGenerator, Types
    <2> QED BY <1>11, <2>2, <2>3 DEF VisitDue, Types
  <1>12. ASSUME NEW h \in hooks, CheckSession(h) PROVE Clocked'
    <2>1. CASE HasSession(h.sb)
      BY <1>12, <2>1 DEF CheckSession, Done, IsSession, IsHook, IsGenerator, Ids, MoreToEmit, Types
    <2>2. CASE ~HasSession(h.sb)
      <3>1. PICK k : /\ hooks' = (hooks \ {h}) \cup {k} /\ k.sb = h.sb /\ k.kind = h.kind
                     /\ k.pc = "emit" /\ k.next = 0 /\ k.from = now
        BY <1>12, <2>2, ToEmit
      <3> QED BY <1>12, <2>2, <3>1 DEF CheckSession, HasSession, At, IsSession, IsHook,
                 IsGenerator, Ids, MoreToEmit, Types
    <2> QED BY <2>1, <2>2
  <1>13. ASSUME NEW h \in hooks, EmitFirst(h) PROVE Clocked'
    <2>1. PICK k : /\ hooks' = (hooks \ {h}) \cup {k} /\ k.sb = h.sb /\ k.kind = h.kind
                     /\ k.pc = "open" /\ k.next = h.from + Interval /\ k.from = h.from
        BY <1>13, Emitted
    <2> QED BY <1>13, <2>1 DEF EmitFirst, Bill, IsSession, IsHook, IsGenerator, Ids, MoreToEmit,
               Types
  <1>14. ASSUME NEW h \in hooks, EmitFirstFails(h) PROVE Clocked'
    <2>1. CASE h.kind = "start"
      BY <1>14, <2>1 DEF EmitFirstFails, Done, IsSession, IsHook, IsGenerator, Ids, MoreToEmit,
         Types
    <2>2. CASE h.kind # "start"
      <3>1. PICK k : /\ hooks' = (hooks \ {h}) \cup {k} /\ k.sb = h.sb /\ k.kind = h.kind
                     /\ k.pc = "open" /\ k.next = h.from /\ k.from = h.from
        BY <1>14, <2>2, NotEmitted
      <3> QED BY <1>14, <2>2, <3>1 DEF EmitFirstFails, IsSession, IsHook, IsGenerator, Ids,
                 MoreToEmit, Types
    <2> QED BY <2>1, <2>2
  <1>15. ASSUME NEW h \in hooks, OpenSession(h) PROVE Clocked'
    BY <1>15 DEF OpenSession, CreateSession, At, Done, IsSession, IsHook, IsGenerator, Ids,
       MoreToEmit, Types
  <1>16. ASSUME NEW h \in hooks, CloseSession(h) PROVE Clocked'
    BY <1>16 DEF CloseSession, DeleteSession, At, Done, IsSession, IsHook, IsGenerator, Ids,
       MoreToEmit, Types
  <1>17. CASE Tick
    BY <1>17 DEF Tick, IsSession, IsHook, IsGenerator, Ids, MoreToEmit, Types
  <1>18. CASE Crash
    BY <1>18 DEF Crash, Down, NoSkips, LeftUnrecorded, IsSession, IsHook, IsGenerator, Ids,
       MoreToEmit, Types
  <1>19. ASSUME NEW s \in Sandboxes, Create(s) PROVE Clocked'
    BY <1>19 DEF Create, Spawn, Hook, Opening, IsSession, IsHook, IsGenerator, Ids, MoreToEmit,
       Types
  <1>20. ASSUME NEW s \in Sandboxes, Start(s) PROVE Clocked'
    BY <1>20 DEF Start, Spawn, Hook, Opening, IsSession, IsHook, IsGenerator, Ids, MoreToEmit, Types
  <1>21. ASSUME NEW s \in Sandboxes, Vanish(s) PROVE Clocked'
    BY <1>21 DEF Vanish, IsSession, IsHook, IsGenerator, Ids, MoreToEmit, Types
  <1>22. ASSUME NEW s \in Sandboxes, Ensure(s) PROVE Clocked'
    BY <1>22 DEF Ensure, Spawn, Hook, Opening, IsSession, IsHook, IsGenerator, Ids, MoreToEmit,
       Types
  <1>23. ASSUME NEW s \in Sandboxes, AdminClose(s) PROVE Clocked'
    BY <1>23 DEF AdminClose, DeleteSession, At, IsSession, IsHook, IsGenerator, Ids, MoreToEmit,
       Types
  <1>24. ASSUME NEW s \in Sandboxes, NEW to \in {"stopped", "archived", "gone"}, TakeDown(s, to)
         PROVE Clocked'
    BY <1>24 DEF TakeDown, Spawn, Hook, Opening, IsSession, IsHook, IsGenerator, Ids, MoreToEmit,
       Types
  <1> QED BY <1>1, <1>2, <1>3, <1>4, <1>5, <1>6, <1>7, <1>8, <1>9, <1>10, <1>11, <1>12, <1>13,
             <1>14, <1>15, <1>16, <1>17, <1>18, <1>19, <1>20, <1>21, <1>22, <1>23, <1>24
                 DEF Next, GeneratorStep, HookStep

\* Only a create touches a sandbox that was never created.
LEMMA UntouchedStep ==
    ASSUME Shape, Untouched, Next, Types'
    PROVE  Untouched'
  <1> USE IntervalAssumption, TuningAssumption, NamelessAssumption
      DEF Shape, Untouched, Failure, Request, boundVars, histVars, causes, OneHash, Working, GenAt
  <1>1. CASE ScanAllSessions
    BY <1>1 DEF ScanAllSessions, Down, IsSession, IsHook, IsGenerator, Ids, MoreToEmit, Types
  <1>2. CASE ListSandboxes
    BY <1>2, Listed DEF ListSandboxes, IsSession, IsHook, IsGenerator, Ids, MoreToEmit, Types
  <1>3. CASE EmitChunk
    BY <1>3 DEF EmitChunk, Bill, IsSession, IsHook, IsGenerator, Ids, MoreToEmit, Types
  <1>4. CASE RecordChunk
    BY <1>4 DEF RecordChunk, UpdateNextVoucherAt, AfterChunk, HasSession, At, ChunkEnd, Chunk,
       IsSession, IsHook, IsGenerator, Ids, MoreToEmit, Types
  <1>5. CASE ChunkFails
    BY <1>5 DEF ChunkFails, NextSession, LeftUnrecorded, IsSession, IsHook, IsGenerator, Ids,
       MoreToEmit, Types
  <1>6. CASE CaughtUp
    BY <1>6 DEF CaughtUp, NextSession, IsSession, IsHook, IsGenerator, Ids, MoreToEmit, Types
  <1>7. CASE EndOfTick
    BY <1>7 DEF EndOfTick, Down, IsSession, IsHook, IsGenerator, Ids, MoreToEmit, Types
  <1>8. ASSUME NEW x \in gen.todo, VisitNotDue(x) PROVE Untouched'
    BY <1>8 DEF VisitNotDue, Visited, IsSession, IsHook, IsGenerator, Ids, MoreToEmit, Types
  <1>9. ASSUME NEW x \in gen.todo, VisitAbsent(x) PROVE Untouched'
    BY <1>9 DEF VisitAbsent, Visited, OneMore, IsSession, IsHook, IsGenerator, Ids, MoreToEmit,
       Types
  <1>10. ASSUME NEW x \in gen.todo, ClosePhantom(x) PROVE Untouched'
    BY <1>10 DEF ClosePhantom, Visited, DeleteSession, At, ConfirmGone, IsSession, IsHook,
       IsGenerator, Ids, MoreToEmit, Types
  <1>11. ASSUME NEW x \in gen.todo, VisitDue(x) PROVE Untouched'
    BY <1>11 DEF VisitDue, Visited, Overdue, Due, IsSession, IsHook, IsGenerator, Ids, MoreToEmit,
       Types
  <1>12. ASSUME NEW h \in hooks, CheckSession(h) PROVE Untouched'
    <2>1. CASE HasSession(h.sb)
      BY <1>12, <2>1 DEF CheckSession, Done, IsSession, IsHook, IsGenerator, Ids, MoreToEmit, Types
    <2>2. CASE ~HasSession(h.sb)
      <3>1. PICK k : /\ hooks' = (hooks \ {h}) \cup {k} /\ k.sb = h.sb /\ k.kind = h.kind
                     /\ k.pc = "emit" /\ k.next = 0 /\ k.from = now
        BY <1>12, <2>2, ToEmit
      <3> QED BY <1>12, <2>2, <3>1 DEF CheckSession, HasSession, At, IsSession, IsHook,
                 IsGenerator, Ids, MoreToEmit, Types
    <2> QED BY <2>1, <2>2
  <1>13. ASSUME NEW h \in hooks, EmitFirst(h) PROVE Untouched'
    <2>1. PICK k : /\ hooks' = (hooks \ {h}) \cup {k} /\ k.sb = h.sb /\ k.kind = h.kind
                     /\ k.pc = "open" /\ k.next = h.from + Interval /\ k.from = h.from
        BY <1>13, Emitted
    <2> QED BY <1>13, <2>1 DEF EmitFirst, Bill, IsSession, IsHook, IsGenerator, Ids, MoreToEmit,
               Types
  <1>14. ASSUME NEW h \in hooks, EmitFirstFails(h) PROVE Untouched'
    <2>1. CASE h.kind = "start"
      BY <1>14, <2>1 DEF EmitFirstFails, Done, IsSession, IsHook, IsGenerator, Ids, MoreToEmit,
         Types
    <2>2. CASE h.kind # "start"
      <3>1. PICK k : /\ hooks' = (hooks \ {h}) \cup {k} /\ k.sb = h.sb /\ k.kind = h.kind
                     /\ k.pc = "open" /\ k.next = h.from /\ k.from = h.from
        BY <1>14, <2>2, NotEmitted
      <3> QED BY <1>14, <2>2, <3>1 DEF EmitFirstFails, IsSession, IsHook, IsGenerator, Ids,
                 MoreToEmit, Types
    <2> QED BY <2>1, <2>2
  <1>15. ASSUME NEW h \in hooks, OpenSession(h) PROVE Untouched'
    BY <1>15 DEF OpenSession, CreateSession, At, Done, IsSession, IsHook, IsGenerator, Ids,
       MoreToEmit, Types
  <1>16. ASSUME NEW h \in hooks, CloseSession(h) PROVE Untouched'
    BY <1>16 DEF CloseSession, DeleteSession, At, Done, IsSession, IsHook, IsGenerator, Ids,
       MoreToEmit, Types
  <1>17. CASE Tick
    BY <1>17 DEF Tick, IsSession, IsHook, IsGenerator, Ids, MoreToEmit, Types
  <1>18. CASE Crash
    BY <1>18 DEF Crash, Down, NoSkips, LeftUnrecorded, IsSession, IsHook, IsGenerator, Ids,
       MoreToEmit, Types
  <1>19. ASSUME NEW s \in Sandboxes, Create(s) PROVE Untouched'
    BY <1>19 DEF Create, Spawn, Hook, Opening, IsSession, IsHook, IsGenerator, Ids, MoreToEmit,
       Types
  <1>20. ASSUME NEW s \in Sandboxes, Start(s) PROVE Untouched'
    BY <1>20 DEF Start, Spawn, Hook, Opening, IsSession, IsHook, IsGenerator, Ids, MoreToEmit, Types
  <1>21. ASSUME NEW s \in Sandboxes, Vanish(s) PROVE Untouched'
    BY <1>21 DEF Vanish, IsSession, IsHook, IsGenerator, Ids, MoreToEmit, Types
  <1>22. ASSUME NEW s \in Sandboxes, Ensure(s) PROVE Untouched'
    BY <1>22 DEF Ensure, Spawn, Hook, Opening, IsSession, IsHook, IsGenerator, Ids, MoreToEmit,
       Types
  <1>23. ASSUME NEW s \in Sandboxes, AdminClose(s) PROVE Untouched'
    BY <1>23 DEF AdminClose, DeleteSession, At, IsSession, IsHook, IsGenerator, Ids, MoreToEmit,
       Types
  <1>24. ASSUME NEW s \in Sandboxes, NEW to \in {"stopped", "archived", "gone"}, TakeDown(s, to)
         PROVE Untouched'
    BY <1>24 DEF TakeDown, Spawn, Hook, Opening, IsSession, IsHook, IsGenerator, Ids, MoreToEmit,
       Types
  <1> QED BY <1>1, <1>2, <1>3, <1>4, <1>5, <1>6, <1>7, <1>8, <1>9, <1>10, <1>11, <1>12, <1>13,
             <1>14, <1>15, <1>16, <1>17, <1>18, <1>19, <1>20, <1>21, <1>22, <1>23, <1>24
                 DEF Next, GeneratorStep, HookStep

\* An opening hook has seen that there is no session, and only another opening
\* hook of the sandbox could make one.
LEMMA OneOpenerStep ==
    ASSUME Shape, Untouched, OneOpener, Next, Types'
    PROVE  OneOpener'
  <1> USE IntervalAssumption, TuningAssumption, NamelessAssumption
      DEF Shape, Untouched, OneOpener, Named, OpeningHook, Failure, Request, boundVars, histVars,
      causes, OneHash, Working, GenAt
  <1>1. CASE ScanAllSessions
    BY <1>1 DEF ScanAllSessions, Down, IsSession, IsHook, IsGenerator, Ids, MoreToEmit, Types
  <1>2. CASE ListSandboxes
    BY <1>2, Listed DEF ListSandboxes, IsSession, IsHook, IsGenerator, Ids, MoreToEmit, Types
  <1>3. CASE EmitChunk
    BY <1>3 DEF EmitChunk, Bill, IsSession, IsHook, IsGenerator, Ids, MoreToEmit, Types
  <1>4. CASE RecordChunk
    BY <1>4 DEF RecordChunk, UpdateNextVoucherAt, AfterChunk, HasSession, At, ChunkEnd, Chunk,
       IsSession, IsHook, IsGenerator, Ids, MoreToEmit, Types
  <1>5. CASE ChunkFails
    BY <1>5 DEF ChunkFails, NextSession, LeftUnrecorded, IsSession, IsHook, IsGenerator, Ids,
       MoreToEmit, Types
  <1>6. CASE CaughtUp
    BY <1>6 DEF CaughtUp, NextSession, IsSession, IsHook, IsGenerator, Ids, MoreToEmit, Types
  <1>7. CASE EndOfTick
    BY <1>7 DEF EndOfTick, Down, IsSession, IsHook, IsGenerator, Ids, MoreToEmit, Types
  <1>8. ASSUME NEW x \in gen.todo, VisitNotDue(x) PROVE OneOpener'
    BY <1>8 DEF VisitNotDue, Visited, IsSession, IsHook, IsGenerator, Ids, MoreToEmit, Types
  <1>9. ASSUME NEW x \in gen.todo, VisitAbsent(x) PROVE OneOpener'
    BY <1>9 DEF VisitAbsent, Visited, OneMore, IsSession, IsHook, IsGenerator, Ids, MoreToEmit,
       Types
  <1>10. ASSUME NEW x \in gen.todo, ClosePhantom(x) PROVE OneOpener'
    BY <1>10 DEF ClosePhantom, Visited, DeleteSession, At, ConfirmGone, IsSession, IsHook,
       IsGenerator, Ids, MoreToEmit, Types
  <1>11. ASSUME NEW x \in gen.todo, VisitDue(x) PROVE OneOpener'
    BY <1>11 DEF VisitDue, Visited, Overdue, Due, IsSession, IsHook, IsGenerator, Ids, MoreToEmit,
       Types
  <1>12. ASSUME NEW h \in hooks, CheckSession(h) PROVE OneOpener'
    <2>1. CASE HasSession(h.sb)
      BY <1>12, <2>1 DEF CheckSession, Done, IsSession, IsHook, IsGenerator, Ids, MoreToEmit, Types
    <2>2. CASE ~HasSession(h.sb)
      <3>1. PICK k : /\ hooks' = (hooks \ {h}) \cup {k} /\ k.sb = h.sb /\ k.kind = h.kind
                     /\ k.pc = "emit" /\ k.next = 0 /\ k.from = now
        BY <1>12, <2>2, ToEmit
      <3> QED BY <1>12, <2>2, <3>1 DEF CheckSession, HasSession, At, IsSession, IsHook,
                 IsGenerator, Ids, MoreToEmit, Types
    <2> QED BY <2>1, <2>2
  <1>13. ASSUME NEW h \in hooks, EmitFirst(h) PROVE OneOpener'
    <2>1. PICK k : /\ hooks' = (hooks \ {h}) \cup {k} /\ k.sb = h.sb /\ k.kind = h.kind
                     /\ k.pc = "open" /\ k.next = h.from + Interval /\ k.from = h.from
        BY <1>13, Emitted
    <2> QED BY <1>13, <2>1 DEF EmitFirst, Bill, IsSession, IsHook, IsGenerator, Ids, MoreToEmit,
               Types
  <1>14. ASSUME NEW h \in hooks, EmitFirstFails(h) PROVE OneOpener'
    <2>1. CASE h.kind = "start"
      BY <1>14, <2>1 DEF EmitFirstFails, Done, IsSession, IsHook, IsGenerator, Ids, MoreToEmit,
         Types
    <2>2. CASE h.kind # "start"
      <3>1. PICK k : /\ hooks' = (hooks \ {h}) \cup {k} /\ k.sb = h.sb /\ k.kind = h.kind
                     /\ k.pc = "open" /\ k.next = h.from /\ k.from = h.from
        BY <1>14, <2>2, NotEmitted
      <3> QED BY <1>14, <2>2, <3>1 DEF EmitFirstFails, IsSession, IsHook, IsGenerator, Ids,
                 MoreToEmit, Types
    <2> QED BY <2>1, <2>2
  <1>15. ASSUME NEW h \in hooks, OpenSession(h) PROVE OneOpener'
    BY <1>15 DEF OpenSession, CreateSession, At, Done, IsSession, IsHook, IsGenerator, Ids,
       MoreToEmit, Types
  <1>16. ASSUME NEW h \in hooks, CloseSession(h) PROVE OneOpener'
    BY <1>16 DEF CloseSession, DeleteSession, At, Done, IsSession, IsHook, IsGenerator, Ids,
       MoreToEmit, Types
  <1>17. CASE Tick
    BY <1>17 DEF Tick, IsSession, IsHook, IsGenerator, Ids, MoreToEmit, Types
  <1>18. CASE Crash
    BY <1>18 DEF Crash, Down, NoSkips, LeftUnrecorded, IsSession, IsHook, IsGenerator, Ids,
       MoreToEmit, Types
  <1>19. ASSUME NEW s \in Sandboxes, Create(s) PROVE OneOpener'
    BY <1>19 DEF Create, Spawn, Hook, Opening, IsSession, IsHook, IsGenerator, Ids, MoreToEmit,
       Types
  <1>20. ASSUME NEW s \in Sandboxes, Start(s) PROVE OneOpener'
    BY <1>20 DEF Start, Spawn, Hook, Opening, IsSession, IsHook, IsGenerator, Ids, MoreToEmit, Types
  <1>21. ASSUME NEW s \in Sandboxes, Vanish(s) PROVE OneOpener'
    BY <1>21 DEF Vanish, IsSession, IsHook, IsGenerator, Ids, MoreToEmit, Types
  <1>22. ASSUME NEW s \in Sandboxes, Ensure(s) PROVE OneOpener'
    BY <1>22 DEF Ensure, Spawn, Hook, Opening, IsSession, IsHook, IsGenerator, Ids, MoreToEmit,
       Types
  <1>23. ASSUME NEW s \in Sandboxes, AdminClose(s) PROVE OneOpener'
    BY <1>23 DEF AdminClose, DeleteSession, At, IsSession, IsHook, IsGenerator, Ids, MoreToEmit,
       Types
  <1>24. ASSUME NEW s \in Sandboxes, NEW to \in {"stopped", "archived", "gone"}, TakeDown(s, to)
         PROVE OneOpener'
    BY <1>24 DEF TakeDown, Spawn, Hook, Opening, IsSession, IsHook, IsGenerator, Ids, MoreToEmit,
       Types
  <1> QED BY <1>1, <1>2, <1>3, <1>4, <1>5, <1>6, <1>7, <1>8, <1>9, <1>10, <1>11, <1>12, <1>13,
             <1>14, <1>15, <1>16, <1>17, <1>18, <1>19, <1>20, <1>21, <1>22, <1>23, <1>24
                 DEF Next, GeneratorStep, HookStep

-----------------------------------------------------------------------------
(* What is paid. *)

\* A voucher adds its seconds and takes none away.
LEMMA BillPays ==
    ASSUME Types, NEW s \in Ids, NEW i \in Int, NEW j \in Int, Bill(s, i, j)
    PROVE  /\ \A r \in Sandboxes : \A a, b : Paid(billed, r, a, b) => Paid(billed', r, a, b)
           /\ s # Nameless => Paid(billed', s, i, j)
  <1>1. \A r \in Sandboxes : \A t \in Seconds : billed[r][t] > 0 => billed'[r][t] > 0
    BY DEF Types, Bill, Ids
  <1>2. s # Nameless => \A t \in Seconds : i <= t /\ t < j => billed'[s][t] > 0
    BY DEF Types, Bill, Ids
  <1> QED BY <1>1, <1>2 DEF Paid

\* Periods that meet are one period.
LEMMA PaidJoin ==
    ASSUME NEW b, NEW s, NEW i \in Int, NEW j \in Int, NEW k \in Int,
           Paid(b, s, i, j), Paid(b, s, j, k)
    PROVE  Paid(b, s, i, k)
  BY DEF Paid, Seconds

\* A later start is covered as well.
LEMMA PaidFrom ==
    ASSUME NEW b, NEW s, NEW i \in Int, NEW j \in Int, NEW k \in Int,
           Paid(b, s, i, k), i <= j
    PROVE  Paid(b, s, j, k)
  BY BoundsAssumption, IntervalAssumption DEF Paid, Seconds

\* A period that is empty is paid.
LEMMA NoneDue ==
    ASSUME NEW b, NEW s, NEW i \in Int, NEW j \in Int, j <= i
    PROVE  Paid(b, s, i, j)
  BY BoundsAssumption, IntervalAssumption DEF Paid, Seconds

\* A step of neither the generator nor an opening hook, nor one that opens a session.
LEMMA PaidFrame ==
    ASSUME PaidParts, UNCHANGED <<gen, billed>>, raced \subseteq raced',
           \A x \in sessions' : x.id # Nameless => x \in sessions,
           \A h \in hooks' : OpeningHook(h) => h \in hooks
    PROVE  PaidParts'
  <1>1. ChunkEnd' = ChunkEnd
    BY DEF ChunkEnd, Chunk
  <1>2. PaidByEach'
    BY <1>1 DEF PaidParts, PaidByEach, OpeningHook, Working
  <1>3. ASSUME NEW s \in Sandboxes \ raced PROVE PaidFor(s)'
    <2>1. PaidFor(s)
      BY DEF PaidParts
    <2> QED BY <2>1 DEF PaidFor, Named, Working
  <1> QED BY <1>2, <1>3 DEF PaidParts

\* Whoever moves the start of the next period has paid for what lies before it.
LEMMA PaidPartsStep ==
    ASSUME Shape, Clocked, Untouched, OneOpener, PaidParts, Next, Types'
    PROVE  PaidParts'
  <1> Types
    BY DEF Shape
  <1> USE DEF Failure, Request, boundVars, histVars, causes
  <1>1. CASE ScanAllSessions
    <2>1. gen'.pc = "list" /\ gen'.todo = sessions
      BY <1>1 DEF ScanAllSessions, Down
    <2>2. PaidByEach'
      BY <1>1, <2>1 DEF ScanAllSessions, PaidParts, PaidByEach, Working, histVars
    <2>3. ASSUME NEW r \in Sandboxes \ raced, PaidFor(r) PROVE PaidFor(r)'
      <3>1. \A y \in sessions : y.id = r => y \in Named /\ y.key = r
        BY NamelessAssumption DEF Shape, OneHash, Named
      <3>2. \A y \in sessions : y.id = r => \A x \in Named : x.key = r => x = y
        BY <3>1 DEF Shape, OneHash, Named
      <3>3. \A y \in sessions : y.id = r => \A g \in hooks : ~(g.sb = r /\ OpeningHook(g))
        BY <3>1 DEF OneOpener
      <3> QED BY <1>1, <2>1, <2>3, <3>1, <3>2, <3>3
        DEF ScanAllSessions, PaidFor, Named, Working, histVars
    <2> QED BY <1>1, <2>2, <2>3 DEF ScanAllSessions, PaidParts, histVars, causes
  <1>2. CASE ListSandboxes
    BY <1>2, Listed DEF ListSandboxes, PaidParts, PaidByEach, PaidFor, Named, Working, GenAt
  <1>3. CASE EmitChunk
    <2>1. gen'.pc = "update" /\ gen'.id = gen.id /\ gen'.at = gen.at /\ gen'.start = gen.start /\ gen'.todo = gen.todo
      BY <1>3 DEF EmitChunk, Types, IsGenerator
    <2>2. ChunkEnd' = ChunkEnd
      BY <1>3 DEF EmitChunk, ChunkEnd, Chunk, Types, IsGenerator
    <2>3. /\ \A r \in Sandboxes : \A a, b : Paid(billed, r, a, b) => Paid(billed', r, a, b)
          /\ gen.id # Nameless => Paid(billed', gen.id, gen.start, ChunkEnd)
      <3>1. gen.id \in Ids /\ gen.start \in Int /\ ChunkEnd \in Int
        BY ChunkType DEF Types, IsGenerator
      <3> QED BY <1>3, <3>1, BillPays DEF EmitChunk
    <2>4. PaidByEach'
      BY <1>3, <2>1, <2>2, <2>3 DEF EmitChunk, PaidParts, PaidByEach, Working, GenAt, Types,
         IsHook, IsGenerator, Ids
    <2>5. ASSUME NEW r \in Sandboxes \ raced, PaidFor(r) PROVE PaidFor(r)'
      BY <1>3, <2>1, <2>3, <2>5 DEF EmitChunk, PaidFor, Named, Working, GenAt, OpeningHook
    <2> QED BY <1>3, <2>4, <2>5 DEF EmitChunk, PaidParts, causes
  <1>4. CASE RecordChunk
    <2>1. gen'.pc = "emit" /\ gen'.id = gen.id /\ gen'.at = gen.at /\ gen'.start = ChunkEnd /\ gen'.todo = gen.todo
      BY <1>4 DEF RecordChunk, AfterChunk, Types, IsGenerator
    <2>2. ChunkEnd \in Int /\ gen.start \in Int /\ gen.at \in Int
      BY ChunkType DEF Types, IsGenerator
    <2>3. gen.id # Nameless => Paid(billed, gen.id, gen.start, ChunkEnd) /\ Paid(billed, gen.id, gen.at, gen.start)
      BY <1>4 DEF RecordChunk, PaidParts, PaidByEach, Working, GenAt
    <2>4. \A i \in Int : gen.id # Nameless /\ Paid(billed, gen.id, i, gen.start) => Paid(billed, gen.id, i, ChunkEnd)
      BY <2>2, <2>3, PaidJoin
    <2>5. PaidByEach'
      BY <1>4, <2>1, <2>2, <2>3, <2>4 DEF RecordChunk, PaidParts, PaidByEach, Working
    <2>6. \A x \in sessions' : x.id # Nameless /\ x \notin sessions =>
            x.key = gen.id /\ x.next = ChunkEnd /\ \E z \in Named : z.key = x.key /\ z.from = x.from
      BY <1>4 DEF RecordChunk, UpdateNextVoucherAt, HasSession, At, Named, Types, IsSession
    <2>7. ASSUME NEW r \in Sandboxes \ raced, PaidFor(r) PROVE PaidFor(r)'
      <3>1. CASE r # gen.id
        BY <1>4, <2>1, <2>6, <2>7, <3>1 DEF RecordChunk, PaidFor, Named, Working, OpeningHook
      <3>2. CASE r = gen.id
        <4>1. gen.id # Nameless /\ \A y \in gen.todo : y.id # r
          BY <1>4, <3>2, NamelessAssumption DEF RecordChunk, GenAt, Shape, Working
        <4>2. \A x \in sessions' : x.id # Nameless /\ x.key = r =>
                x.from \in Int /\ x.next = ChunkEnd /\ Paid(billed, r, x.from, gen.start)
          <5>1. \A x \in sessions' : x.id # Nameless /\ x.key = r => x \notin sessions \/ x.next = ChunkEnd
            BY <1>4, <3>2 DEF RecordChunk, UpdateNextVoucherAt, HasSession, At, Types, IsSession
          <5>2. \A x \in sessions' : x.id # Nameless /\ x.key = r => \E z \in Named : z.key = r /\ z.from = x.from
            BY <1>4, <2>6, <3>2 DEF Named
          <5>3. \A z \in Named : z.key = r => z.from \in Int /\ Paid(billed, r, z.from, gen.start)
            <6>1. \A z \in Named : z.from \in Int
              BY DEF Named, Types, IsSession
            <6> QED BY <1>4, <2>7, <3>2, <6>1 DEF RecordChunk, GenAt, PaidFor, Working
          <5> QED BY <2>6, <5>1, <5>2, <5>3
        <4>3. \A g \in hooks : g.sb = r /\ OpeningHook(g) => Paid(billed, r, g.from, ChunkEnd)
          BY <1>4, <2>4, <2>7, <3>2, <4>1 DEF RecordChunk, GenAt, PaidFor, Working, Types, IsHook
        <4> QED BY <1>4, <2>1, <2>4, <3>2, <4>1, <4>2, <4>3
          DEF RecordChunk, PaidFor, Named, Working, OpeningHook
      <3> QED BY <3>1, <3>2
    <2> QED BY <1>4, <2>5, <2>7 DEF RecordChunk, PaidParts, histVars, causes
  <1>5. CASE ChunkFails
    BY <1>5 DEF ChunkFails, NextSession, LeftUnrecorded, PaidParts, PaidByEach, PaidFor, Named,
       Working, GenAt, Shape, Types, IsGenerator
  <1>6. CASE CaughtUp
    BY <1>6 DEF CaughtUp, NextSession, PaidParts, PaidByEach, PaidFor, Named, Working, GenAt,
       Shape, Types, IsGenerator
  <1>7. CASE EndOfTick
    BY <1>7 DEF EndOfTick, Down, PaidParts, PaidByEach, PaidFor, Named, Working, GenAt, Shape,
       Types, IsGenerator
  <1>8. ASSUME NEW x \in gen.todo, VisitNotDue(x) PROVE PaidParts'
    BY <1>8 DEF VisitNotDue, Visited, PaidParts, PaidByEach, PaidFor, Named, Working, GenAt,
       Shape, Types, IsGenerator
  <1>9. ASSUME NEW x \in gen.todo, VisitAbsent(x) PROVE PaidParts'
    BY <1>9 DEF VisitAbsent, Visited, OneMore, PaidParts, PaidByEach, PaidFor, Named, Working,
       GenAt, Shape, Types, IsGenerator
  <1>10. ASSUME NEW x \in gen.todo, ClosePhantom(x) PROVE PaidParts'
    BY <1>10 DEF ClosePhantom, Visited, DeleteSession, At, ConfirmGone, PaidParts, PaidByEach,
       PaidFor, Named, Working, GenAt, Shape, Types, IsGenerator
  <1>11. ASSUME NEW x \in gen.todo, VisitDue(x) PROVE PaidParts'
    <2>1. gen'.pc = "emit" /\ gen'.id = x.id /\ gen'.at = gen.at /\ gen'.start = x.next /\ gen'.todo \subseteq gen.todo
      BY <1>11 DEF VisitDue, Visited, Types, IsGenerator
    <2>2. Paid(billed, x.id, gen.at, x.next)
      <3>1. gen.at \in Int /\ x.next \in Int
        BY DEF Types, IsGenerator, IsSession
      <3> QED BY <1>11, <3>1, NoneDue DEF VisitDue, Due
    <2>3. PaidByEach'
      BY <1>11, <2>1, <2>2 DEF VisitDue, PaidParts, PaidByEach, Working
    <2>4. ASSUME NEW r \in Sandboxes \ raced, PaidFor(r) PROVE PaidFor(r)'
      BY <1>11, <2>1, <2>4 DEF VisitDue, PaidFor, Named, Working, OpeningHook
    <2> QED BY <1>11, <2>3, <2>4 DEF VisitDue, PaidParts, histVars, causes
  <1>12. ASSUME NEW h \in hooks, CheckSession(h) PROVE PaidParts'
    <2>1. CASE HasSession(h.sb)
      BY <1>12, <2>1, PaidFrame DEF CheckSession, Done
    <2>2. CASE ~HasSession(h.sb)
      <3>1. PICK k : /\ hooks' = (hooks \ {h}) \cup {k} /\ k.sb = h.sb /\ k.kind = h.kind
                     /\ k.pc = "emit" /\ k.next = 0 /\ k.from = now
        BY <1>12, <2>2, ToEmit
      <3>2. ChunkEnd' = ChunkEnd
        BY <1>12 DEF CheckSession, ChunkEnd, Chunk
      <3>3. PaidByEach'
        BY <1>12, <3>1, <3>2 DEF CheckSession, PaidParts, PaidByEach, Working
      <3>4. ASSUME NEW r \in Sandboxes \ raced, PaidFor(r) PROVE PaidFor(r)'
        <4>1. \A y \in gen.todo : y.id = r => Paid(billed, r, now, y.next)
          <5>1. \A y \in gen.todo : y.id = r => y.from \in Int /\ y.next \in Int /\ now \in Int /\ y.from <= now
            BY NamelessAssumption DEF Clocked, Types, IsGenerator, IsSession
          <5>2. \A y \in gen.todo : y.id = r => Paid(billed, r, y.from, y.next)
            BY <3>4 DEF PaidFor
          <5> QED BY <5>1, <5>2, PaidFrom
        <4>2. Working /\ gen.id = r => Paid(billed, r, now, gen.start)
          <5>1. gen.at \in Int /\ gen.start \in Int /\ now \in Int
            BY DEF Types, IsGenerator
          <5>2. Working /\ gen.id = r => Paid(billed, r, gen.at, gen.start) /\ gen.at <= now
            BY NamelessAssumption DEF PaidParts, PaidByEach, Clocked, Working
          <5> QED BY <5>1, <5>2, PaidFrom
        <4> QED BY <1>12, <3>1, <3>4, <4>1, <4>2
          DEF CheckSession, PaidFor, Named, Working, OpeningHook
      <3> QED BY <1>12, <3>3, <3>4 DEF CheckSession, PaidParts
    <2> QED BY <2>1, <2>2
  <1>13. ASSUME NEW h \in hooks, EmitFirst(h) PROVE PaidParts'
    <2>1. PICK k : /\ hooks' = (hooks \ {h}) \cup {k} /\ k.sb = h.sb /\ k.kind = h.kind
                     /\ k.pc = "open" /\ k.next = h.from + Interval /\ k.from = h.from
        BY <1>13, Emitted
    <2>2. ChunkEnd' = ChunkEnd
      BY <1>13 DEF EmitFirst, ChunkEnd, Chunk
    <2>3. /\ \A r \in Sandboxes : \A a, b : Paid(billed, r, a, b) => Paid(billed', r, a, b)
          /\ Paid(billed', h.sb, h.from, h.from + Interval)
      <3>1. h.sb \in Ids /\ h.sb # Nameless /\ h.from \in Int /\ h.from + Interval \in Int
        BY NamelessAssumption, IntervalAssumption DEF Types, IsHook, Ids
      <3> QED BY <1>13, <3>1, BillPays DEF EmitFirst
    <2>4. PaidByEach'
      BY <1>13, <2>1, <2>2, <2>3 DEF EmitFirst, PaidParts, PaidByEach, Working, Types, IsHook,
         IsGenerator, Ids
    <2>5. ASSUME NEW r \in Sandboxes \ raced, PaidFor(r) PROVE PaidFor(r)'
      BY <1>13, <2>1, <2>3, <2>5 DEF EmitFirst, PaidFor, Named, Working, OpeningHook
    <2> QED BY <1>13, <2>4, <2>5 DEF EmitFirst, PaidParts, causes
  <1>14. ASSUME NEW h \in hooks, EmitFirstFails(h) PROVE PaidParts'
    <2>1. CASE h.kind = "start"
      BY <1>14, <2>1, PaidFrame DEF EmitFirstFails, Done
    <2>2. CASE h.kind # "start"
      <3>1. PICK k : /\ hooks' = (hooks \ {h}) \cup {k} /\ k.sb = h.sb /\ k.kind = h.kind
                     /\ k.pc = "open" /\ k.next = h.from /\ k.from = h.from
        BY <1>14, <2>2, NotEmitted
      <3>2. ChunkEnd' = ChunkEnd
        BY <1>14 DEF EmitFirstFails, ChunkEnd, Chunk
      <3>3. Paid(billed, h.sb, h.from, h.from)
        <4>1. h.from \in Int
          BY DEF Types, IsHook
        <4> QED BY <4>1, NoneDue
      <3>4. PaidByEach'
        BY <1>14, <3>1, <3>2, <3>3 DEF EmitFirstFails, PaidParts, PaidByEach, Working
      <3>5. ASSUME NEW r \in Sandboxes \ raced, PaidFor(r) PROVE PaidFor(r)'
        BY <1>14, <3>1, <3>5 DEF EmitFirstFails, PaidFor, Named, Working, OpeningHook
      <3> QED BY <1>14, <3>4, <3>5 DEF EmitFirstFails, PaidParts
    <2> QED BY <2>1, <2>2
  <1>15. ASSUME NEW h \in hooks, OpenSession(h) PROVE PaidParts'
    <2>1. CASE UNCHANGED sessions
      BY <1>15, <2>1, PaidFrame DEF OpenSession, Done, histVars, causes
    <2>2. CASE CreateSession(h.sb, h.next, h.from)
      <3>1. \A x \in sessions' : \/ x \in sessions
                                 \/ x.key = h.sb /\ x.next = h.next /\ x.from = h.from
        BY <2>2 DEF CreateSession
      <3>2. ChunkEnd' = ChunkEnd
        BY <1>15 DEF OpenSession, ChunkEnd, Chunk
      <3>3. PaidByEach'
        BY <1>15, <3>2 DEF OpenSession, Done, PaidParts, PaidByEach, Working, histVars, causes
      <3>4. Paid(billed, h.sb, h.from, h.next)
        BY <1>15 DEF OpenSession, PaidParts, PaidByEach
      <3>5. ASSUME NEW r \in Sandboxes \ raced, PaidFor(r) PROVE PaidFor(r)'
        BY <1>15, <3>1, <3>4, <3>5 DEF OpenSession, Done, PaidFor, Named, Working, OpeningHook,
           histVars, causes
      <3> QED BY <1>15, <3>3, <3>5 DEF OpenSession, PaidParts, histVars, causes
    <2> QED BY <1>15, <2>1, <2>2 DEF OpenSession
  <1>16. ASSUME NEW h \in hooks, CloseSession(h) PROVE PaidParts'
    BY <1>16, PaidFrame DEF CloseSession, DeleteSession, Done, IsHook, OpeningHook
  <1>17. CASE Tick
    BY <1>17, PaidFrame DEF Tick
  <1>18. CASE Crash
    BY <1>18 DEF Crash, Down, NoSkips, LeftUnrecorded, PaidParts, PaidByEach, PaidFor, Named,
       Working, GenAt, Shape, Types, IsGenerator
  <1>19. ASSUME NEW s \in Sandboxes, Create(s) PROVE PaidParts'
    <2>1. CASE UNCHANGED <<hooks, histVars>>
      BY <1>19, <2>1, PaidFrame DEF Create, histVars, causes
    <2>2. CASE Spawn(s, "create", "emit")
      <3>1. ChunkEnd' = ChunkEnd
        BY <1>19 DEF Create, ChunkEnd, Chunk
      <3>2. PaidByEach'
        BY <1>19, <2>2, <3>1 DEF Create, Spawn, Hook, PaidParts, PaidByEach, Working
      <3>3. ASSUME NEW r \in Sandboxes \ raced, PaidFor(r) PROVE PaidFor(r)'
        <4>1. r = s => gen.id # r /\ \A y \in gen.todo : y.id # r
          BY <1>19 DEF Create, Untouched
        <4> QED BY <1>19, <2>2, <3>3, <4>1
          DEF Create, Spawn, Hook, PaidFor, Named, Working, OpeningHook
      <3> QED BY <1>19, <2>2, <3>2, <3>3 DEF Create, Spawn, PaidParts
    <2> QED BY <1>19, <2>1, <2>2 DEF Create
  <1>20. ASSUME NEW s \in Sandboxes, Start(s) PROVE PaidParts'
    BY <1>20, PaidFrame DEF Start, Spawn, Hook, IsHook, OpeningHook
  <1>21. ASSUME NEW s \in Sandboxes, Vanish(s) PROVE PaidParts'
    BY <1>21, PaidFrame DEF Vanish
  <1>22. ASSUME NEW s \in Sandboxes, Ensure(s) PROVE PaidParts'
    BY <1>22, PaidFrame DEF Ensure, Spawn, Hook, IsHook, OpeningHook
  <1>23. ASSUME NEW s \in Sandboxes, AdminClose(s) PROVE PaidParts'
    BY <1>23, PaidFrame DEF AdminClose, DeleteSession
  <1>24. ASSUME NEW s \in Sandboxes, NEW to \in {"stopped", "archived", "gone"}, TakeDown(s, to)
         PROVE PaidParts'
    BY <1>24, PaidFrame DEF TakeDown, Spawn, Hook, IsHook, OpeningHook
  <1> QED BY <1>1, <1>2, <1>3, <1>4, <1>5, <1>6, <1>7, <1>8, <1>9, <1>10, <1>11, <1>12, <1>13,
             <1>14, <1>15, <1>16, <1>17, <1>18, <1>19, <1>20, <1>21, <1>22, <1>23, <1>24
                 DEF Next, GeneratorStep, HookStep

-----------------------------------------------------------------------------
(* What is billed once. *)

\* A voucher that starts where nothing was billed bills no second twice.
LEMMA BillsOnce ==
    ASSUME Types, NEW s \in Sandboxes, NEW i \in Int, NEW j \in Int, i <= j, Bill(s, i, j),
           Unbilled(billed, s, i), \A t \in Seconds : billed[s][t] <= 1
    PROVE  Unbilled(billed', s, j) /\ \A t \in Seconds : billed'[s][t] <= 1
  <1>1. \A t \in Seconds : t \in Int
    BY BoundsAssumption, IntervalAssumption DEF Seconds
  <1>2. \A t \in Seconds : billed'[s][t] = IF i <= t /\ t < j /\ billed[s][t] < 2 THEN billed[s][t] + 1 ELSE billed[s][t]
    BY NamelessAssumption DEF Types, Bill
  <1>3. \A t \in Seconds : billed[s][t] \in Nat
    BY DEF Types
  <1>4. Unbilled(billed', s, j)
    BY <1>1, <1>2 DEF Unbilled
  <1> QED BY <1>1, <1>2, <1>3, <1>4 DEF Unbilled

\* A voucher of one sandbox is no other's.
LEMMA BillsNoOther ==
    ASSUME Types, NEW s \in Ids, NEW i, NEW j, Bill(s, i, j)
    PROVE  \A r \in Sandboxes : r # s => billed'[r] = billed[r]
  BY DEF Types, Bill

\* A step that neither bills nor opens a session.
LEMMA FirstFrame ==
    ASSUME FirstSession, UNCHANGED <<gen, billed>>, reopened \subseteq reopened', unrecorded \subseteq unrecorded',
           \A x \in sessions' : x \in sessions,
           \A h \in hooks' : OpeningHook(h) => h \in hooks
    PROVE  FirstSession'
  <1>1. ChunkEnd' = ChunkEnd
    BY DEF ChunkEnd, Chunk
  <1>2. ASSUME NEW s \in Sandboxes \ (reopened \cup unrecorded) PROVE Fresh(s)'
    <2>1. Fresh(s)
      BY DEF FirstSession
    <2> QED BY <1>1, <2>1 DEF Fresh, Alone, Named, Working
  <1> QED BY <1>2 DEF FirstSession

\* In its first session a sandbox is billed by one writer at a time.
LEMMA FirstSessionStep ==
    ASSUME Shape, Untouched, FirstSession, Next, Types'
    PROVE  FirstSession'
  <1> Types
    BY DEF Shape
  <1> USE DEF Failure, Request, boundVars, histVars, causes
  <1>1. CASE ScanAllSessions
    <2>1. gen.pc = "idle" /\ gen'.pc = "list" /\ gen'.todo = sessions
      BY <1>1 DEF ScanAllSessions, GenAt, Down
    <2>2. ASSUME NEW r \in Sandboxes, Fresh(r) PROVE Fresh(r)'
      <3>1. \A y \in sessions : y.id = r => y \in Named /\ y.key = r
        BY NamelessAssumption DEF Shape, OneHash, Named
      <3> QED BY <1>1, <2>1, <2>2, <3>1 DEF ScanAllSessions, Fresh, Alone, Named, Working,
                 OpeningHook
    <2> QED BY <1>1, <2>2 DEF ScanAllSessions, FirstSession
  <1>2. CASE ListSandboxes
    <2>1. ASSUME NEW r \in Sandboxes, Fresh(r) PROVE Fresh(r)'
      BY <1>2, <2>1, Listed DEF ListSandboxes, GenAt, Fresh, Alone, Named, Working, OpeningHook
    <2> QED BY <1>2, <2>1 DEF ListSandboxes, FirstSession
  <1>3. CASE EmitChunk
    <2>1. gen.pc = "emit" /\ gen'.pc = "update" /\ gen'.id = gen.id /\ gen'.todo = gen.todo
      BY <1>3 DEF EmitChunk, GenAt, Types, IsGenerator
    <2>2. ChunkEnd' = ChunkEnd
      BY <1>3 DEF EmitChunk, ChunkEnd, Chunk, Types, IsGenerator
    <2>3. gen.id \in Ids /\ gen.start \in Int /\ ChunkEnd \in Int /\ gen.start <= ChunkEnd
      BY <1>3, ChunkType, ChunkBounds DEF EmitChunk, Types, IsGenerator
    <2>4. ASSUME NEW r \in Sandboxes, r # gen.id, Fresh(r) PROVE Fresh(r)'
      <3>1. billed'[r] = billed[r]
        BY <1>3, <2>3, <2>4, BillsNoOther DEF EmitChunk
      <3> QED BY <1>3, <2>1, <2>2, <2>4, <3>1
        DEF EmitChunk, Unbilled, Fresh, Alone, Named, Working, OpeningHook
    <2>5. ASSUME gen.id \in Sandboxes, Fresh(gen.id) PROVE Fresh(gen.id)'
      <3>1. Unbilled(billed', gen.id, ChunkEnd) /\ \A t \in Seconds : billed'[gen.id][t] <= 1
        BY <1>3, <2>1, <2>3, <2>5, BillsOnce DEF EmitChunk, Fresh
      <3>2. \A y \in gen.todo : y.id # gen.id
        BY <2>1, <2>5, NamelessAssumption DEF Shape, Working
      <3> QED BY <1>3, <2>1, <2>2, <2>5, <3>1, <3>2
        DEF EmitChunk, Fresh, Alone, Named, Working, OpeningHook
    <2> QED BY <1>3, <2>1, <2>4, <2>5 DEF EmitChunk, FirstSession
  <1>4. CASE RecordChunk
    <2>1. /\ gen.pc = "update" /\ gen'.pc = "emit" /\ gen'.id = gen.id
          /\ gen'.start = ChunkEnd /\ gen'.todo = gen.todo
      BY <1>4 DEF RecordChunk, GenAt, AfterChunk, Types, IsGenerator
    <2>2. \A x \in sessions' : x \in sessions \/ x.key = gen.id
      BY <1>4 DEF RecordChunk, UpdateNextVoucherAt, HasSession, At, Types, IsSession
    <2>3. \A x \in sessions' : x.key = gen.id => x.next = ChunkEnd
      BY <1>4 DEF RecordChunk, UpdateNextVoucherAt, HasSession, At, Types, IsSession
    <2>4. ASSUME NEW r \in Sandboxes, Fresh(r) PROVE Fresh(r)'
      <3>1. CASE r # gen.id
        BY <1>4, <2>1, <2>2, <2>4, <3>1 DEF RecordChunk, Fresh, Alone, Named, Working, OpeningHook
      <3>2. CASE r = gen.id
        <4>1. \A y \in gen.todo : y.id # r
          BY <2>1, <3>2, NamelessAssumption DEF Shape, Working
        <4> QED BY <1>4, <2>1, <2>2, <2>3, <2>4, <3>2, <4>1
          DEF RecordChunk, Fresh, Alone, Named, Working, OpeningHook
      <3> QED BY <3>1, <3>2
    <2> QED BY <1>4, <2>4 DEF RecordChunk, FirstSession
  <1>5. CASE ChunkFails
    <2>1. gen'.pc = "visit" /\ gen'.todo = gen.todo
      BY <1>5 DEF ChunkFails, NextSession, Types, IsGenerator
    <2>2. ASSUME NEW r \in Sandboxes, Fresh(r), r \notin unrecorded' PROVE Fresh(r)'
      <3>1. ~(gen.pc = "update" /\ gen.id = r)
        BY <1>5, <2>2, NamelessAssumption DEF ChunkFails, LeftUnrecorded, GenAt
      <3> QED BY <1>5, <2>1, <2>2, <3>1 DEF ChunkFails, Fresh, Alone, Named, Working, OpeningHook
    <2> QED BY <1>5, <2>2 DEF ChunkFails, LeftUnrecorded, FirstSession
  <1>6. CASE CaughtUp
    <2>1. gen'.pc = "visit" /\ gen'.todo = gen.todo /\ gen.pc = "emit"
      BY <1>6 DEF CaughtUp, NextSession, GenAt, Types, IsGenerator
    <2>2. ASSUME NEW r \in Sandboxes, Fresh(r) PROVE Fresh(r)'
      BY <1>6, <2>1, <2>2 DEF CaughtUp, Fresh, Alone, Named, Working, OpeningHook
    <2> QED BY <1>6, <2>2 DEF CaughtUp, FirstSession
  <1>7. CASE EndOfTick
    <2>1. gen'.pc = "idle" /\ gen'.todo = {} /\ gen.pc = "visit"
      BY <1>7 DEF EndOfTick, Down, GenAt
    <2>2. ASSUME NEW r \in Sandboxes, Fresh(r) PROVE Fresh(r)'
      BY <1>7, <2>1, <2>2 DEF EndOfTick, Fresh, Alone, Named, Working, OpeningHook
    <2> QED BY <1>7, <2>2 DEF EndOfTick, FirstSession
  <1>8. ASSUME NEW x \in gen.todo, VisitNotDue(x) PROVE FirstSession'
    <2>1. gen'.pc = "visit" /\ gen'.id = gen.id /\ gen'.todo \subseteq gen.todo /\ gen.pc = "visit"
      BY <1>8 DEF VisitNotDue, GenAt, Visited, Types, IsGenerator
    <2>2. ASSUME NEW r \in Sandboxes, Fresh(r) PROVE Fresh(r)'
      BY <1>8, <2>1, <2>2 DEF VisitNotDue, Fresh, Alone, Named, Working, OpeningHook
    <2> QED BY <1>8, <2>2 DEF VisitNotDue, FirstSession
  <1>9. ASSUME NEW x \in gen.todo, VisitAbsent(x) PROVE FirstSession'
    <2>1. gen'.pc = "visit" /\ gen'.id = gen.id /\ gen'.todo \subseteq gen.todo /\ gen.pc = "visit"
      BY <1>9 DEF VisitAbsent, GenAt, Visited, Types, IsGenerator
    <2>2. ASSUME NEW r \in Sandboxes, Fresh(r) PROVE Fresh(r)'
      BY <1>9, <2>1, <2>2 DEF VisitAbsent, Fresh, Alone, Named, Working, OpeningHook
    <2> QED BY <1>9, <2>2 DEF VisitAbsent, FirstSession
  <1>10. ASSUME NEW x \in gen.todo, ClosePhantom(x) PROVE FirstSession'
    <2>1. gen'.pc = "visit" /\ gen'.id = gen.id /\ gen'.todo \subseteq gen.todo /\ gen.pc = "visit"
      BY <1>10 DEF ClosePhantom, GenAt, Visited, Types, IsGenerator
    <2>2. ASSUME NEW r \in Sandboxes, Fresh(r) PROVE Fresh(r)'
      BY <1>10, <2>1, <2>2 DEF ClosePhantom, DeleteSession, Fresh, Alone, Named, Working,
         OpeningHook
    <2> QED BY <1>10, <2>2 DEF ClosePhantom, FirstSession
  <1>11. ASSUME NEW x \in gen.todo, VisitDue(x) PROVE FirstSession'
    <2>1. gen'.pc = "emit" /\ gen'.id = x.id /\ gen'.start = x.next /\ gen'.todo \subseteq gen.todo /\ gen.pc = "visit"
      BY <1>11 DEF VisitDue, GenAt, Visited, Types, IsGenerator
    <2>2. ASSUME NEW r \in Sandboxes, Fresh(r) PROVE Fresh(r)'
      BY <1>11, <2>1, <2>2 DEF VisitDue, Fresh, Alone, Named, Working, OpeningHook
    <2> QED BY <1>11, <2>2 DEF VisitDue, FirstSession
  <1>12. ASSUME NEW h \in hooks, CheckSession(h) PROVE FirstSession'
    <2>1. CASE HasSession(h.sb)
      BY <1>12, <2>1, FirstFrame DEF CheckSession, Done
    <2>2. CASE ~HasSession(h.sb)
      <3>1. PICK k : /\ hooks' = (hooks \ {h}) \cup {k} /\ k.sb = h.sb /\ k.kind = h.kind
                     /\ k.pc = "emit" /\ k.next = 0 /\ k.from = now
        BY <1>12, <2>2, ToEmit
      <3>2. ChunkEnd' = ChunkEnd
        BY <1>12 DEF CheckSession, ChunkEnd, Chunk
      <3>3. ASSUME NEW r \in Sandboxes, r # h.sb, Fresh(r) PROVE Fresh(r)'
        BY <1>12, <3>1, <3>2, <3>3 DEF CheckSession, Fresh, Alone, Named, Working, OpeningHook
      <3> QED BY <1>12, <2>2, <3>3 DEF CheckSession, FirstSession
    <2> QED BY <2>1, <2>2
  <1>13. ASSUME NEW h \in hooks, EmitFirst(h) PROVE FirstSession'
    <2>1. PICK k : /\ hooks' = (hooks \ {h}) \cup {k} /\ k.sb = h.sb /\ k.kind = h.kind
                     /\ k.pc = "open" /\ k.next = h.from + Interval /\ k.from = h.from
        BY <1>13, Emitted
    <2>2. ChunkEnd' = ChunkEnd
      BY <1>13 DEF EmitFirst, ChunkEnd, Chunk
    <2>3. h.sb \in Sandboxes /\ h.from \in Int /\ h.from + Interval \in Int /\ h.from <= h.from + Interval
      BY IntervalAssumption DEF Types, IsHook
    <2>4. ASSUME NEW r \in Sandboxes, r # h.sb, Fresh(r) PROVE Fresh(r)'
      <3>1. billed'[r] = billed[r]
        BY <1>13, <2>3, <2>4, BillsNoOther DEF EmitFirst, Ids
      <3> QED BY <1>13, <2>1, <2>2, <2>4, <3>1
        DEF EmitFirst, Unbilled, Fresh, Alone, Named, Working, OpeningHook
    <2>5. ASSUME Fresh(h.sb) PROVE Fresh(h.sb)'
      <3>1. Alone(h.sb, h)
        BY <1>13, <2>5 DEF EmitFirst, Fresh, OpeningHook
      <3>2. Unbilled(billed, h.sb, h.from) /\ \A t \in Seconds : billed[h.sb][t] <= 1
        BY <1>13, <2>5, <3>1 DEF EmitFirst, Alone, Unbilled, Fresh
      <3>3. Unbilled(billed', h.sb, h.from + Interval) /\ \A t \in Seconds : billed'[h.sb][t] <= 1
        BY <1>13, <2>3, <3>2, BillsOnce DEF EmitFirst
      <3> QED BY <1>13, <2>1, <3>1, <3>3 DEF EmitFirst, Fresh, Alone, Named, Working, OpeningHook
    <2> QED BY <1>13, <2>4, <2>5 DEF EmitFirst, FirstSession
  <1>14. ASSUME NEW h \in hooks, EmitFirstFails(h) PROVE FirstSession'
    <2>1. CASE h.kind = "start"
      BY <1>14, <2>1, FirstFrame DEF EmitFirstFails, Done
    <2>2. CASE h.kind # "start"
      <3>1. PICK k : /\ hooks' = (hooks \ {h}) \cup {k} /\ k.sb = h.sb /\ k.kind = h.kind
                     /\ k.pc = "open" /\ k.next = h.from /\ k.from = h.from
        BY <1>14, <2>2, NotEmitted
      <3>2. ChunkEnd' = ChunkEnd
        BY <1>14 DEF EmitFirstFails, ChunkEnd, Chunk
      <3>3. ASSUME NEW r \in Sandboxes, Fresh(r) PROVE Fresh(r)'
        <4>1. CASE r # h.sb
          BY <1>14, <3>1, <3>2, <3>3, <4>1
            DEF EmitFirstFails, Fresh, Alone, Named, Working, OpeningHook
        <4>2. CASE r = h.sb
          <5>1. Alone(r, h)
            BY <1>14, <3>3, <4>2 DEF EmitFirstFails, Fresh, OpeningHook
          <5>2. Unbilled(billed, r, h.from)
            BY <1>14, <5>1 DEF EmitFirstFails, Alone, Unbilled
          <5> QED BY <1>14, <3>1, <3>2, <3>3, <4>2, <5>1, <5>2
            DEF EmitFirstFails, Fresh, Alone, Named, Working, OpeningHook
        <4> QED BY <4>1, <4>2
      <3> QED BY <1>14, <3>3 DEF EmitFirstFails, FirstSession
    <2> QED BY <2>1, <2>2
  <1>15. ASSUME NEW h \in hooks, OpenSession(h) PROVE FirstSession'
    <2>1. CASE UNCHANGED sessions
      BY <1>15, <2>1, FirstFrame DEF OpenSession, Done
    <2>2. CASE CreateSession(h.sb, h.next, h.from)
      <3>1. \A x \in sessions' : x \in sessions \/ (x.key = h.sb /\ x.next = h.next)
        BY <2>2 DEF CreateSession
      <3>2. ChunkEnd' = ChunkEnd
        BY <1>15 DEF OpenSession, ChunkEnd, Chunk
      <3>3. ASSUME NEW r \in Sandboxes, Fresh(r) PROVE Fresh(r)'
        <4>1. CASE r # h.sb
          BY <1>15, <3>1, <3>2, <3>3, <4>1
            DEF OpenSession, Done, Fresh, Alone, Named, Working, OpeningHook
        <4>2. CASE r = h.sb
          <5>1. Alone(r, h) /\ Unbilled(billed, r, h.next)
            BY <1>15, <3>3, <4>2 DEF OpenSession, Fresh, Alone, OpeningHook
          <5> QED BY <1>15, <3>1, <3>2, <3>3, <4>2, <5>1
            DEF OpenSession, Done, Fresh, Alone, Named, Working, OpeningHook
        <4> QED BY <4>1, <4>2
      <3> QED BY <1>15, <3>3 DEF OpenSession, FirstSession
    <2> QED BY <1>15, <2>1, <2>2 DEF OpenSession
  <1>16. ASSUME NEW h \in hooks, CloseSession(h) PROVE FirstSession'
    BY <1>16, FirstFrame DEF CloseSession, DeleteSession, Done, OpeningHook
  <1>17. CASE Tick
    BY <1>17, FirstFrame DEF Tick
  <1>18. CASE Crash
    <2>1. gen'.pc = "idle" /\ gen'.todo = {} /\ hooks' = {}
      BY <1>18 DEF Crash, Down
    <2>2. ASSUME NEW r \in Sandboxes, Fresh(r), r \notin unrecorded' PROVE Fresh(r)'
      <3>1. ~(gen.pc = "update" /\ gen.id = r)
        BY <1>18, <2>2, NamelessAssumption DEF Crash, LeftUnrecorded, GenAt
      <3> QED BY <1>18, <2>1, <2>2, <3>1 DEF Crash, Fresh, Alone, Named, Working, OpeningHook
    <2> QED BY <1>18, <2>2 DEF Crash, LeftUnrecorded, FirstSession
  <1>19. ASSUME NEW s \in Sandboxes, Create(s) PROVE FirstSession'
    <2>1. CASE UNCHANGED <<hooks, histVars>>
      BY <1>19, <2>1, FirstFrame DEF Create
    <2>2. CASE Spawn(s, "create", "emit")
      <3>1. ChunkEnd' = ChunkEnd
        BY <1>19 DEF Create, ChunkEnd, Chunk
      <3>2. ASSUME NEW r \in Sandboxes, Fresh(r) PROVE Fresh(r)'
        <4>1. CASE r # s
          BY <1>19, <2>2, <3>1, <3>2, <4>1
            DEF Create, Spawn, Hook, Fresh, Alone, Named, Working, OpeningHook
        <4>2. CASE r = s
          <5>1. /\ \A x \in sessions : x.key # r
                /\ \A g \in hooks : g.sb # r
                /\ \A y \in gen.todo : y.id # r
                /\ gen.id # r /\ \A t \in Seconds : billed[r][t] = 0
            BY <1>19, <4>2 DEF Create, Untouched
          <5> QED BY <1>19, <2>2, <3>2, <4>2, <5>1
            DEF Create, Spawn, Hook, Fresh, Alone, Named, Working, OpeningHook
        <4> QED BY <4>1, <4>2
      <3> QED BY <1>19, <2>2, <3>2 DEF Create, Spawn, FirstSession
    <2> QED BY <1>19, <2>1, <2>2 DEF Create
  <1>20. ASSUME NEW s \in Sandboxes, Start(s) PROVE FirstSession'
    BY <1>20, FirstFrame DEF Start, Spawn, Hook, OpeningHook
  <1>21. ASSUME NEW s \in Sandboxes, Vanish(s) PROVE FirstSession'
    BY <1>21, FirstFrame DEF Vanish
  <1>22. ASSUME NEW s \in Sandboxes, Ensure(s) PROVE FirstSession'
    BY <1>22, FirstFrame DEF Ensure, Spawn, Hook, OpeningHook
  <1>23. ASSUME NEW s \in Sandboxes, AdminClose(s) PROVE FirstSession'
    BY <1>23, FirstFrame DEF AdminClose, DeleteSession
  <1>24. ASSUME NEW s \in Sandboxes, NEW to \in {"stopped", "archived", "gone"}, TakeDown(s, to)
         PROVE FirstSession'
    BY <1>24, FirstFrame DEF TakeDown, Spawn, Hook, OpeningHook
  <1> QED BY <1>1, <1>2, <1>3, <1>4, <1>5, <1>6, <1>7, <1>8, <1>9, <1>10, <1>11, <1>12, <1>13,
             <1>14, <1>15, <1>16, <1>17, <1>18, <1>19, <1>20, <1>21, <1>22, <1>23, <1>24
                 DEF Next, GeneratorStep, HookStep

-----------------------------------------------------------------------------
(* The theorems. *)

\* The invariant holds when the process comes up.
LEMMA InitInv == ASSUME Init PROVE SessionInv
  <1> USE IntervalAssumption, TuningAssumption, NamelessAssumption, BoundsAssumption
      DEF Init, Down, NoSkips, Ids
  <1>1. Types
    BY DEF Types, IsSession, IsGenerator
  <1>2. Shape
    BY <1>1 DEF Shape, OneHash, Working
  <1>3. Clocked
    BY DEF Clocked, Working
  <1>4. Untouched
    BY DEF Untouched
  <1>5. OneOpener
    BY DEF OneOpener
  <1>6. PaidParts
    <2>1. Paid(billed, gen.id, -Downtime, -Downtime)
      BY NoneDue
    <2>2. \A s \in Sandboxes : Paid(billed, s, -Downtime, -Downtime)
      BY NoneDue
    <2> QED BY <2>1, <2>2 DEF PaidParts, PaidByEach, PaidFor, Named, Working
  <1>7. FirstSession
    <2>1. \A s \in Sandboxes : \A t \in Seconds : billed[s][t] = 0
      OBVIOUS
    <2> QED BY <2>1 DEF FirstSession, Fresh, Named, Unbilled
  <1> QED BY <1>2, <1>3, <1>4, <1>5, <1>6, <1>7 DEF SessionInv

\* Every step keeps the invariant.
LEMMA InvStep == ASSUME SessionInv, [Next]_vars PROVE SessionInv'
  <1> USE DEF SessionInv
  <1>1. CASE Next
    <2>1. Types'
      BY <1>1, TypesStep DEF Shape
    <2> QED BY <1>1, <2>1, ShapeStep, ClockedStep, UntouchedStep, OneOpenerStep, PaidPartsStep,
               FirstSessionStep
  <1>2. CASE UNCHANGED vars
    <2>1. UNCHANGED <<sandbox, sessions, hooks, gen, skips, now, billed, reopened, raced, unrecorded>>
      BY <1>2 DEF vars, histVars, causes
    <2>2. Types' /\ Shape' /\ Clocked' /\ Untouched' /\ OneOpener'
      BY <2>1 DEF Shape, Types, Clocked, Untouched, OneOpener, Working, MoreToEmit, Named
    <2> QED BY <2>1, <2>2, PaidFrame, FirstFrame
  <1> QED BY <1>1, <1>2

\* The inductive invariant.
THEOREM SessionsAreSound == Spec => []SessionInv
  BY InitInv, InvStep, PTL DEF Spec

\* Redis holds at most one hash per key, and the generator never has more than
\* one tick's work (runGeneration).
THEOREM SessionTypes == Spec => []TypeOK
  <1>1. SessionInv => TypeOK
    BY DEF SessionInv, Shape, Types, IsSession, IsHook, IsGenerator, OneHash, TypeOK
  <1> QED BY <1>1, SessionsAreSound, PTL

\* A session is never charged more than one interval ahead, whatever the chunk
\* size, the cap per tick and the downtime (emitPeriodVoucher, runGeneration).
THEOREM SessionsNeverAhead == Spec => []NeverAhead
  <1>1. SessionInv => NeverAhead
    BY DEF SessionInv, Clocked, NeverAhead
  <1> QED BY <1>1, SessionsAreSound, PTL

\* Up to the time a session says its next period starts, every second since it was
\* opened has been billed, unless two hooks opened it at once (OnCreate, OnStart,
\* runGeneration).
THEOREM SessionsNextIsPaid == Spec => []NextIsPaid
  <1>1. SessionInv => NextIsPaid
    <2>1. SUFFICES ASSUME SessionInv, NEW x \in Named, x.key \notin raced
                   PROVE Paid(billed, x.key, x.from, x.next)
      BY <2>1 DEF NextIsPaid, Paid
    <2>2. x.key \in Sandboxes
      BY <2>1 DEF SessionInv, Shape, Types, IsSession, OneHash, Named, Ids
    <2> QED BY <2>1, <2>2 DEF SessionInv, PaidParts, PaidFor
  <1> QED BY <1>1, SessionsAreSound, PTL

\* No second of a sandbox's first session is billed twice, unless a voucher was
\* queued and could not be recorded (OnCreate, runGeneration).
THEOREM SessionsBilledOnce == Spec => []BilledOnce
  <1>1. SessionInv => BilledOnce
    BY DEF SessionInv, FirstSession, Fresh, BilledOnce
  <1> QED BY <1>1, SessionsAreSound, PTL

=============================================================================
