---------------------------- MODULE SettlerProofs ----------------------------
(* Theorems about the settler, for every value of its constants.                *)
(*                                                                              *)
(* Three inductive invariants carry them.  SettlerTypes: what Redis, the        *)
(* contract, the pending-tx record and the batch in the loop hold, and what the *)
(* last two agree on.  Nonces: what the nonces of the vouchers that are out     *)
(* have to do with the counters and with the contract.  SettlerInv: for every   *)
(* unit, how often it is charged, written off, parked and waiting adds up to    *)
(* at most once, and to once where no verdict turns around.  The counts are     *)
(* sums over lists of vouchers, and every operator that rewrites a list (the    *)
(* collapse, the split, the sweep, the settlement) has a lemma on what it does  *)
(* to them.                                                                     *)
EXTENDS Settler, SumsAndFolds, SequencesExt, SequenceTheorems, TLAPS

-----------------------------------------------------------------------------
(* Vouchers. *)

Sandboxes == {SandboxOf[x] : x \in Usages} \cup {NoSandbox}

\* Vouchers bill at least one unit, and only units of their user.
BillsOwn(v) == v.uses # <<>> /\ \A k \in DOMAIN v.uses : UserOf[v.uses[k]] = v.user
Vouchers == {v \in [user : Users, sandbox : Sandboxes, uses : Seq(Usages), agg : BOOLEAN] : BillsOwn(v)}

-----------------------------------------------------------------------------
(* How often units are billed. *)

\* How often a voucher bills a unit is a number.
LEMMA TimesIsNat ==
    ASSUME NEW v, v.uses \in Seq(Usages), NEW x PROVE Times(x, v) \in Nat
  BY SpotsFinite DEF Times, Spots

\* In a list of vouchers.
Bill(B) == \A v \in B : v.uses \in Seq(Usages)
TimesIn(vs, x) == [i \in DOMAIN vs |-> Times(x, vs[i])]
Count(vs, x) == SumFunctionOnSet(TimesIn(vs, x), DOMAIN vs)

\* How often a list bills a unit is a number, the sum over its entries.
LEMMA CountIsNat ==
    ASSUME NEW B, Bill(B), NEW vs \in Seq(B), NEW x
    PROVE  /\ IsFiniteSet(DOMAIN vs) /\ DOMAIN vs = 1..Len(vs) /\ Len(vs) \in Nat
           /\ \A i \in DOMAIN vs : TimesIn(vs, x)[i] \in Nat /\ TimesIn(vs, x)[i] = Times(x, vs[i])
           /\ Count(vs, x) \in Nat
  <1>1. IsFiniteSet(DOMAIN vs) /\ DOMAIN vs = 1..Len(vs) /\ Len(vs) \in Nat
    BY FS_Interval
  <1>2. \A i \in DOMAIN vs : TimesIn(vs, x)[i] \in Nat /\ TimesIn(vs, x)[i] = Times(x, vs[i])
    BY TimesIsNat DEF TimesIn, Bill
  <1>3. Count(vs, x) \in Nat
    BY <1>1, <1>2, SumIsNat DEF Count
  <1> QED BY <1>1, <1>2, <1>3

\* An empty list bills nothing.
LEMMA CountOfNone ==
    ASSUME NEW x PROVE Count(<<>>, x) = 0
  <1>1. IsFiniteSet(DOMAIN <<>>) /\ \A i \in DOMAIN <<>> : TimesIn(<<>>, x)[i] = 0
    BY FS_EmptySet
  <1> QED BY <1>1, SumOfZeros DEF Count

\* Lists that bill a unit alike, entry by entry, bill it equally often.
LEMMA CountOfSame ==
    ASSUME NEW B, Bill(B), NEW vs \in Seq(B), NEW ws, DOMAIN ws = DOMAIN vs,
           NEW x, \A i \in DOMAIN vs : Times(x, ws[i]) = Times(x, vs[i])
    PROVE  Count(ws, x) = Count(vs, x)
  <1>1. IsFiniteSet(DOMAIN vs) /\ \A i \in DOMAIN vs : TimesIn(vs, x)[i] \in Nat
    BY CountIsNat
  <1>2. \A i \in DOMAIN vs : TimesIn(ws, x)[i] = TimesIn(vs, x)[i]
    BY DEF TimesIn
  <1>3. SumFunctionOnSet(TimesIn(ws, x), DOMAIN vs) = SumFunctionOnSet(TimesIn(vs, x), DOMAIN vs)
    BY <1>1, <1>2, SumIsSame
  <1> QED BY <1>3 DEF Count

\* A voucher at the end adds what it bills.
LEMMA CountOfAppend ==
    ASSUME NEW B, Bill(B), NEW vs \in Seq(B), NEW v \in B, NEW x
    PROVE  Count(Append(vs, v), x) = Count(vs, x) + Times(x, v)
  <1> DEFINE n == Len(vs)   ws == Append(vs, v)   f == TimesIn(ws, x)   S == 1..(n + 1)
  <1>1. ws \in Seq(B) /\ DOMAIN ws = S /\ n \in Nat /\ DOMAIN vs = 1..n
        /\ (\A i \in 1..n : ws[i] = vs[i]) /\ ws[n + 1] = v
    OBVIOUS
  <1>2. IsFiniteSet(S) /\ \A i \in S : f[i] \in Nat /\ f[i] = Times(x, ws[i])
    <2> HIDE DEF ws
    <2> QED BY <1>1, CountIsNat
  <1>3. S \ {n + 1} = 1..n /\ n + 1 \in S
    BY <1>1
  <1> HIDE DEF f, S, n, ws
  <1>4. SumFunctionOnSet(f, S) = SumFunctionOnSet(f, 1..n) + f[n + 1]
    <2>1. SumFunctionOnSet(f, S) = SumFunctionOnSet(f, S \ {n + 1}) + f[n + 1]
      BY <1>2, <1>3, SumSplits
    <2> QED BY <1>3, <2>1, Zenon
  <1>5. SumFunctionOnSet(f, 1..n) = SumFunctionOnSet(TimesIn(vs, x), 1..n)
    <2>1. IsFiniteSet(1..n) /\ \A i \in 1..n : TimesIn(vs, x)[i] \in Nat /\ TimesIn(vs, x)[i] = Times(x, vs[i])
      BY <1>1, CountIsNat, Zenon
    <2>2. \A i \in 1..n : f[i] = TimesIn(vs, x)[i]
      BY <1>1, <1>2, <1>3, <2>1
    <2> QED BY <2>1, <2>2, SumIsSame
  <1>6. f[n + 1] = Times(x, v)
    BY <1>1, <1>2, <1>3
  <1>7. Count(ws, x) = SumFunctionOnSet(f, S) /\ Count(vs, x) = SumFunctionOnSet(TimesIn(vs, x), 1..n)
    BY <1>1 DEF Count, f
  <1> QED BY <1>4, <1>5, <1>6, <1>7 DEF ws

\* A list of one voucher bills what that voucher bills.
LEMMA CountOfOne ==
    ASSUME NEW v, v.uses \in Seq(Usages), NEW x PROVE Count(<<v>>, x) = Times(x, v)
  <1>1. Bill({v}) /\ <<>> \in Seq({v}) /\ v \in {v} /\ Append(<<>>, v) = <<v>>
    BY DEF Bill
  <1>2. Count(Append(<<>>, v), x) = Count(<<>>, x) + Times(x, v)
    BY <1>1, CountOfAppend
  <1> QED BY <1>1, <1>2, CountOfNone, TimesIsNat

\* One voucher is replaced.
LEMMA CountOfChange ==
    ASSUME NEW B, Bill(B), NEW vs \in Seq(B), NEW j \in DOMAIN vs, NEW w \in B, NEW x
    PROVE  Count([vs EXCEPT ![j] = w], x) + Times(x, vs[j]) = Count(vs, x) + Times(x, w)
  <1> DEFINE ws == [vs EXCEPT ![j] = w]
  <1>1. ws \in Seq(B) /\ DOMAIN ws = DOMAIN vs /\ ws[j] = w /\ \A i \in DOMAIN vs \ {j} : ws[i] = vs[i]
    OBVIOUS
  <1> HIDE DEF ws
  <1>2. /\ IsFiniteSet(DOMAIN vs)
        /\ \A i \in DOMAIN vs : TimesIn(vs, x)[i] \in Nat /\ TimesIn(vs, x)[i] = Times(x, vs[i])
        /\ \A i \in DOMAIN vs : TimesIn(ws, x)[i] \in Nat /\ TimesIn(ws, x)[i] = Times(x, ws[i])
    BY <1>1, CountIsNat
  <1>3. \A i \in DOMAIN vs \ {j} : TimesIn(ws, x)[i] = TimesIn(vs, x)[i]
    BY <1>1, <1>2
  <1>4. SumFunctionOnSet(TimesIn(ws, x), DOMAIN vs) + TimesIn(vs, x)[j]
          = SumFunctionOnSet(TimesIn(vs, x), DOMAIN vs) + TimesIn(ws, x)[j]
    BY <1>2, <1>3, SumChanges
  <1> QED BY <1>1, <1>2, <1>4 DEF Count, ws

\* Two lists one behind the other bill what each of them bills.
LEMMA CountOfConcat ==
    ASSUME NEW B, Bill(B), NEW vs \in Seq(B), NEW ws \in Seq(B), NEW x
    PROVE  Count(vs \o ws, x) = Count(vs, x) + Count(ws, x)
  <1> DEFINE n == Len(ws)   P(k) == SubSeq(ws, 1, k)
             T == {k \in 0..n : Count(vs \o P(k), x) = Count(vs, x) + Count(P(k), x)}
  <1>1. 0 \in T
    <2>1. P(0) = <<>> /\ vs \o <<>> = vs /\ 0 \in 0..n
      OBVIOUS
    <2>2. Count(vs \o P(0), x) = Count(vs, x) /\ Count(P(0), x) = 0
      BY <2>1, CountOfNone, Zenon
    <2>3. Count(vs, x) \in Nat
      BY CountIsNat
    <2> QED BY <2>1, <2>2, <2>3
  <1>2. ASSUME NEW k \in 0..(n - 1), k \in T PROVE k + 1 \in T
    <2>1. P(k) \in Seq(B) /\ P(k + 1) = Append(P(k), ws[k + 1]) /\ ws[k + 1] \in B
      OBVIOUS
    <2> DEFINE p == P(k)   v == ws[k + 1]
    <2> HIDE DEF p, v, n
    <2>2. p \in Seq(B) /\ v \in B /\ vs \o p \in Seq(B) /\ vs \o Append(p, v) = Append(vs \o p, v)
      BY <2>1, SMTT(30) DEF p, v
    <2>3. Count(vs \o Append(p, v), x) = Count(vs \o p, x) + Times(x, v)
      BY <2>2, CountOfAppend
    <2>4. Count(Append(p, v), x) = Count(p, x) + Times(x, v)
      BY <2>2, CountOfAppend
    <2>5. Count(vs \o p, x) = Count(vs, x) + Count(p, x)
      BY <1>2 DEF p
    <2>6. Count(vs, x) \in Nat /\ Count(p, x) \in Nat /\ Times(x, v) \in Nat
      BY <2>2, CountIsNat, TimesIsNat DEF Bill
    <2>7. Count(vs \o Append(p, v), x) = Count(vs, x) + Count(Append(p, v), x)
      BY <2>3, <2>4, <2>5, <2>6
    <2>8. k + 1 \in 0..n
      BY DEF n
    <2> QED BY <2>1, <2>7, <2>8 DEF p, v
  <1>3. n \in Nat /\ P(n) = ws
    OBVIOUS
  <1> HIDE DEF T, n
  <1>4. n \in T
    BY <1>1, <1>2, <1>3, CountingUp
  <1> QED BY <1>3, <1>4 DEF T

\* A list is its first k vouchers and the others.
LEMMA CountOfParts ==
    ASSUME NEW B, Bill(B), NEW vs \in Seq(B), NEW k \in 0..Len(vs), NEW x
    PROVE  /\ SubSeq(vs, 1, k) \in Seq(B) /\ SubSeq(vs, k + 1, Len(vs)) \in Seq(B)
           /\ Count(vs, x) = Count(SubSeq(vs, 1, k), x) + Count(SubSeq(vs, k + 1, Len(vs)), x)
  <1>1. SubSeq(vs, 1, k) \in Seq(B) /\ SubSeq(vs, k + 1, Len(vs)) \in Seq(B)
    OBVIOUS
  <1>2. SubSeq(vs, 1, k) \o SubSeq(vs, k + 1, Len(vs)) = vs
    <2>1. 1 \in 1..(Len(vs) + 1) /\ k \in (1 - 1)..Len(vs) /\ Len(vs) \in k..Len(vs)
      OBVIOUS
    <2> QED BY <2>1, ConcatAdjacentSubSeq, SubSeqFull
  <1> DEFINE a == SubSeq(vs, 1, k)   b == SubSeq(vs, k + 1, Len(vs))
  <1> HIDE DEF a, b
  <1>3. Count(a \o b, x) = Count(a, x) + Count(b, x)
    BY <1>1, CountOfConcat DEF a, b
  <1>4. Count(vs, x) = Count(a, x) + Count(b, x)
    BY <1>2, <1>3, Zenon DEF a, b
  <1> QED BY <1>1, <1>4 DEF a, b

\* Vouchers bill sequences of units.
LEMMA VouchersBill == Bill(Vouchers) /\ \A B \in SUBSET Vouchers : Bill(B)
  BY DEF Bill, Vouchers

-----------------------------------------------------------------------------
(* The collapse by sandbox. *)

\* The units of two vouchers of one user.
LEMMA UnitsOfBoth ==
    ASSUME NEW a \in Seq(Usages), a # <<>>, NEW b \in Seq(Usages), NEW u,
           \A k \in DOMAIN a : UserOf[a[k]] = u, \A k \in DOMAIN b : UserOf[b[k]] = u
    PROVE  /\ a \o b \in Seq(Usages) /\ a \o b # <<>>
           /\ \A k \in DOMAIN (a \o b) : UserOf[(a \o b)[k]] = u
  OBVIOUS

\* Merging a voucher into a collapsed list adds its units and no others.
LEMMA MergeOne ==
    ASSUME NEW out \in Seq(Vouchers), NEW v \in Vouchers
    PROVE  /\ MergeInto(out, v) \in Seq(Vouchers)
           /\ \A x : Count(MergeInto(out, v), x) = Count(out, x) + Times(x, v)
  <1> DEFINE hits == {i \in DOMAIN out : SameSandbox(out[i], v)}
  <1>1. CASE hits = {}
    <2>1. MergeInto(out, v) = Append(out, v)
      BY <1>1 DEF MergeInto
    <2> QED BY <2>1, VouchersBill, CountOfAppend
  <1>2. CASE hits # {}
    <2> DEFINE i == CHOOSE j \in hits : TRUE
               o == out[i]
               c == o.uses \o v.uses
               w == [o EXCEPT !.uses = c, !.agg = TRUE]
               res == [out EXCEPT ![i] = w]
    <2>1. i \in DOMAIN out /\ SameSandbox(o, v)
      BY <1>2
    <2>2. MergeInto(out, v) = Absorb(out, i, v)
      BY <1>2 DEF MergeInto
    <2> HIDE DEF i, hits
    <2>3. Absorb(out, i, v) = res
      BY <2>1 DEF Absorb
    <2>4. o \in Vouchers
      BY <2>1
    <2> HIDE DEF o
    <2>5. o.user = v.user
      BY <2>1 DEF SameSandbox
    <2> DEFINE a == o.uses   b == v.uses
    <2>10. a \in Seq(Usages) /\ b \in Seq(Usages) /\ a # <<>> /\ o.uses = a /\ v.uses = b /\ c = a \o b
           /\ (\A k \in DOMAIN a : UserOf[a[k]] = o.user) /\ (\A k \in DOMAIN b : UserOf[b[k]] = o.user)
      BY <2>4, <2>5 DEF Vouchers, BillsOwn
    <2> HIDE DEF a, b, c
    <2>11. c \in Seq(Usages) /\ c # <<>> /\ \A k \in DOMAIN c : UserOf[c[k]] = o.user
      BY <2>10, UnitsOfBoth
    <2>12. w \in Vouchers /\ w.uses = c
      BY <2>4, <2>11 DEF Vouchers, BillsOwn
    <2> HIDE DEF w
    <2>6. w \in Vouchers /\ \A x : Times(x, w) = Times(x, o) + Times(x, v)
      <3>1. a \in Seq(Usages) /\ b \in Seq(Usages) /\ c = a \o b /\ o.uses = a /\ v.uses = b /\ w.uses = c
        BY <2>10, <2>12, Zenon
      <3>2. ASSUME NEW x PROVE Times(x, w) = Times(x, o) + Times(x, v)
        <4>1. /\ Times(x, w) = Cardinality(Spots(a \o b, x))
              /\ Times(x, o) = Cardinality(Spots(a, x)) /\ Times(x, v) = Cardinality(Spots(b, x))
          BY <3>1 DEF Times, Spots
        <4> QED BY <3>1, <4>1, SpotsOfConcat
      <3> QED BY <2>12, <3>2
    <2>7. res \in Seq(Vouchers)
      BY <2>1, <2>6
    <2>8. \A x : Count(res, x) + Times(x, o) = Count(out, x) + Times(x, w)
      BY <2>1, <2>6, VouchersBill, CountOfChange DEF o
    <2> HIDE DEF res
    <2>9. ASSUME NEW x PROVE Count(res, x) = Count(out, x) + Times(x, v)
      <3>1. Count(out, x) \in Nat /\ Count(res, x) \in Nat
        BY <2>7, VouchersBill, CountIsNat
      <3>2. Times(x, o) \in Nat /\ Times(x, v) \in Nat
        BY <2>4, TimesIsNat DEF Vouchers
      <3> QED BY <2>6, <2>8, <3>1, <3>2
    <2> QED BY <2>2, <2>3, <2>7, <2>9
  <1> QED BY <1>1, <1>2

\* The collapse is a loop that merges voucher after voucher.
LEMMA CollapseLoop ==
    ASSUME NEW vs \in Seq(Vouchers)
    PROVE  \E h \in [0..Len(vs) -> Seq(Vouchers)] :
              /\ h[0] = <<>>
              /\ \A k \in 1..Len(vs) : h[k] = MergeInto(h[k - 1], vs[k])
              /\ CollapseBySandbox(vs) = h[Len(vs)]
  <1> DEFINE n == Len(vs)   V == Seq(Vouchers)   b == <<>>
             O == [p \in V \X (1..n) |-> MergeInto(p[1], vs[p[2]])]
             Def(g) == g = [s \in SUBSET DOMAIN vs |->
                               IF s = {} THEN <<>> ELSE MergeInto(g[s \ {Max(s)}], vs[Max(s)])]
             f == CHOOSE g : Def(g)
  <1>1. n \in Nat /\ DOMAIN vs = 1..n /\ b \in V
    OBVIOUS
  <1>2. \A v \in V, k \in 1..n : O[<<v, k>>] = MergeInto(v, vs[k]) /\ O[<<v, k>>] \in V
    <2>1. ASSUME NEW v \in V, NEW k \in 1..n PROVE MergeInto(v, vs[k]) \in V
      <3>1. v \in Seq(Vouchers) /\ vs[k] \in Vouchers
        OBVIOUS
      <3> QED BY <3>1, MergeOne
    <2> QED BY <2>1
  <1>3. CollapseBySandbox(vs) = f[DOMAIN vs]
    BY DEF CollapseBySandbox, FoldLeft, MapThenFoldSet
  <1> HIDE DEF n, V, O, b
  <1>4. Turns(O, V, n)
    BY <1>2 DEF Turns
  <1>5. PICK h \in [0..n -> V] : Loop(h, n, b, O)
    BY <1>1, <1>4, LoopExists
  <1>13. PICK it : IsFold(it, n, V, b, O)
    BY <1>1, <1>4, FoldExists
  <1>6. Def(it)
    <2>1. ASSUME NEW s \in SUBSET (1..n), s # {}
          PROVE  it[s] = MergeInto(it[s \ {Max(s)}], vs[Max(s)])
      <3>1. Max(s) \in 1..n /\ it[s \ {Max(s)}] \in V
        BY <1>1, <1>13, <2>1, MaxOfNumbers DEF IsFold
      <3> QED BY <1>2, <1>13, <2>1, <3>1 DEF IsFold
    <2>2. it[{}] = b /\ it = [s \in SUBSET (1..n) |-> it[s]]
      BY <1>13 DEF IsFold
    <2> QED BY <1>1, <2>1, <2>2 DEF b
  <1>7. Def(f)
    BY <1>6
  <1> HIDE DEF f
  <1>8. FoldedBy(f, n, V, b, O)
    <2>1. f[{}] = b
      BY <1>7 DEF b
    <2>2. ASSUME NEW s \in SUBSET (1..n), s # {}, f[s \ {Max(s)}] \in V
          PROVE  f[s] = O[<<f[s \ {Max(s)}], Max(s)>>]
      <3>1. Max(s) \in 1..n
        BY <1>1, <2>2, MaxOfNumbers
      <3>2. f[s] = MergeInto(f[s \ {Max(s)}], vs[Max(s)])
        BY <1>1, <1>7, <2>2
      <3> QED BY <1>2, <2>2, <3>1, <3>2
    <2> QED BY <2>1, <2>2 DEF FoldedBy
  <1>9. f[1..n] = h[n]
    BY <1>1, <1>5, <1>8, FoldIsLoop
  <1>10. \A k \in 1..n : h[k - 1] \in V /\ h[k] = MergeInto(h[k - 1], vs[k])
    <2>1. \A k \in 1..n : h[k - 1] \in V
      BY <1>1
    <2> QED BY <1>2, <1>5, <2>1 DEF Loop
  <1>11. h[0] = b
    BY <1>5 DEF Loop
  <1>12. CollapseBySandbox(vs) = h[n]
    BY <1>1, <1>3, <1>9, Zenon
  <1> QED BY <1>10, <1>11, <1>12 DEF n, V, b

\* collapseBySandbox bills every unit as often as before.
LEMMA CollapseKeeps ==
    ASSUME NEW vs \in Seq(Vouchers)
    PROVE  /\ CollapseBySandbox(vs) \in Seq(Vouchers)
           /\ \A x : Count(CollapseBySandbox(vs), x) = Count(vs, x)
  <1> DEFINE n == Len(vs)   P(k) == SubSeq(vs, 1, k)
  <1>1. PICK h \in [0..n -> Seq(Vouchers)] :
              /\ h[0] = <<>> /\ \A k \in 1..n : h[k] = MergeInto(h[k - 1], vs[k])
              /\ CollapseBySandbox(vs) = h[n]
    BY CollapseLoop
  <1>2. n \in Nat
    OBVIOUS
  <1>3. ASSUME NEW x PROVE Count(h[n], x) = Count(vs, x)
    <2> DEFINE T == {k \in 0..n : Count(h[k], x) = Count(P(k), x)}
    <2>1. 0 \in T
      <3>1. P(0) = <<>> /\ 0 \in 0..n
        BY <1>2, FirstAndNext
      <3> QED BY <1>1, <3>1, Zenon
    <2>2. ASSUME NEW k \in 0..(n - 1), k \in T PROVE k + 1 \in T
      <3>1. k + 1 \in 1..n /\ (k + 1) - 1 = k /\ k + 1 \in 0..n /\ h[k] \in Seq(Vouchers)
        BY <1>2
      <3>2. P(k) \in Seq(Vouchers) /\ vs[k + 1] \in Vouchers /\ P(k + 1) = Append(P(k), vs[k + 1])
        BY FirstAndNext
      <3>3. h[k + 1] = MergeInto(h[k], vs[k + 1])
        BY <1>1, <3>1
      <3>4. Count(h[k + 1], x) = Count(h[k], x) + Times(x, vs[k + 1])
        <4>1. Count(MergeInto(h[k], vs[k + 1]), x) = Count(h[k], x) + Times(x, vs[k + 1])
          BY <3>1, <3>2, MergeOne
        <4> QED BY <3>3, <4>1, Zenon
      <3>5. Count(P(k + 1), x) = Count(P(k), x) + Times(x, vs[k + 1])
        BY <3>2, VouchersBill, CountOfAppend
      <3> QED BY <2>2, <3>1, <3>4, <3>5
    <2> HIDE DEF T
    <2>3. n \in T
      BY <1>2, <2>1, <2>2, CountingUp
    <2> QED BY <2>3, FirstAndNext DEF T
  <1> QED BY <1>1, <1>2, <1>3

-----------------------------------------------------------------------------
(* The entries of some users. *)

OfUsers(S) == {v \in Vouchers : v.user \in S}

\* Splitting a queue by user is a loop that appends.
LEMMA EntriesLoop ==
    ASSUME NEW vs \in Seq(Vouchers), NEW S
    PROVE  \E h \in [0..Len(vs) -> Seq(OfUsers(S))] :
              /\ h[0] = <<>>
              /\ \A k \in 1..Len(vs) : h[k] = (IF vs[k].user \in S THEN Append(h[k - 1], vs[k]) ELSE h[k - 1])
              /\ EntriesOf(vs, S) = h[Len(vs)]
  <1> DEFINE n == Len(vs)   V == Seq(OfUsers(S))   b == <<>>
             O == [p \in V \X (1..n) |-> (IF vs[p[2]].user \in S THEN Append(p[1], vs[p[2]]) ELSE p[1])]
             Def(g) == g = [s \in SUBSET DOMAIN vs |->
                               IF s = {} THEN <<>>
                               ELSE (IF vs[Max(s)].user \in S THEN Append(g[s \ {Max(s)}], vs[Max(s)])
                                     ELSE g[s \ {Max(s)}])]
             f == CHOOSE g : Def(g)
  <1>1. n \in Nat /\ DOMAIN vs = 1..n /\ b \in V
    OBVIOUS
  <1>2. \A v \in V, k \in 1..n : O[<<v, k>>] = (IF vs[k].user \in S THEN Append(v, vs[k]) ELSE v) /\ O[<<v, k>>] \in V
    <2>1. ASSUME NEW v \in V, NEW k \in 1..n PROVE (IF vs[k].user \in S THEN Append(v, vs[k]) ELSE v) \in V
      BY DEF OfUsers
    <2> QED BY <2>1
  <1>3. EntriesOf(vs, S) = f[DOMAIN vs]
    BY DEF EntriesOf, FoldLeft, MapThenFoldSet
  <1> HIDE DEF n, V, O, b
  <1>4. Turns(O, V, n)
    BY <1>2 DEF Turns
  <1>5. PICK h \in [0..n -> V] : Loop(h, n, b, O)
    BY <1>1, <1>4, LoopExists
  <1>13. PICK it : IsFold(it, n, V, b, O)
    BY <1>1, <1>4, FoldExists
  <1>6. Def(it)
    <2>1. ASSUME NEW s \in SUBSET (1..n), s # {}
          PROVE  it[s] = (IF vs[Max(s)].user \in S THEN Append(it[s \ {Max(s)}], vs[Max(s)]) ELSE it[s \ {Max(s)}])
      <3>1. Max(s) \in 1..n /\ it[s \ {Max(s)}] \in V
        BY <1>1, <1>13, <2>1, MaxOfNumbers DEF IsFold
      <3> QED BY <1>2, <1>13, <2>1, <3>1, Zenon DEF IsFold
    <2>2. it[{}] = b /\ it = [s \in SUBSET (1..n) |-> it[s]]
      BY <1>13 DEF IsFold
    <2> QED BY <1>1, <2>1, <2>2 DEF b
  <1>7. Def(f)
    BY <1>6, Zenon
  <1> HIDE DEF f
  <1>8. FoldedBy(f, n, V, b, O)
    <2>1. f[{}] = b
      BY <1>7 DEF b
    <2>2. ASSUME NEW s \in SUBSET (1..n), s # {}, f[s \ {Max(s)}] \in V
          PROVE  f[s] = O[<<f[s \ {Max(s)}], Max(s)>>]
      <3>1. Max(s) \in 1..n
        BY <1>1, <2>2, MaxOfNumbers
      <3>2. f[s] = (IF vs[Max(s)].user \in S THEN Append(f[s \ {Max(s)}], vs[Max(s)]) ELSE f[s \ {Max(s)}])
        BY <1>1, <1>7, <2>2
      <3> QED BY <1>2, <2>2, <3>1, <3>2
    <2> QED BY <2>1, <2>2 DEF FoldedBy
  <1>9. f[1..n] = h[n]
    BY <1>1, <1>5, <1>8, FoldIsLoop
  <1>10. \A k \in 1..n : h[k - 1] \in V /\ h[k] = (IF vs[k].user \in S THEN Append(h[k - 1], vs[k]) ELSE h[k - 1])
    <2>1. \A k \in 1..n : h[k - 1] \in V
      BY <1>1
    <2> QED BY <1>2, <1>5, <2>1 DEF Loop
  <1>11. h[0] = b
    BY <1>5 DEF Loop
  <1>12. EntriesOf(vs, S) = h[n]
    BY <1>1, <1>3, <1>9, Zenon
  <1> QED BY <1>10, <1>11, <1>12 DEF n, V, b

\* The entries picked out are vouchers of those users.
LEMMA EntriesAre ==
    ASSUME NEW vs \in Seq(Vouchers), NEW S
    PROVE  EntriesOf(vs, S) \in Seq(OfUsers(S)) /\ EntriesOf(vs, S) \in Seq(Vouchers)
  <1>1. PICK h \in [0..Len(vs) -> Seq(OfUsers(S))] : EntriesOf(vs, S) = h[Len(vs)]
    BY EntriesLoop
  <1>2. EntriesOf(vs, S) \in Seq(OfUsers(S))
    BY <1>1
  <1>3. OfUsers(S) \subseteq Vouchers
    BY DEF OfUsers
  <1> QED BY <1>2, <1>3, SeqMonotonic

\* Entries of these users and of those.
LEMMA EntriesSplit ==
    ASSUME NEW vs \in Seq(Vouchers), NEW S, NEW R, S \cap R = {},
           \A i \in DOMAIN vs : vs[i].user \in S \cup R, NEW x
    PROVE  Count(EntriesOf(vs, S), x) + Count(EntriesOf(vs, R), x) = Count(vs, x)
  <1> DEFINE n == Len(vs)   P(k) == SubSeq(vs, 1, k)
  <1>1. PICK h \in [0..n -> Seq(OfUsers(S))] :
           /\ h[0] = <<>>
           /\ \A k \in 1..n : h[k] = (IF vs[k].user \in S THEN Append(h[k - 1], vs[k]) ELSE h[k - 1])
           /\ EntriesOf(vs, S) = h[n]
    BY EntriesLoop
  <1>2. PICK g \in [0..n -> Seq(OfUsers(R))] :
           /\ g[0] = <<>>
           /\ \A k \in 1..n : g[k] = (IF vs[k].user \in R THEN Append(g[k - 1], vs[k]) ELSE g[k - 1])
           /\ EntriesOf(vs, R) = g[n]
    BY EntriesLoop
  <1>3. n \in Nat /\ DOMAIN vs = 1..n
    OBVIOUS
  <1>4. \A k \in 0..n : h[k] \in Seq(Vouchers) /\ g[k] \in Seq(Vouchers)
    <2>1. OfUsers(S) \subseteq Vouchers /\ OfUsers(R) \subseteq Vouchers
      BY DEF OfUsers
    <2>2. \A k \in 0..n : h[k] \in Seq(OfUsers(S)) /\ g[k] \in Seq(OfUsers(R))
      OBVIOUS
    <2> QED BY <2>1, <2>2, SeqMonotonic
  <1> DEFINE T == {k \in 0..n : Count(h[k], x) + Count(g[k], x) = Count(P(k), x)}
  <1>5. 0 \in T
    <2>1. P(0) = <<>> /\ 0 \in 0..n
      BY <1>3, FirstAndNext
    <2>2. Count(h[0], x) = 0 /\ Count(g[0], x) = 0 /\ Count(P(0), x) = 0
      BY <1>1, <1>2, <2>1, CountOfNone, Zenon
    <2> QED BY <2>1, <2>2
  <1>6. ASSUME NEW k \in 0..(n - 1), k \in T PROVE k + 1 \in T
    <2> DEFINE v == vs[k + 1]   p == P(k)   a == h[k]   b == g[k]
    <2>1. k + 1 \in 1..n /\ (k + 1) - 1 = k /\ k + 1 \in 0..n /\ k \in 0..n
      BY <1>3
    <2>2. p \in Seq(Vouchers) /\ v \in Vouchers /\ P(k + 1) = Append(p, v)
      BY FirstAndNext
    <2>3. h[k + 1] = (IF v.user \in S THEN Append(a, v) ELSE a)
          /\ g[k + 1] = (IF v.user \in R THEN Append(b, v) ELSE b)
      BY <1>1, <1>2, <2>1
    <2>4. a \in Seq(Vouchers) /\ b \in Seq(Vouchers) /\ v.user \in S \cup R
      BY <1>3, <1>4, <2>1
    <2>5. Count(a, x) + Count(b, x) = Count(p, x)
      BY <1>6
    <2> HIDE DEF v, p, a, b
    <2>6. Count(Append(p, v), x) = Count(p, x) + Times(x, v)
      BY <2>2, VouchersBill, CountOfAppend
    <2>7. Count(Append(a, v), x) = Count(a, x) + Times(x, v) /\ Count(Append(b, v), x) = Count(b, x) + Times(x, v)
      BY <2>2, <2>4, VouchersBill, CountOfAppend
    <2>8. Count(a, x) \in Nat /\ Count(b, x) \in Nat /\ Count(p, x) \in Nat /\ Times(x, v) \in Nat
      BY <2>2, <2>4, VouchersBill, CountIsNat, TimesIsNat DEF Bill
    <2>9. Count(h[k + 1], x) + Count(g[k + 1], x) = Count(Append(p, v), x)
      <3>1. CASE v.user \in S
        <4>1. h[k + 1] = Append(a, v) /\ g[k + 1] = b
          BY <2>3, <3>1
        <4>2. Count(h[k + 1], x) = Count(Append(a, v), x) /\ Count(g[k + 1], x) = Count(b, x)
          BY <4>1, Zenon
        <4> QED BY <2>5, <2>6, <2>7, <2>8, <4>2
      <3>2. CASE v.user \notin S
        <4>1. h[k + 1] = a /\ g[k + 1] = Append(b, v)
          BY <2>3, <2>4, <3>2
        <4>2. Count(h[k + 1], x) = Count(a, x) /\ Count(g[k + 1], x) = Count(Append(b, v), x)
          BY <4>1, Zenon
        <4> QED BY <2>5, <2>6, <2>7, <2>8, <4>2
      <3> QED BY <3>1, <3>2
    <2> QED BY <2>1, <2>2, <2>9
  <1> HIDE DEF T
  <1>7. n \in T
    BY <1>3, <1>5, <1>6, CountingUp
  <1>8. P(n) = vs
    BY FirstAndNext
  <1> QED BY <1>1, <1>2, <1>7, <1>8 DEF T

-----------------------------------------------------------------------------
(* The split against a balance. *)

Splits(B) == [covered : Seq(B), held : Seq(B)]
NoSplit == [covered |-> <<>>, held |-> <<>>]
CountSplit(s, x) == Count(s.covered, x) + Count(s.held, x)

\* Each voucher goes to one side of the split.
LEMMA TakeOne ==
    ASSUME NEW B \in SUBSET Vouchers, NEW acc \in Splits(B), NEW v \in B, NEW m
    PROVE  /\ TakeWhileCovered(acc, v, m) \in Splits(B)
           /\ \A x : CountSplit(TakeWhileCovered(acc, v, m), x) = CountSplit(acc, x) + Times(x, v)
  <1> DEFINE c == acc.covered   h == acc.held   r == TakeWhileCovered(acc, v, m)
  <1>1. c \in Seq(B) /\ h \in Seq(B)
    BY DEF Splits
  <1>2. \/ r \in Splits(B) /\ r.covered = Append(c, v) /\ r.held = h
        \/ r \in Splits(B) /\ r.covered = c /\ r.held = Append(h, v)
    <2>1. \/ r = [acc EXCEPT !.covered = Append(c, v)]
          \/ r = [acc EXCEPT !.held = Append(h, v)]
      BY DEF TakeWhileCovered
    <2>2. Append(c, v) \in Seq(B) /\ Append(h, v) \in Seq(B)
      BY <1>1
    <2> QED BY <2>1, <2>2 DEF Splits
  <1> HIDE DEF c, h, r
  <1>3. ASSUME NEW x PROVE CountSplit(r, x) = CountSplit(acc, x) + Times(x, v)
    <2>1. /\ Count(Append(c, v), x) = Count(c, x) + Times(x, v)
          /\ Count(Append(h, v), x) = Count(h, x) + Times(x, v)
      BY <1>1, VouchersBill, CountOfAppend
    <2>2. Count(c, x) \in Nat /\ Count(h, x) \in Nat
      BY <1>1, VouchersBill, CountIsNat
    <2>3. Times(x, v) \in Nat
      BY TimesIsNat DEF Vouchers
    <2>4. CountSplit(acc, x) = Count(c, x) + Count(h, x)
      BY DEF CountSplit, c, h
    <2>5. CASE r.covered = Append(c, v) /\ r.held = h
      <3>1. CountSplit(r, x) = Count(Append(c, v), x) + Count(h, x)
        BY <2>5 DEF CountSplit
      <3> QED BY <2>1, <2>2, <2>3, <2>4, <3>1
    <2>6. CASE r.covered = c /\ r.held = Append(h, v)
      <3>1. CountSplit(r, x) = Count(c, x) + Count(Append(h, v), x)
        BY <2>6 DEF CountSplit
      <3> QED BY <2>1, <2>2, <2>3, <2>4, <3>1
    <2> QED BY <1>2, <2>5, <2>6
  <1> QED BY <1>2, <1>3 DEF r

\* The split is a loop that takes voucher after voucher.
LEMMA SplitLoop ==
    ASSUME NEW u, NEW vs \in Seq(OfUsers({u})), NEW m
    PROVE  \E h \in [0..Len(vs) -> Splits(OfUsers({u}))] :
              /\ h[0] = NoSplit
              /\ \A k \in 1..Len(vs) : h[k] = TakeWhileCovered(h[k - 1], vs[k], m)
              /\ SplitBacklog(vs, m) = h[Len(vs)]
  <1> DEFINE n == Len(vs)   V == Splits(OfUsers({u}))   b == NoSplit
             O == [p \in V \X (1..n) |-> TakeWhileCovered(p[1], vs[p[2]], m)]
             Def(g) == g = [s \in SUBSET DOMAIN vs |->
                               IF s = {} THEN NoSplit ELSE TakeWhileCovered(g[s \ {Max(s)}], vs[Max(s)], m)]
             f == CHOOSE g : Def(g)
  <1>1. n \in Nat /\ DOMAIN vs = 1..n /\ b \in V
    BY DEF Splits, NoSplit
  <1>2. \A v \in V, k \in 1..n : O[<<v, k>>] = TakeWhileCovered(v, vs[k], m) /\ O[<<v, k>>] \in V
    <2>1. ASSUME NEW v \in V, NEW k \in 1..n PROVE TakeWhileCovered(v, vs[k], m) \in V
      <3>1. v \in Splits(OfUsers({u})) /\ vs[k] \in OfUsers({u}) /\ OfUsers({u}) \in SUBSET Vouchers
        BY DEF OfUsers
      <3> QED BY <3>1, TakeOne
    <2> QED BY <2>1
  <1>3. SplitBacklog(vs, m) = f[DOMAIN vs]
    BY DEF SplitBacklog, NoSplit, FoldLeft, MapThenFoldSet
  <1> HIDE DEF n, V, O, b
  <1>4. Turns(O, V, n)
    BY <1>2 DEF Turns
  <1>5. PICK h \in [0..n -> V] : Loop(h, n, b, O)
    BY <1>1, <1>4, LoopExists
  <1>13. PICK it : IsFold(it, n, V, b, O)
    BY <1>1, <1>4, FoldExists
  <1>6. Def(it)
    <2>1. ASSUME NEW s \in SUBSET (1..n), s # {}
          PROVE  it[s] = TakeWhileCovered(it[s \ {Max(s)}], vs[Max(s)], m)
      <3>1. Max(s) \in 1..n /\ it[s \ {Max(s)}] \in V
        BY <1>1, <1>13, <2>1, MaxOfNumbers DEF IsFold
      <3> QED BY <1>2, <1>13, <2>1, <3>1 DEF IsFold
    <2>2. it[{}] = b /\ it = [s \in SUBSET (1..n) |-> it[s]]
      BY <1>13 DEF IsFold
    <2> QED BY <1>1, <2>1, <2>2 DEF b
  <1>7. Def(f)
    BY <1>6
  <1> HIDE DEF f
  <1>8. FoldedBy(f, n, V, b, O)
    <2>1. f[{}] = b
      BY <1>7 DEF b
    <2>2. ASSUME NEW s \in SUBSET (1..n), s # {}, f[s \ {Max(s)}] \in V
          PROVE  f[s] = O[<<f[s \ {Max(s)}], Max(s)>>]
      <3>1. Max(s) \in 1..n
        BY <1>1, <2>2, MaxOfNumbers
      <3>2. f[s] = TakeWhileCovered(f[s \ {Max(s)}], vs[Max(s)], m)
        BY <1>1, <1>7, <2>2
      <3> QED BY <1>2, <2>2, <3>1, <3>2
    <2> QED BY <2>1, <2>2 DEF FoldedBy
  <1>9. f[1..n] = h[n]
    BY <1>1, <1>5, <1>8, FoldIsLoop
  <1>10. \A k \in 1..n : h[k - 1] \in V /\ h[k] = TakeWhileCovered(h[k - 1], vs[k], m)
    <2>1. \A k \in 1..n : h[k - 1] \in V
      BY <1>1
    <2> QED BY <1>2, <1>5, <2>1 DEF Loop
  <1>11. h[0] = b
    BY <1>5 DEF Loop
  <1>12. SplitBacklog(vs, m) = h[n]
    BY <1>1, <1>3, <1>9, Zenon
  <1> QED BY <1>10, <1>11, <1>12 DEF n, V, b

\* What grows by each voucher's units in turn ends at the count of the list.
LEMMA CountedInTurn ==
    ASSUME NEW B, Bill(B), NEW vs \in Seq(B), NEW x, NEW c, NEW z \in Nat, c[0] = z,
           \A k \in 1..Len(vs) : c[k] = c[k - 1] + Times(x, vs[k])
    PROVE  c[Len(vs)] = z + Count(vs, x)
  <1> DEFINE n == Len(vs)   P(k) == SubSeq(vs, 1, k)
             T == {k \in 0..n : c[k] = z + Count(P(k), x)}
  <1>1. n \in Nat
    OBVIOUS
  <1>2. 0 \in T
    <2>1. P(0) = <<>> /\ 0 \in 0..n
      BY <1>1, FirstAndNext
    <2>2. Count(P(0), x) = 0
      BY <2>1, CountOfNone, Zenon
    <2> QED BY <2>1, <2>2
  <1>3. ASSUME NEW k \in 0..(n - 1), k \in T PROVE k + 1 \in T
    <2> DEFINE v == vs[k + 1]   p == P(k)
    <2>1. k + 1 \in 1..n /\ (k + 1) - 1 = k /\ k + 1 \in 0..n
      BY <1>1
    <2>2. p \in Seq(B) /\ v \in B /\ P(k + 1) = Append(p, v)
      BY FirstAndNext
    <2>3. c[k + 1] = c[k] + Times(x, v)
      BY <2>1
    <2>4. c[k] = z + Count(p, x)
      BY <1>3
    <2> HIDE DEF p, v
    <2>5. Count(Append(p, v), x) = Count(p, x) + Times(x, v)
      BY <2>2, CountOfAppend
    <2>6. Count(p, x) \in Nat /\ Times(x, v) \in Nat
      BY <2>2, CountIsNat, TimesIsNat DEF Bill
    <2>7. c[k + 1] = z + Count(Append(p, v), x)
      BY <2>3, <2>4, <2>5, <2>6
    <2> QED BY <2>1, <2>2, <2>7
  <1> HIDE DEF T
  <1>4. n \in T
    BY <1>1, <1>2, <1>3, CountingUp
  <1>5. P(n) = vs
    BY FirstAndNext
  <1> QED BY <1>4, <1>5 DEF T

\* SplitBacklog puts every unit on one side and only there.
LEMMA SplitKeeps ==
    ASSUME NEW u, NEW vs \in Seq(OfUsers({u})), NEW m
    PROVE  /\ SplitBacklog(vs, m) \in Splits(OfUsers({u}))
           /\ \A x : CountSplit(SplitBacklog(vs, m), x) = Count(vs, x)
  <1> DEFINE n == Len(vs)   B == OfUsers({u})
  <1>0. B \in SUBSET Vouchers
    BY DEF OfUsers
  <1>1. PICK h \in [0..n -> Splits(B)] :
              /\ h[0] = NoSplit
              /\ \A k \in 1..n : h[k] = TakeWhileCovered(h[k - 1], vs[k], m)
              /\ SplitBacklog(vs, m) = h[n]
    BY SplitLoop, ZenonT(40)
  <1>2. n \in Nat /\ \A k \in 1..n : k \in 0..n /\ k - 1 \in 0..n /\ vs[k] \in B
    OBVIOUS
  <1>3. ASSUME NEW x PROVE CountSplit(h[n], x) = Count(vs, x)
    <2> DEFINE c == [k \in 0..n |-> CountSplit(h[k], x)]
    <2>1. c[0] = 0
      <3>1. CountSplit(NoSplit, x) = Count(<<>>, x) + Count(<<>>, x)
        BY DEF CountSplit, NoSplit
      <3>2. CountSplit(h[0], x) = 0
        BY <1>1, <3>1, CountOfNone
      <3> QED BY <1>2, <3>2
    <2>2. ASSUME NEW k \in 1..n PROVE c[k] = c[k - 1] + Times(x, vs[k])
      <3>1. h[k - 1] \in Splits(B)
        BY <1>2
      <3>2. CountSplit(TakeWhileCovered(h[k - 1], vs[k], m), x) = CountSplit(h[k - 1], x) + Times(x, vs[k])
        <4> DEFINE a == h[k - 1]   v == vs[k]
        <4>1. a \in Splits(B) /\ v \in B
          BY <1>2, <3>1
        <4> HIDE DEF a, v, B
        <4>2. CountSplit(TakeWhileCovered(a, v, m), x) = CountSplit(a, x) + Times(x, v)
          BY <1>0, <4>1, TakeOne
        <4> QED BY <4>2 DEF a, v
      <3>3. CountSplit(h[k], x) = CountSplit(h[k - 1], x) + Times(x, vs[k])
        BY <1>1, <3>2
      <3> QED BY <1>2, <3>3
    <2>3. c[n] = CountSplit(h[n], x)
      BY <1>2
    <2> HIDE DEF c
    <2>4. c[n] = 0 + Count(vs, x)
      BY <1>0, <2>1, <2>2, VouchersBill, CountedInTurn
    <2>5. Count(vs, x) \in Nat
      BY <1>0, VouchersBill, CountIsNat
    <2> QED BY <2>3, <2>4, <2>5
  <1>4. h[n] \in Splits(OfUsers({u}))
    <2>1. n \in 0..n
      BY <1>2
    <2> HIDE DEF n, B
    <2>2. h[n] \in Splits(B)
      BY <2>1
    <2> QED BY <2>2 DEF B
  <1> QED BY <1>1, <1>3, <1>4, Zenon

\* Grouping the covered vouchers bills every unit as often as before.
LEMMA GroupKeeps ==
    ASSUME NEW vs \in Seq(Vouchers)
    PROVE  /\ GroupCovered(vs) \in Seq(Vouchers)
           /\ \A x : Count(GroupCovered(vs), x) = Count(vs, x)
  <1> DEFINE groups == CollapseBySandbox(vs)   g == GroupCovered(vs)
  <1>1. groups \in Seq(Vouchers) /\ \A x : Count(groups, x) = Count(vs, x)
    BY CollapseKeeps
  <1>2. g = [i \in DOMAIN groups |-> [groups[i] EXCEPT !.agg = TRUE]]
    BY DEF GroupCovered
  <1> HIDE DEF groups, g
  <1>3. ASSUME NEW i \in DOMAIN groups
        PROVE  g[i] \in Vouchers /\ \A x : Times(x, g[i]) = Times(x, groups[i])
    <2>1. groups[i] \in Vouchers /\ g[i] = [groups[i] EXCEPT !.agg = TRUE]
      BY <1>1, <1>2
    <2>2. g[i] \in Vouchers /\ g[i].uses = groups[i].uses
      BY <2>1 DEF Vouchers, BillsOwn
    <2> QED BY <2>2 DEF Times
  <1>4. DOMAIN g = DOMAIN groups
    BY <1>2
  <1>5. g \in Seq(Vouchers)
    <2>1. DOMAIN g = 1..Len(groups) /\ Len(groups) \in Nat
      BY <1>1, <1>4
    <2>2. \A i \in 1..Len(groups) : g[i] \in Vouchers
      BY <1>3, <1>4, <2>1
    <2>3. g = [i \in 1..Len(groups) |-> g[i]]
      BY <1>2, <1>4, <2>1
    <2> QED BY <2>1, <2>2, <2>3
  <1>6. ASSUME NEW x PROVE Count(g, x) = Count(groups, x)
    BY <1>1, <1>3, <1>4, VouchersBill, CountOfSame
  <1> QED BY <1>1, <1>5, <1>6 DEF g

\* r is what the rewrite of queue q and a user's held debt h may leave.
Rewritten(r, q, h, u) ==
    /\ r.queue \in Seq(Vouchers) /\ r.held \in Seq(OfUsers({u}))
    /\ \A x : Count(r.queue, x) + Count(r.held, x) = Count(q, x) + Count(h, x)

\* The rewrite of one user's backlog moves units between queue and held debt and
\* leaves as many of each.
LEMMA AggregateKeeps ==
    ASSUME NEW q \in Seq(Vouchers), NEW u, NEW h \in Seq(OfUsers({u})), NEW m
    PROVE  Rewritten(AggregateCovered(q, h, u, m), q, h, u)
  <1> DEFINE mine == QueuedOf(q, u)   others == NotOf(q, u)
             B == OfUsers({u})   all == h \o mine
             split == SplitBacklog(all, m)
             c == split.covered   d == split.held   g == GroupCovered(c)
             R == QueuedUsers(q) \ {u}
  <1>1. mine \in Seq(B) /\ mine \in Seq(Vouchers) /\ others \in Seq(Vouchers) /\ B \in SUBSET Vouchers
    BY EntriesAre DEF QueuedOf, NotOf, OfUsers
  <1>2. AggregateCovered(q, h, u, m).queue = others \o g /\ AggregateCovered(q, h, u, m).held = d
    BY DEF AggregateCovered
  <1>3. \A x : Count(mine, x) + Count(others, x) = Count(q, x)
    <2>1. {u} \cap R = {} /\ \A i \in DOMAIN q : q[i].user \in {u} \cup R
      BY DEF QueuedUsers
    <2> HIDE DEF R
    <2>2. \A x : Count(EntriesOf(q, {u}), x) + Count(EntriesOf(q, R), x) = Count(q, x)
      BY <2>1, EntriesSplit
    <2> QED BY <2>2 DEF QueuedOf, NotOf, R
  <1> HIDE DEF mine, others, B
  <1>4. all \in Seq(B)
    BY <1>1 DEF B
  <1> HIDE DEF all
  <1>5. split \in Splits(B) /\ \A x : CountSplit(split, x) = Count(all, x)
    BY <1>4, SplitKeeps DEF B
  <1> HIDE DEF split
  <1>6. c \in Seq(B) /\ d \in Seq(B)
    BY <1>5 DEF Splits
  <1>7. \A x : CountSplit(split, x) = Count(c, x) + Count(d, x)
    BY DEF CountSplit
  <1> HIDE DEF c, d
  <1>8. c \in Seq(Vouchers) /\ d \in Seq(Vouchers)
    BY <1>1, <1>6, SeqMonotonic
  <1>9. g \in Seq(Vouchers) /\ \A x : Count(g, x) = Count(c, x)
    BY <1>8, GroupKeeps
  <1> HIDE DEF g
  <1>10. ASSUME NEW x PROVE Count(others \o g, x) + Count(d, x) = Count(q, x) + Count(h, x)
    <2>1. Count(others \o g, x) = Count(others, x) + Count(g, x)
      BY <1>1, <1>9, VouchersBill, CountOfConcat
    <2>2. Count(all, x) = Count(h, x) + Count(mine, x)
      <3>1. h \in Seq(B)
        BY DEF B
      <3>2. Count(h \o mine, x) = Count(h, x) + Count(mine, x)
        BY <1>1, <3>1, VouchersBill, CountOfConcat
      <3> QED BY <3>2 DEF all
    <2>3. Count(others, x) \in Nat /\ Count(g, x) \in Nat /\ Count(mine, x) \in Nat /\ Count(d, x) \in Nat
      BY <1>1, <1>8, <1>9, VouchersBill, CountIsNat
    <2>4. Count(h, x) \in Nat
      BY <1>1, VouchersBill, CountIsNat DEF B
    <2>5. Count(g, x) + Count(d, x) = Count(all, x)
      BY <1>5, <1>7, <1>9
    <2>6. Count(mine, x) + Count(others, x) = Count(q, x)
      BY <1>3
    <2> DEFINE t == others \o g
    <2> HIDE DEF t
    <2>7. Count(t, x) = Count(others, x) + Count(g, x)
      BY <2>1 DEF t
    <2>8. Count(t, x) + Count(d, x) = Count(q, x) + Count(h, x)
      BY <2>2, <2>3, <2>4, <2>5, <2>6, <2>7, SMTT(30)
    <2> QED BY <2>8 DEF t
  <1>11. others \o g \in Seq(Vouchers)
    BY <1>1, <1>9
  <1> QED BY <1>2, <1>6, <1>10, <1>11 DEF B, Rewritten

\* A user's vouchers bill no unit of another user.
LEMMA CountOfOthers ==
    ASSUME NEW u, NEW vs \in Seq(OfUsers({u})), NEW x, UserOf[x] # u
    PROVE  Count(vs, x) = 0
  <1>1. IsFiniteSet(DOMAIN vs)
    BY FS_Interval
  <1>2. ASSUME NEW i \in DOMAIN vs PROVE TimesIn(vs, x)[i] = 0
    <2>1. vs[i] \in OfUsers({u})
      OBVIOUS
    <2>2. \A k \in DOMAIN vs[i].uses : UserOf[vs[i].uses[k]] = u
      BY <2>1 DEF OfUsers, Vouchers, BillsOwn
    <2>3. {k \in DOMAIN vs[i].uses : vs[i].uses[k] = x} = {}
      BY <2>2
    <2>4. Times(x, vs[i]) = 0
      BY <2>3, FS_EmptySet, Zenon DEF Times
    <2> QED BY <2>4 DEF TimesIn
  <1> QED BY <1>1, <1>2, SumOfZeros DEF Count

-----------------------------------------------------------------------------
(* The sweep of some users, one after the other. *)

HeldLists == {h \in [Users -> Seq(Vouchers)] : \A u \in Users : h[u] \in Seq(OfUsers({u}))}
SweepStates == [queue : Seq(Vouchers), held : HeldLists, stops : SUBSET Sandboxes]
Unswept == [queue |-> queue, held |-> held, stops |-> stops]
CountIn(st, x) == Count(st.queue, x) + Count(st.held[UserOf[x]], x)
HeldStopped(st) == \A u \in Users : HeldSandboxIDs(st.held[u]) \subseteq st.stops

\* Stops that held debt calls for name sandboxes.
LEMMA HeldSandboxes ==
    ASSUME NEW vs \in Seq(Vouchers) PROVE HeldSandboxIDs(vs) \in SUBSET Sandboxes
  BY DEF HeldSandboxIDs, Vouchers

\* Sweeping one user neither makes nor loses a unit, and what it parks it stops.
LEMMA SweepOneKeeps ==
    ASSUME NEW st \in SweepStates, NEW u \in Users, NEW hit \in BOOLEAN
    PROVE  /\ SweepOne(st, u, hit) \in SweepStates
           /\ \A x \in Usages : CountIn(SweepOne(st, u, hit), x) = CountIn(st, x)
           /\ HeldStopped(st) => HeldStopped(SweepOne(st, u, hit))
  <1>1. CASE hit
    BY <1>1 DEF SweepOne
  <1>2. CASE ~hit
    <2> DEFINE q == st.queue   h == st.held[u]   r == AggregateCovered(q, h, u, balance[u])
               rq == r.queue   rh == r.held
               H == [st.held EXCEPT ![u] = rh]
               S == st.stops \cup HeldSandboxIDs(rh)
               res == [queue |-> rq, held |-> H, stops |-> S]
               z == SweepOne(st, u, hit)
    <2>1. z = res
      BY <1>2 DEF SweepOne
    <2>2. /\ q \in Seq(Vouchers) /\ h \in Seq(OfUsers({u})) /\ h \in Seq(Vouchers)
          /\ st.held \in HeldLists /\ st.stops \in SUBSET Sandboxes
      BY DEF SweepStates, HeldLists
    <2> HIDE DEF q, h, z
    <2>3. rq \in Seq(Vouchers) /\ rh \in Seq(OfUsers({u}))
          /\ \A x : Count(rq, x) + Count(rh, x) = Count(q, x) + Count(h, x)
      <3> DEFINE m == balance[u]
      <3> HIDE DEF m
      <3>1. q \in Seq(Vouchers) /\ h \in Seq(OfUsers({u}))
        BY <2>2
      <3>2. Rewritten(AggregateCovered(q, h, u, m), q, h, u)
        BY <3>1, AggregateKeeps
      <3> QED BY <3>2 DEF m, Rewritten
    <2> HIDE DEF rq, rh, r
    <2>4. rh \in Seq(Vouchers)
      <3>1. OfUsers({u}) \subseteq Vouchers
        BY DEF OfUsers
      <3> QED BY <2>3, <3>1, SeqMonotonic
    <2>5. H \in HeldLists /\ H[u] = rh /\ \A w \in Users \ {u} : H[w] = st.held[w]
      BY <2>2, <2>3, <2>4 DEF HeldLists
    <2>6. S \in SUBSET Sandboxes
      BY <2>2, <2>4, HeldSandboxes
    <2>7. z \in SweepStates
      BY <2>1, <2>3, <2>5, <2>6 DEF SweepStates
    <2>8. z.queue = rq /\ z.held = H /\ z.stops = S
      BY <2>1
    <2> HIDE DEF H, S
    <2>9. ASSUME NEW x \in Usages PROVE CountIn(z, x) = CountIn(st, x)
      <3> DEFINE w == UserOf[x]
      <3>1. CountIn(z, x) = Count(rq, x) + Count(H[w], x) /\ CountIn(st, x) = Count(q, x) + Count(st.held[w], x)
        BY <2>8 DEF CountIn, q
      <3>2. CASE w = u
        <4>1. H[w] = rh /\ st.held[w] = h
          BY <2>5, <3>2 DEF h
        <4>2. Count(H[w], x) = Count(rh, x) /\ Count(st.held[w], x) = Count(h, x)
          BY <4>1, Zenon
        <4> QED BY <2>3, <3>1, <4>2
      <3>3. CASE w # u
        <4>1. w \in Users
          BY UsageAssumption
        <4>2. H[w] = st.held[w]
          BY <2>5, <3>3, <4>1
        <4>3. Count(H[w], x) = Count(st.held[w], x)
          BY <4>2, Zenon
        <4>4. Count(rh, x) = 0 /\ Count(h, x) = 0
          BY <2>2, <2>3, <3>3, CountOfOthers
        <4>5. Count(rq, x) \in Nat /\ Count(q, x) \in Nat
          BY <2>2, <2>3, VouchersBill, CountIsNat
        <4>6. Count(rq, x) + Count(rh, x) = Count(q, x) + Count(h, x)
          BY <2>3
        <4>7. Count(rq, x) = Count(q, x)
          BY <4>4, <4>5, <4>6
        <4> QED BY <3>1, <4>3, <4>7
      <3> QED BY <3>2, <3>3
    <2>10. ASSUME HeldStopped(st) PROVE HeldStopped(z)
      <3>1. ASSUME NEW w \in Users PROVE HeldSandboxIDs(H[w]) \subseteq S
        <4>1. CASE w = u
          BY <2>5, <4>1 DEF S
        <4>2. CASE w # u
          <5>1. HeldSandboxIDs(H[w]) = HeldSandboxIDs(st.held[w])
            BY <2>5, <4>2
          <5>2. HeldSandboxIDs(st.held[w]) \subseteq st.stops
            BY <2>10 DEF HeldStopped
          <5> QED BY <5>1, <5>2 DEF S
        <4> QED BY <4>1, <4>2
      <3> QED BY <2>8, <3>1 DEF HeldStopped
    <2> QED BY <2>7, <2>9, <2>10 DEF z
  <1> QED BY <1>1, <1>2

\* A sweep is a loop over its users.
LEMMA SweepLoop ==
    ASSUME NEW order \in Seq(Users), NEW skip, Unswept \in SweepStates
    PROVE  \E h \in [0..Len(order) -> SweepStates] :
              /\ h[0] = Unswept
              /\ \A k \in 1..Len(order) : h[k] = SweepOne(h[k - 1], order[k], order[k] \in skip)
              /\ Sweep(order, skip) = h[Len(order)]
  <1> DEFINE n == Len(order)   V == SweepStates   b == Unswept
             O == [p \in V \X (1..n) |-> SweepOne(p[1], order[p[2]], order[p[2]] \in skip)]
             Def(g) == g = [s \in SUBSET DOMAIN order |->
                               IF s = {} THEN Unswept ELSE SweepOne(g[s \ {Max(s)}], order[Max(s)], order[Max(s)] \in skip)]
             f == CHOOSE g : Def(g)
  <1>1. n \in Nat /\ DOMAIN order = 1..n /\ b \in V
    OBVIOUS
  <1>2. \A v \in V, k \in 1..n : O[<<v, k>>] = SweepOne(v, order[k], order[k] \in skip) /\ O[<<v, k>>] \in V
    <2>1. ASSUME NEW v \in V, NEW k \in 1..n PROVE SweepOne(v, order[k], order[k] \in skip) \in V
      <3>1. v \in SweepStates /\ order[k] \in Users /\ (order[k] \in skip) \in BOOLEAN
        OBVIOUS
      <3> QED BY <3>1, SweepOneKeeps
    <2> QED BY <2>1
  <1>3. Sweep(order, skip) = f[DOMAIN order]
    BY DEF Sweep, Unswept, FoldLeft, MapThenFoldSet
  <1> HIDE DEF n, V, O, b
  <1>4. Turns(O, V, n)
    BY <1>2 DEF Turns
  <1>5. PICK h \in [0..n -> V] : Loop(h, n, b, O)
    BY <1>1, <1>4, LoopExists
  <1>13. PICK it : IsFold(it, n, V, b, O)
    BY <1>1, <1>4, FoldExists
  <1>6. Def(it)
    <2>1. ASSUME NEW s \in SUBSET (1..n), s # {}
          PROVE  it[s] = SweepOne(it[s \ {Max(s)}], order[Max(s)], order[Max(s)] \in skip)
      <3>1. Max(s) \in 1..n /\ it[s \ {Max(s)}] \in V
        BY <1>1, <1>13, <2>1, MaxOfNumbers DEF IsFold
      <3> QED BY <1>2, <1>13, <2>1, <3>1 DEF IsFold
    <2>2. it[{}] = b /\ it = [s \in SUBSET (1..n) |-> it[s]]
      BY <1>13 DEF IsFold
    <2> QED BY <1>1, <2>1, <2>2 DEF b
  <1>7. Def(f)
    BY <1>6
  <1> HIDE DEF f
  <1>8. FoldedBy(f, n, V, b, O)
    <2>1. f[{}] = b
      BY <1>7 DEF b
    <2>2. ASSUME NEW s \in SUBSET (1..n), s # {}, f[s \ {Max(s)}] \in V
          PROVE  f[s] = O[<<f[s \ {Max(s)}], Max(s)>>]
      <3>1. Max(s) \in 1..n
        BY <1>1, <2>2, MaxOfNumbers
      <3>2. f[s] = SweepOne(f[s \ {Max(s)}], order[Max(s)], order[Max(s)] \in skip)
        BY <1>1, <1>7, <2>2
      <3> QED BY <1>2, <2>2, <3>1, <3>2
    <2> QED BY <2>1, <2>2 DEF FoldedBy
  <1>9. f[1..n] = h[n]
    BY <1>1, <1>5, <1>8, FoldIsLoop
  <1>10. \A k \in 1..n : h[k - 1] \in V /\ h[k] = SweepOne(h[k - 1], order[k], order[k] \in skip)
    <2>1. \A k \in 1..n : h[k - 1] \in V
      BY <1>1
    <2> QED BY <1>2, <1>5, <2>1 DEF Loop
  <1>11. h[0] = b
    BY <1>5 DEF Loop
  <1>12. Sweep(order, skip) = h[n]
    BY <1>1, <1>3, <1>9, Zenon
  <1> QED BY <1>10, <1>11, <1>12 DEF n, V, b

\* A sweep leaves as many of each unit in queue and held debt together, and debt
\* that it parks comes with its stops.
LEMMA SweepKeeps ==
    ASSUME NEW order \in Seq(Users), NEW skip, Unswept \in SweepStates
    PROVE  /\ Sweep(order, skip) \in SweepStates
           /\ \A x \in Usages : CountIn(Sweep(order, skip), x) = CountIn(Unswept, x)
           /\ HeldStopped(Unswept) => HeldStopped(Sweep(order, skip))
  <1> DEFINE n == Len(order)
  <1>1. PICK h \in [0..n -> SweepStates] :
           /\ h[0] = Unswept
           /\ \A k \in 1..n : h[k] = SweepOne(h[k - 1], order[k], order[k] \in skip)
           /\ Sweep(order, skip) = h[n]
    BY SweepLoop
  <1>2. n \in Nat
    OBVIOUS
  <1> DEFINE T == {k \in 0..n : /\ \A x \in Usages : CountIn(h[k], x) = CountIn(Unswept, x)
                                /\ HeldStopped(Unswept) => HeldStopped(h[k])}
  <1>3. 0 \in T
    <2>1. 0 \in 0..n
      BY <1>2
    <2> QED BY <1>1, <2>1
  <1>4. ASSUME NEW k \in 0..(n - 1), k \in T PROVE k + 1 \in T
    <2> DEFINE a == h[k]   u == order[k + 1]   hit == u \in skip
    <2>1. k + 1 \in 1..n /\ (k + 1) - 1 = k /\ k + 1 \in 0..n /\ a \in SweepStates /\ u \in Users /\ hit \in BOOLEAN
      BY <1>2
    <2>2. h[k + 1] = SweepOne(a, u, hit)
      BY <1>1, <2>1
    <2> HIDE DEF a, u, hit
    <2>3. /\ \A x \in Usages : CountIn(SweepOne(a, u, hit), x) = CountIn(a, x)
          /\ HeldStopped(a) => HeldStopped(SweepOne(a, u, hit))
      BY <2>1, SweepOneKeeps
    <2>4. /\ \A x \in Usages : CountIn(a, x) = CountIn(Unswept, x)
          /\ HeldStopped(Unswept) => HeldStopped(a)
      BY <1>4 DEF a
    <2> QED BY <2>1, <2>2, <2>3, <2>4
  <1> HIDE DEF T
  <1>5. n \in T
    BY <1>2, <1>3, <1>4, CountingUp
  <1>6. h[n] \in SweepStates
    BY <1>2
  <1> QED BY <1>1, <1>5, <1>6, Zenon DEF T

\* The orders in which users can be swept.
LEMMA OrdersAreLists ==
    ASSUME NEW S \in SUBSET Users, NEW order \in SetToSeqs(S) PROVE order \in Seq(Users)
  <1>1. Cardinality(S) \in Nat
    BY UsageAssumption, FS_Subset, FS_CardinalityType
  <1>2. order \in [1..Cardinality(S) -> S]
    BY DEF SetToSeqs
  <1> QED BY <1>1, <1>2

\* What sweepUsersMemo leaves.
LEMMA SweepUsersKeeps ==
    ASSUME NEW S \in SUBSET Users, NEW from, NEW memo, SweepUsers(S, from, memo),
           queue \in Seq(Vouchers), held \in HeldLists, stops \in SUBSET Sandboxes
    PROVE  /\ queue' \in Seq(Vouchers) /\ held' \in HeldLists /\ stops' \in SUBSET Sandboxes
           /\ \A x \in Usages : Count(queue', x) + Count(held'[UserOf[x]], x)
                                  = Count(queue, x) + Count(held[UserOf[x]], x)
           /\ HeldIsStopped => HeldIsStopped'
  <1> DEFINE skip == {u \in S : memo /\ u \notin from /\ lastBal[u] = balance[u]}
  <1>1. PICK order \in SetToSeqs(S) :
           /\ queue' = Sweep(order, skip).queue /\ held' = Sweep(order, skip).held
           /\ stops' = Sweep(order, skip).stops
    BY DEF SweepUsers
  <1>2. order \in Seq(Users) /\ Unswept \in SweepStates
    BY OrdersAreLists DEF Unswept, SweepStates
  <1> HIDE DEF skip
  <1> DEFINE st == Sweep(order, skip)
  <1>3. st \in SweepStates /\ (\A x \in Usages : CountIn(st, x) = CountIn(Unswept, x))
        /\ (HeldStopped(Unswept) => HeldStopped(st))
    BY <1>2, SweepKeeps
  <1> HIDE DEF st
  <1>4. queue' = st.queue /\ held' = st.held /\ stops' = st.stops
    BY <1>1 DEF st
  <1>5. st.queue \in Seq(Vouchers) /\ st.held \in HeldLists /\ st.stops \in SUBSET Sandboxes
    BY <1>3 DEF SweepStates
  <1>6. ASSUME NEW x \in Usages
        PROVE  Count(st.queue, x) + Count(st.held[UserOf[x]], x) = Count(queue, x) + Count(held[UserOf[x]], x)
    BY <1>3 DEF CountIn, Unswept
  <1>7. HeldIsStopped => \A u \in Users : HeldSandboxIDs(st.held[u]) \subseteq st.stops
    BY <1>3 DEF HeldIsStopped, HeldStopped, Unswept
  <1>8. HeldIsStopped' <=> \A u \in Users : HeldSandboxIDs(held'[u]) \subseteq stops'
    BY DEF HeldIsStopped, HeldSandboxIDs
  <1> QED BY <1>4, <1>5, <1>6, <1>7, <1>8, Zenon

-----------------------------------------------------------------------------
(* Sums over the first numbers. *)

Total(f, n) == SumFunctionOnSet(f, 1..n)
Weights(f, n) == \A i \in 1..n : f[i] \in Nat

\* A sum over 1..n is built up number by number and is above each of its terms.
LEMMA TotalIsNat ==
    ASSUME NEW n \in Nat, NEW f, Weights(f, n)
    PROVE  /\ Total(f, n) \in Nat /\ Total(f, 0) = 0
           /\ \A k \in 1..n : Weights(f, k - 1) /\ Weights(f, k)
                              /\ Total(f, k) = Total(f, k - 1) + f[k]
           /\ \A i \in 1..n : f[i] <= Total(f, n)
  <1>1. Total(f, n) \in Nat
    <2> DEFINE S == 1..n
    <2>1. IsFiniteSet(S) /\ \A i \in S : f[i] \in Nat
      BY FS_Interval DEF Weights
    <2> HIDE DEF S
    <2>2. SumFunctionOnSet(f, S) \in Nat
      BY <2>1, SumIsNat
    <2> QED BY <2>2 DEF Total, S
  <1>2. Total(f, 0) = 0
    <2>1. 1..0 = {} /\ IsFiniteSet({})
      BY FS_EmptySet
    <2>2. SumFunctionOnSet(f, {}) = 0
      BY <2>1, SumOfZeros
    <2> QED BY <2>1, <2>2, Zenon DEF Total
  <1>3. ASSUME NEW k \in 1..n
        PROVE  Weights(f, k - 1) /\ Weights(f, k) /\ Total(f, k) = Total(f, k - 1) + f[k]
    <2>1. Weights(f, k - 1) /\ Weights(f, k)
      BY DEF Weights
    <2> DEFINE S == 1..k
    <2>2. k \in S /\ S \ {k} = 1..(k - 1) /\ IsFiniteSet(S) /\ \A i \in S : f[i] \in Nat
      BY <2>1, FS_Interval DEF Weights
    <2> HIDE DEF S
    <2>3. SumFunctionOnSet(f, S) = SumFunctionOnSet(f, S \ {k}) + f[k]
      BY <2>2, SumSplits
    <2>4. SumFunctionOnSet(f, S) = SumFunctionOnSet(f, 1..(k - 1)) + f[k]
      BY <2>2, <2>3, Zenon
    <2> QED BY <2>1, <2>4 DEF Total, S
  <1>4. ASSUME NEW i \in 1..n PROVE f[i] <= Total(f, n)
    <2> DEFINE S == 1..n
    <2>1. IsFiniteSet(S) /\ i \in S /\ \A j \in S : f[j] \in Nat
      BY FS_Interval DEF Weights
    <2> HIDE DEF S
    <2>2. SumFunctionOnSet(f, S) = SumFunctionOnSet(f, S \ {i}) + f[i]
      BY <2>1, SumSplits
    <2>3. SumFunctionOnSet(f, S \ {i}) \in Nat
      BY <2>1, SumSplits
    <2>4. f[i] <= SumFunctionOnSet(f, S)
      BY <2>1, <2>2, <2>3
    <2> QED BY <2>4 DEF Total, S
  <1> QED BY <1>1, <1>2, <1>3, <1>4

\* Two sums and a third that bounds them term by term.
Within(f, g, l, n) == \A i \in 1..n : f[i] + g[i] <= l[i]
Together(f, g, l, n) == \A i \in 1..n : f[i] + g[i] = l[i]

\* What holds term by term holds of the sums.
LEMMA TotalsCompare ==
    ASSUME NEW n \in Nat, NEW f, NEW g, NEW l, Weights(f, n), Weights(g, n), Weights(l, n)
    PROVE  /\ Within(f, g, l, n) => Total(f, n) + Total(g, n) <= Total(l, n)
           /\ Together(f, g, l, n) => Total(f, n) + Total(g, n) = Total(l, n)
  <1> DEFINE T == {k \in 0..n : /\ Within(f, g, l, n) => Total(f, k) + Total(g, k) <= Total(l, k)
                                /\ Together(f, g, l, n) => Total(f, k) + Total(g, k) = Total(l, k)}
  <1>1. 0 \in T
    <2>1. Total(f, 0) = 0 /\ Total(g, 0) = 0 /\ Total(l, 0) = 0
      BY TotalIsNat
    <2> QED BY <2>1
  <1>2. ASSUME NEW k \in 0..(n - 1), k \in T PROVE k + 1 \in T
    <2> DEFINE j == k + 1
    <2>1. j \in 1..n /\ j - 1 = k /\ j \in 0..n
      OBVIOUS
    <2> HIDE DEF j
    <2>2. /\ Total(f, j) = Total(f, j - 1) + f[j] /\ Total(g, j) = Total(g, j - 1) + g[j]
          /\ Total(l, j) = Total(l, j - 1) + l[j]
      BY <2>1, TotalIsNat
    <2>3. Weights(f, j - 1) /\ Weights(g, j - 1) /\ Weights(l, j - 1)
      BY <2>1, TotalIsNat
    <2>4. Total(f, k) \in Nat /\ Total(g, k) \in Nat /\ Total(l, k) \in Nat
      BY <2>1, <2>3, TotalIsNat
    <2>5. f[j] \in Nat /\ g[j] \in Nat /\ l[j] \in Nat
      BY <2>1 DEF Weights
    <2>6. /\ Total(f, j) = Total(f, k) + f[j] /\ Total(g, j) = Total(g, k) + g[j]
          /\ Total(l, j) = Total(l, k) + l[j]
      BY <2>1, <2>2
    <2>7. Within(f, g, l, n) => Total(f, j) + Total(g, j) <= Total(l, j)
      <3>1. ASSUME Within(f, g, l, n) PROVE Total(f, j) + Total(g, j) <= Total(l, j)
        <4>1. f[j] + g[j] <= l[j]
          BY <2>1, <3>1 DEF Within
        <4>2. Total(f, k) + Total(g, k) <= Total(l, k)
          BY <1>2, <3>1
        <4> QED BY <2>4, <2>5, <2>6, <4>1, <4>2
      <3> QED BY <3>1
    <2>8. Together(f, g, l, n) => Total(f, j) + Total(g, j) = Total(l, j)
      <3>1. ASSUME Together(f, g, l, n) PROVE Total(f, j) + Total(g, j) = Total(l, j)
        <4>1. f[j] + g[j] = l[j]
          BY <2>1, <3>1 DEF Together
        <4>2. Total(f, k) + Total(g, k) = Total(l, k)
          BY <1>2, <3>1
        <4> QED BY <2>4, <2>5, <2>6, <4>1, <4>2
      <3> QED BY <3>1
    <2> QED BY <2>1, <2>7, <2>8 DEF j
  <1> HIDE DEF T
  <1>3. n \in T
    BY <1>1, <1>2, CountingUp
  <1> QED BY <1>3 DEF T

-----------------------------------------------------------------------------
(* Fees, and the units of a list. *)

\* A fee is summed up unit by unit.
LEMMA FeeLoop ==
    ASSUME NEW w, w.uses \in Seq(Usages)
    PROVE  \E h \in [0..Len(w.uses) -> Nat] :
              /\ h[0] = 0
              /\ \A k \in 1..Len(w.uses) : h[k] = (h[k - 1] + FeeOf[w.uses[k]])
              /\ TotalFee(w) = h[Len(w.uses)]
  <1> DEFINE n == Len(w.uses)   V == Nat   b == 0
             O == [p \in V \X (1..n) |-> (p[1] + FeeOf[w.uses[p[2]]])]
             Def(g) == g = [s \in SUBSET DOMAIN w.uses |->
                               IF s = {} THEN 0 ELSE (g[s \ {Max(s)}] + FeeOf[w.uses[Max(s)]])]
             f == CHOOSE g : Def(g)
  <1>1. n \in Nat /\ DOMAIN w.uses = 1..n /\ b \in V
    OBVIOUS
  <1>2. \A v \in V, k \in 1..n : O[<<v, k>>] = (v + FeeOf[w.uses[k]]) /\ O[<<v, k>>] \in V
    <2>1. ASSUME NEW v \in V, NEW k \in 1..n PROVE (v + FeeOf[w.uses[k]]) \in V
      BY UsageAssumption
    <2> QED BY <2>1
  <1>3. TotalFee(w) = f[DOMAIN w.uses]
    BY DEF TotalFee, FoldLeft, MapThenFoldSet
  <1> HIDE DEF n, V, O, b
  <1>4. Turns(O, V, n)
    BY <1>2 DEF Turns
  <1>5. PICK h \in [0..n -> V] : Loop(h, n, b, O)
    BY <1>1, <1>4, LoopExists
  <1>13. PICK it : IsFold(it, n, V, b, O)
    BY <1>1, <1>4, FoldExists
  <1>6. Def(it)
    <2>1. ASSUME NEW s \in SUBSET (1..n), s # {}
          PROVE  it[s] = (it[s \ {Max(s)}] + FeeOf[w.uses[Max(s)]])
      <3>1. Max(s) \in 1..n /\ it[s \ {Max(s)}] \in V
        BY <1>1, <1>13, <2>1, MaxOfNumbers DEF IsFold
      <3> QED BY <1>2, <1>13, <2>1, <3>1 DEF IsFold
    <2>2. it[{}] = b /\ it = [s \in SUBSET (1..n) |-> it[s]]
      BY <1>13 DEF IsFold
    <2> QED BY <1>1, <2>1, <2>2 DEF b
  <1>7. Def(f)
    BY <1>6
  <1> HIDE DEF f
  <1>8. FoldedBy(f, n, V, b, O)
    <2>1. f[{}] = b
      BY <1>7 DEF b
    <2>2. ASSUME NEW s \in SUBSET (1..n), s # {}, f[s \ {Max(s)}] \in V
          PROVE  f[s] = O[<<f[s \ {Max(s)}], Max(s)>>]
      <3>1. Max(s) \in 1..n
        BY <1>1, <2>2, MaxOfNumbers
      <3>2. f[s] = (f[s \ {Max(s)}] + FeeOf[w.uses[Max(s)]])
        BY <1>1, <1>7, <2>2
      <3> QED BY <1>2, <2>2, <3>1, <3>2
    <2> QED BY <2>1, <2>2 DEF FoldedBy
  <1>9. f[1..n] = h[n]
    BY <1>1, <1>5, <1>8, FoldIsLoop
  <1>10. \A k \in 1..n : h[k - 1] \in V /\ h[k] = (h[k - 1] + FeeOf[w.uses[k]])
    <2>1. \A k \in 1..n : h[k - 1] \in V
      BY <1>1
    <2> QED BY <1>2, <1>5, <2>1 DEF Loop
  <1>11. h[0] = b
    BY <1>5 DEF Loop
  <1>12. TotalFee(w) = h[n]
    BY <1>1, <1>3, <1>9, Zenon
  <1> QED BY <1>10, <1>11, <1>12 DEF n, V, b

\* A fee is a number.
LEMMA FeeIsNat ==
    ASSUME NEW w, w.uses \in Seq(Usages) PROVE TotalFee(w) \in Nat
  <1>1. PICK h \in [0..Len(w.uses) -> Nat] : TotalFee(w) = h[Len(w.uses)]
    BY FeeLoop
  <1>2. Len(w.uses) \in Nat
    OBVIOUS
  <1> QED BY <1>1, <1>2

UnitsOfUser(u) == {s \in Seq(Usages) : \A k \in DOMAIN s : UserOf[s[k]] = u}

\* Units of a user, one sequence behind the other.
LEMMA UnitsJoin ==
    ASSUME NEW u, NEW a \in UnitsOfUser(u), NEW b \in UnitsOfUser(u) PROVE a \o b \in UnitsOfUser(u)
  <1>1. a \in Seq(Usages) /\ b \in Seq(Usages)
        /\ (\A k \in DOMAIN a : UserOf[a[k]] = u) /\ (\A k \in DOMAIN b : UserOf[b[k]] = u)
    BY DEF UnitsOfUser
  <1>2. a \o b \in Seq(Usages) /\ \A k \in DOMAIN (a \o b) : UserOf[(a \o b)[k]] = u
    BY <1>1
  <1> QED BY <1>2 DEF UnitsOfUser

\* The units of a user's list are put together voucher by voucher.
LEMMA UsesLoop ==
    ASSUME NEW u, NEW vs \in Seq(OfUsers({u}))
    PROVE  \E h \in [0..Len(vs) -> UnitsOfUser(u)] :
              /\ h[0] = <<>>
              /\ \A k \in 1..Len(vs) : h[k] = (h[k - 1] \o vs[k].uses)
              /\ Uses(vs) = h[Len(vs)]
  <1> DEFINE n == Len(vs)   V == UnitsOfUser(u)   b == <<>>
             O == [p \in V \X (1..n) |-> (p[1] \o vs[p[2]].uses)]
             Def(g) == g = [s \in SUBSET DOMAIN vs |->
                               IF s = {} THEN <<>> ELSE (g[s \ {Max(s)}] \o vs[Max(s)].uses)]
             f == CHOOSE g : Def(g)
  <1>1. n \in Nat /\ DOMAIN vs = 1..n /\ b \in V
    BY DEF UnitsOfUser
  <1>2. \A v \in V, k \in 1..n : O[<<v, k>>] = (v \o vs[k].uses) /\ O[<<v, k>>] \in V
    <2>1. ASSUME NEW v \in V, NEW k \in 1..n PROVE (v \o vs[k].uses) \in V
      <3>1. vs[k] \in OfUsers({u})
        OBVIOUS
      <3>2. vs[k].uses \in Seq(Usages) /\ (\A i \in DOMAIN vs[k].uses : UserOf[vs[k].uses[i]] = u)
        BY <3>1 DEF OfUsers, Vouchers, BillsOwn
      <3>3. vs[k].uses \in UnitsOfUser(u)
        BY <3>2 DEF UnitsOfUser
      <3> DEFINE c == vs[k].uses
      <3> HIDE DEF c
      <3>4. v \o c \in V
        BY <3>3, UnitsJoin DEF c
      <3> QED BY <3>4 DEF c
    <2> QED BY <2>1
  <1>3. Uses(vs) = f[DOMAIN vs]
    BY DEF Uses, FoldLeft, MapThenFoldSet
  <1> HIDE DEF n, V, O, b
  <1>4. Turns(O, V, n)
    BY <1>2 DEF Turns
  <1>5. PICK h \in [0..n -> V] : Loop(h, n, b, O)
    BY <1>1, <1>4, LoopExists
  <1>13. PICK it : IsFold(it, n, V, b, O)
    BY <1>1, <1>4, FoldExists
  <1>6. Def(it)
    <2>1. ASSUME NEW s \in SUBSET (1..n), s # {}
          PROVE  it[s] = (it[s \ {Max(s)}] \o vs[Max(s)].uses)
      <3>1. Max(s) \in 1..n /\ it[s \ {Max(s)}] \in V
        BY <1>1, <1>13, <2>1, MaxOfNumbers DEF IsFold
      <3> QED BY <1>2, <1>13, <2>1, <3>1 DEF IsFold
    <2>2. it[{}] = b /\ it = [s \in SUBSET (1..n) |-> it[s]]
      BY <1>13 DEF IsFold
    <2> QED BY <1>1, <2>1, <2>2 DEF b
  <1>7. Def(f)
    BY <1>6, Zenon
  <1> HIDE DEF f
  <1>8. FoldedBy(f, n, V, b, O)
    <2>1. f[{}] = b
      BY <1>7 DEF b
    <2>2. ASSUME NEW s \in SUBSET (1..n), s # {}, f[s \ {Max(s)}] \in V
          PROVE  f[s] = O[<<f[s \ {Max(s)}], Max(s)>>]
      <3>1. Max(s) \in 1..n
        BY <1>1, <2>2, MaxOfNumbers
      <3>2. f[s] = (f[s \ {Max(s)}] \o vs[Max(s)].uses)
        BY <1>1, <1>7, <2>2
      <3> QED BY <1>2, <2>2, <3>1, <3>2
    <2> QED BY <2>1, <2>2 DEF FoldedBy
  <1>9. f[1..n] = h[n]
    BY <1>1, <1>5, <1>8, FoldIsLoop
  <1>10. \A k \in 1..n : h[k - 1] \in V /\ h[k] = (h[k - 1] \o vs[k].uses)
    <2>1. \A k \in 1..n : h[k - 1] \in V
      BY <1>1
    <2> QED BY <1>2, <1>5, <2>1 DEF Loop
  <1>11. h[0] = b
    BY <1>5 DEF Loop
  <1>12. Uses(vs) = h[n]
    BY <1>1, <1>3, <1>9, Zenon
  <1> QED BY <1>10, <1>11, <1>12 DEF n, V, b

\* POST /queue/aggregate leaves vouchers.
LEMMA AggregateTyped ==
    ASSUME NEW q \in Seq(Vouchers), NEW u \in Users PROVE Aggregate(q, u) \in Seq(Vouchers)
  <1> DEFINE mine == QueuedOf(q, u)   n == Len(mine)
  <1>1. mine \in Seq(OfUsers({u})) /\ NotOf(q, u) \in Seq(Vouchers)
    BY EntriesAre DEF QueuedOf, NotOf
  <1> HIDE DEF mine
  <1>2. CASE mine = <<>>
    BY <1>2 DEF Aggregate, mine
  <1>3. CASE mine # <<>>
    <2> DEFINE w == [user |-> u, sandbox |-> NoSandbox, uses |-> Uses(mine), agg |-> TRUE]
    <2>1. PICK h \in [0..n -> UnitsOfUser(u)] :
             h[0] = <<>> /\ (\A k \in 1..n : h[k] = (h[k - 1] \o mine[k].uses)) /\ Uses(mine) = h[n]
      BY <1>1, UsesLoop
    <2>2. n \in 1..n /\ n - 1 \in 0..n /\ n \in 0..n /\ mine[n] \in OfUsers({u})
      BY <1>1, <1>3
    <2>3. h[n] = (h[n - 1] \o mine[n].uses) /\ h[n] \in UnitsOfUser(u) /\ h[n - 1] \in UnitsOfUser(u)
      BY <2>1, <2>2
    <2>4. mine[n].uses \in Seq(Usages) /\ mine[n].uses # <<>>
      BY <2>2 DEF OfUsers, Vouchers, BillsOwn
    <2> DEFINE a == h[n - 1]   b == mine[n].uses
    <2>5. a \in Seq(Usages) /\ b \in Seq(Usages) /\ b # <<>> /\ Uses(mine) = a \o b
      BY <2>1, <2>3, <2>4 DEF UnitsOfUser
    <2> HIDE DEF a, b
    <2>6. Uses(mine) # <<>>
      BY <2>5
    <2>7. Uses(mine) \in Seq(Usages) /\ \A k \in DOMAIN Uses(mine) : UserOf[Uses(mine)[k]] = u
      BY <2>1, <2>3 DEF UnitsOfUser
    <2>8. w \in Vouchers
      BY <2>6, <2>7 DEF Vouchers, BillsOwn, Sandboxes
    <2>9. Aggregate(q, u) = Append(NotOf(q, u), w)
      BY <1>3 DEF Aggregate, mine
    <2> HIDE DEF w
    <2> QED BY <1>1, <2>8, <2>9
  <1> QED BY <1>2, <1>3

-----------------------------------------------------------------------------
(* Signed vouchers; what a batch leaves as held debt. *)

Signed == {v \in [user : Users, sandbox : Sandboxes, uses : Seq(Usages), agg : BOOLEAN, nonce : Nat] : BillsOwn(v)}

\* Signed vouchers bill sequences of units.
LEMMA SignedBill == Bill(Signed)
  BY DEF Bill, Signed

\* A voucher without its nonce bills the same units of the same user.
LEMMA UnsignedIs ==
    ASSUME NEW v \in Signed
    PROVE  Unsigned(v) \in OfUsers({v.user}) /\ Unsigned(v) \in Vouchers /\ \A x : Times(x, Unsigned(v)) = Times(x, v)
  <1>1. Unsigned(v) \in Vouchers
    BY DEF Signed, Vouchers, Unsigned, BillsOwn
  <1>2. Unsigned(v).user = v.user /\ Unsigned(v).uses = v.uses
    BY DEF Unsigned
  <1> QED BY <1>1, <1>2 DEF OfUsers, Times

Places(vs) == [i \in DOMAIN vs |-> i]

IsPush(h, debt, vs, statuses, u) ==
    /\ h \in [0..Len(vs) -> Seq(OfUsers({u}))] /\ h[0] = debt
    /\ \A k \in 1..Len(vs) : h[k] = PushOne(h[k - 1], vs[k], statuses[k], u)
    /\ PushHeld(debt, vs, statuses, u) = h[Len(vs)]

\* The places of a batch, one per voucher.
LEMMA PlacesAre ==
    ASSUME NEW vs \in Seq(Signed)
    PROVE  Len(Places(vs)) = Len(vs) /\ DOMAIN Places(vs) = 1..Len(vs)
           /\ \A k \in 1..Len(vs) : Places(vs)[k] = k /\ vs[k] \in Signed
  BY DEF Places

\* The debt of a user stays the debt of that user.
LEMMA PushedOne ==
    ASSUME NEW u, NEW debt \in Seq(OfUsers({u})), NEW v \in Signed, NEW status
    PROVE  PushOne(debt, v, status, u) \in Seq(OfUsers({u}))
  <1>1. v.user = u => Unsigned(v) \in OfUsers({u})
    BY UnsignedIs
  <1> QED BY <1>1 DEF PushOne

\* Debt is pushed voucher by voucher.
LEMMA PushLoop ==
    ASSUME NEW u, NEW debt \in Seq(OfUsers({u})), NEW vs \in Seq(Signed), NEW statuses
    PROVE  \E h : IsPush(h, debt, vs, statuses, u)
  <1> DEFINE n == Len(Places(vs))   V == Seq(OfUsers({u}))   b == debt
             O == [p \in V \X (1..n) |-> PushOne(p[1], vs[Places(vs)[p[2]]], statuses[Places(vs)[p[2]]], u)]
             Def(g) == g = [s \in SUBSET DOMAIN Places(vs) |->
                               IF s = {} THEN debt
                               ELSE PushOne(g[s \ {Max(s)}], vs[Places(vs)[Max(s)]], statuses[Places(vs)[Max(s)]], u)]
             f == CHOOSE g : Def(g)
  <1>1. n \in Nat /\ DOMAIN Places(vs) = 1..n /\ b \in V
    BY PlacesAre
  <1>2. \A v \in V, k \in 1..n : O[<<v, k>>] = PushOne(v, vs[Places(vs)[k]], statuses[Places(vs)[k]], u) /\ O[<<v, k>>] \in V
    <2>1. ASSUME NEW v \in V, NEW k \in 1..n PROVE PushOne(v, vs[Places(vs)[k]], statuses[Places(vs)[k]], u) \in V
      <3> DEFINE w == vs[Places(vs)[k]]   t == statuses[Places(vs)[k]]
      <3>1. w \in Signed
        BY PlacesAre
      <3> HIDE DEF w, t
      <3>2. PushOne(v, w, t, u) \in V
        BY <3>1, PushedOne
      <3> QED BY <3>2 DEF w, t
    <2> QED BY <2>1
  <1>3. PushHeld(debt, vs, statuses, u) = f[DOMAIN Places(vs)]
    BY DEF PushHeld, Places, FoldLeft, MapThenFoldSet
  <1> HIDE DEF n, V, O, b
  <1>4. Turns(O, V, n)
    BY <1>2 DEF Turns
  <1>5. PICK h \in [0..n -> V] : Loop(h, n, b, O)
    BY <1>1, <1>4, LoopExists
  <1>13. PICK it : IsFold(it, n, V, b, O)
    BY <1>1, <1>4, FoldExists
  <1>6. Def(it)
    <2>1. ASSUME NEW s \in SUBSET (1..n), s # {}
          PROVE  it[s] = PushOne(it[s \ {Max(s)}], vs[Places(vs)[Max(s)]], statuses[Places(vs)[Max(s)]], u)
      <3>1. Max(s) \in 1..n /\ it[s \ {Max(s)}] \in V
        BY <1>1, <1>13, <2>1, MaxOfNumbers DEF IsFold
      <3> QED BY <1>2, <1>13, <2>1, <3>1 DEF IsFold
    <2>2. it[{}] = b /\ it = [s \in SUBSET (1..n) |-> it[s]]
      BY <1>13 DEF IsFold
    <2> QED BY <1>1, <2>1, <2>2 DEF b
  <1>7. Def(f)
    BY <1>6
  <1> HIDE DEF f
  <1>8. FoldedBy(f, n, V, b, O)
    <2>1. f[{}] = b
      BY <1>7 DEF b
    <2>2. ASSUME NEW s \in SUBSET (1..n), s # {}, f[s \ {Max(s)}] \in V
          PROVE  f[s] = O[<<f[s \ {Max(s)}], Max(s)>>]
      <3>1. Max(s) \in 1..n
        BY <1>1, <2>2, MaxOfNumbers
      <3>2. f[s] = PushOne(f[s \ {Max(s)}], vs[Places(vs)[Max(s)]], statuses[Places(vs)[Max(s)]], u)
        BY <1>1, <1>7, <2>2
      <3> QED BY <1>2, <2>2, <3>1, <3>2
    <2> QED BY <2>1, <2>2 DEF FoldedBy
  <1>9. f[1..n] = h[n]
    BY <1>1, <1>5, <1>8, FoldIsLoop
  <1>10. \A k \in 1..n : h[k - 1] \in V /\ h[k] = PushOne(h[k - 1], vs[Places(vs)[k]], statuses[Places(vs)[k]], u)
    <2>1. \A k \in 1..n : h[k - 1] \in V
      BY <1>1
    <2> QED BY <1>2, <1>5, <2>1 DEF Loop
  <1>11. h[0] = b
    BY <1>5 DEF Loop
  <1>12. PushHeld(debt, vs, statuses, u) = h[n]
    BY <1>1, <1>3, <1>9, Zenon
  <1>14. n = Len(vs) /\ \A k \in 1..n : Places(vs)[k] = k
    BY PlacesAre DEF n
  <1>15. ASSUME NEW k \in 1..n PROVE h[k] = PushOne(h[k - 1], vs[k], statuses[k], u)
    BY <1>10, <1>14, Zenon
  <1>16. h \in [0..Len(vs) -> Seq(OfUsers({u}))] /\ h[0] = debt /\ PushHeld(debt, vs, statuses, u) = h[Len(vs)]
    BY <1>11, <1>12, <1>14, Zenon DEF V, b
  <1>17. \A k \in 1..Len(vs) : h[k] = PushOne(h[k - 1], vs[k], statuses[k], u)
    BY <1>14, <1>15, Zenon
  <1>18. IsPush(h, debt, vs, statuses, u)
    BY <1>16, <1>17, Zenon DEF IsPush
  <1> QED BY <1>18

Pushes(vs, statuses, u, x) ==
    [i \in DOMAIN vs |-> IF statuses[i] = "NOT_ACKNOWLEDGED" /\ vs[i].user = u THEN Times(x, vs[i]) ELSE 0]

\* HandleStatuses parks the units of the NOT_ACKNOWLEDGED vouchers of a user and no
\* others; a batch without any parks nothing.
LEMMA PushKeeps ==
    ASSUME NEW u, NEW debt \in Seq(OfUsers({u})), NEW vs \in Seq(Signed), NEW statuses
    PROVE  /\ PushHeld(debt, vs, statuses, u) \in Seq(OfUsers({u}))
           /\ \A x : /\ Weights(Pushes(vs, statuses, u, x), Len(vs))
                     /\ Count(PushHeld(debt, vs, statuses, u), x)
                          = Count(debt, x) + Total(Pushes(vs, statuses, u, x), Len(vs))
           /\ (\A i \in DOMAIN vs : statuses[i] # "NOT_ACKNOWLEDGED") => PushHeld(debt, vs, statuses, u) = debt
  <1> DEFINE n == Len(vs)   B == OfUsers({u})
             na(i) == statuses[i] = "NOT_ACKNOWLEDGED"
             res == PushHeld(debt, vs, statuses, u)
  <1>1. n \in Nat /\ DOMAIN vs = 1..n /\ \A k \in 1..n : vs[k] \in Signed
    OBVIOUS
  <1>3. PICK h : IsPush(h, debt, vs, statuses, u)
    BY PushLoop
  <1>4. h \in [0..n -> Seq(B)] /\ h[0] = debt /\ res = h[n]
    BY <1>3 DEF IsPush
  <1>9. \A k \in 1..n : h[k] = PushOne(h[k - 1], vs[k], statuses[k], u)
    BY <1>3 DEF IsPush
  <1> HIDE DEF n, res, B
  <1>5. ASSUME NEW k \in 1..n
        PROVE  h[k] = (IF na(k) /\ vs[k].user = u THEN Append(h[k - 1], Unsigned(vs[k])) ELSE h[k - 1])
    <2>3. h[k] = PushOne(h[k - 1], vs[k], statuses[k], u)
      BY <1>9
    <2> QED BY <2>3 DEF PushOne
  <1>6. res \in Seq(B) /\ B \in SUBSET Vouchers /\ Bill(B)
    BY <1>1, <1>4, VouchersBill DEF B, OfUsers
  <1>7. ASSUME NEW x
        PROVE  Weights(Pushes(vs, statuses, u, x), n) /\ Count(res, x) = Count(debt, x) + Total(Pushes(vs, statuses, u, x), n)
    <2> DEFINE f == Pushes(vs, statuses, u, x)
    <2>1. \A i \in 1..n : f[i] = (IF na(i) /\ vs[i].user = u THEN Times(x, vs[i]) ELSE 0) /\ Times(x, vs[i]) \in Nat
      BY <1>1, SignedBill, TimesIsNat DEF Pushes, Bill
    <2>2. Weights(f, n)
      BY <2>1 DEF Weights
    <2> HIDE DEF f
    <2> DEFINE T == {k \in 0..n : Count(h[k], x) = Count(debt, x) + Total(f, k)}
    <2>3. 0 \in T
      <3>1. Total(f, 0) = 0 /\ 0 \in 0..n
        BY <1>1, <2>2, TotalIsNat
      <3>2. Count(debt, x) \in Nat
        BY <1>6, CountIsNat DEF B
      <3> QED BY <1>4, <3>1, <3>2
    <2>4. ASSUME NEW k \in 0..(n - 1), k \in T PROVE k + 1 \in T
      <3> DEFINE j == k + 1   v == vs[j]   a == h[k]   t == Total(f, k)
      <3>1. j \in 1..n /\ j - 1 = k /\ j \in 0..n /\ k \in 0..n
        BY <1>1
      <3>2. Total(f, j) = t + f[j] /\ t \in Nat
        <4>1. Total(f, j) = Total(f, j - 1) + f[j] /\ Weights(f, j - 1) /\ j - 1 \in Nat
          BY <1>1, <2>2, <3>1, TotalIsNat
        <4>2. Total(f, j - 1) \in Nat
          BY <4>1, TotalIsNat
        <4> QED BY <3>1, <4>1, <4>2
      <3>3. a \in Seq(B) /\ v \in Signed /\ Count(a, x) = Count(debt, x) + t
        BY <1>1, <1>4, <2>4, <3>1
      <3>4. h[j] = (IF na(j) /\ v.user = u THEN Append(a, Unsigned(v)) ELSE a)
        BY <1>5, <3>1
      <3>5. Count(debt, x) \in Nat /\ Count(a, x) \in Nat /\ Times(x, v) \in Nat
        BY <1>6, <3>3, CountIsNat, SignedBill, TimesIsNat DEF B, Bill
      <3>6. f[j] = (IF na(j) /\ v.user = u THEN Times(x, v) ELSE 0)
        BY <2>1, <3>1
      <3> HIDE DEF j, v, a, t
      <3>7. Count(h[j], x) = Count(debt, x) + Total(f, j)
        <4>1. CASE na(j) /\ v.user = u
          <5>1. Unsigned(v) \in B /\ Times(x, Unsigned(v)) = Times(x, v)
            BY <3>3, <4>1, UnsignedIs DEF B
          <5>2. Count(Append(a, Unsigned(v)), x) = Count(a, x) + Times(x, v)
            <6> DEFINE e == Unsigned(v)
            <6> HIDE DEF e
            <6>1. Count(Append(a, e), x) = Count(a, x) + Times(x, e)
              BY <1>6, <3>3, <5>1, CountOfAppend DEF e
            <6> QED BY <5>1, <6>1 DEF e
          <5>3. h[j] = Append(a, Unsigned(v)) /\ f[j] = Times(x, v)
            BY <3>4, <3>6, <4>1
          <5>4. Count(h[j], x) = Count(a, x) + Times(x, v)
            BY <5>2, <5>3, Zenon
          <5> QED BY <3>2, <3>3, <3>5, <5>3, <5>4
        <4>2. CASE ~(na(j) /\ v.user = u)
          <5>1. h[j] = a /\ f[j] = 0
            BY <3>4, <3>6, <4>2
          <5>2. Count(h[j], x) = Count(a, x)
            BY <5>1, Zenon
          <5> QED BY <3>2, <3>3, <3>5, <5>1, <5>2
        <4> QED BY <4>1, <4>2
      <3> QED BY <3>1, <3>7 DEF j
    <2> HIDE DEF T
    <2>5. n \in T
      BY <1>1, <2>3, <2>4, CountingUp
    <2>6. Count(res, x) = Count(debt, x) + Total(f, n)
      BY <1>4, <2>5, Zenon DEF T
    <2> QED BY <2>2, <2>6 DEF f
  <1>8. ASSUME \A i \in DOMAIN vs : ~na(i) PROVE res = debt
    <2> DEFINE T == {k \in 0..n : h[k] = debt}
    <2>1. 0 \in T
      BY <1>1, <1>4
    <2>2. ASSUME NEW k \in 0..(n - 1), k \in T PROVE k + 1 \in T
      <3> DEFINE j == k + 1
      <3>1. j \in 1..n /\ j - 1 = k /\ j \in 0..n
        BY <1>1
      <3> HIDE DEF j
      <3>2. h[j] = h[k]
        BY <1>1, <1>5, <1>8, <3>1
      <3> QED BY <2>2, <3>1, <3>2 DEF j
    <2> HIDE DEF T
    <2>3. n \in T
      BY <1>1, <2>1, <2>2, CountingUp
    <2> QED BY <1>4, <2>3 DEF T
  <1> QED BY <1>6, <1>7, <1>8 DEF n, res, B

-----------------------------------------------------------------------------
(* A transaction that mines: settleFeesWithTEE. *)

Outcomes == {"NOT_ACKNOWLEDGED", "INVALID_NONCE", "INVALID_SIGNATURE", "SUCCESS", "INSUFFICIENT_BALANCE"}
Accounts == [balance : [Users -> Nat], lastNonce : [Users -> Nat], charged : [Usages -> Nat],
             events : Seq(Outcomes)]
Unsettled == [balance |-> balance, lastNonce |-> lastNonce, charged |-> charged, events |-> <<>>]

\* What one voucher turns the accounts st into.
OneSettled(st, r, v) ==
    /\ r.events = Append(st.events, StatusIn(st, v))
    /\ \A u \in Users : st.lastNonce[u] <= r.lastNonce[u]
    /\ StatusIn(st, v) \in WithEvent =>
          v.nonce <= r.lastNonce[v.user] /\ \A x \in Usages : r.charged[x] = st.charged[x] + Times(x, v)
    /\ StatusIn(st, v) \notin WithEvent =>
          r.charged = st.charged /\ (v.user \in acked => ~active \/ v.nonce <= r.lastNonce[v.user])

\* _settleOne turns accounts into accounts, and into the right ones.
LEMMA SettleOneIs ==
    ASSUME NEW st \in Accounts, NEW v \in Signed
    PROVE  SettleOne(st, v) \in Accounts /\ OneSettled(st, SettleOne(st, v), v)
  <1> DEFINE s == StatusIn(st, v)   u == v.user   fee == TotalFee(v)   r == SettleOne(st, v)
             B == st.balance   N == st.lastNonce   C == st.charged   E == st.events
  <1>1. s \in Outcomes
    BY DEF StatusIn, Outcomes
  <1>2. u \in Users /\ v.nonce \in Nat /\ v.uses \in Seq(Usages)
    BY DEF Signed
  <1>3. fee \in Nat
    BY <1>2, FeeIsNat
  <1>4. B \in [Users -> Nat] /\ N \in [Users -> Nat] /\ C \in [Usages -> Nat] /\ E \in Seq(Outcomes)
    BY DEF Accounts
  <1>5. s = "SUCCESS" => B[u] >= fee
    BY DEF StatusIn
  <1>6. s \in WithEvent => v.nonce > N[u]
    BY <1>2, <1>4 DEF StatusIn, WithEvent
  <1>7. s \notin WithEvent => (u \in acked => ~active \/ v.nonce <= N[u])
    BY DEF StatusIn, WithEvent
  <1>8. \A x : Times(x, v) \in Nat
    BY <1>2, TimesIsNat
  <1>9. CASE s \notin WithEvent
    <2>1. r = [st EXCEPT !.events = Append(E, s)]
      BY <1>9 DEF SettleOne
    <2> HIDE DEF r, s, fee
    <2> DEFINE e == Append(E, s)
    <2>5. e \in Seq(Outcomes)
      BY <1>1, <1>4
    <2> HIDE DEF e
    <2>6. r = [st EXCEPT !.events = e]
      BY <2>1 DEF e
    <2>2. r \in Accounts /\ r.events = Append(E, s) /\ r.lastNonce = N /\ r.charged = C
      <3>1. r \in Accounts /\ r.events = e /\ r.lastNonce = N /\ r.charged = C
        BY <2>5, <2>6 DEF Accounts
      <3> QED BY <3>1 DEF e
    <2>3. \A w \in Users : N[w] <= r.lastNonce[w]
      BY <1>4, <2>2
    <2>4. u \in acked => ~active \/ v.nonce <= r.lastNonce[u]
      BY <1>7, <1>9, <2>2
    <2> QED BY <1>9, <2>2, <2>3, <2>4 DEF OneSettled, r, s
  <1>10. CASE s \in WithEvent
    <2> DEFINE b == [B EXCEPT ![u] = IF s = "SUCCESS" THEN B[u] - fee ELSE 0]
               m == [N EXCEPT ![u] = v.nonce]
               c == [x \in Usages |-> C[x] + Times(x, v)]
    <2>1. r = [balance |-> b, lastNonce |-> m, charged |-> c, events |-> Append(E, s)]
      BY <1>4, <1>10 DEF SettleOne
    <2> HIDE DEF r, s, fee
    <2>2. b \in [Users -> Nat]
      BY <1>2, <1>3, <1>4, <1>5
    <2>3. m \in [Users -> Nat] /\ m[u] = v.nonce /\ \A w \in Users : N[w] <= m[w]
      BY <1>2, <1>4, <1>6, <1>10
    <2>4. c \in [Usages -> Nat] /\ \A x \in Usages : c[x] = C[x] + Times(x, v)
      BY <1>4, <1>8
    <2>5. Append(E, s) \in Seq(Outcomes)
      BY <1>1, <1>4
    <2> HIDE DEF b, m, c
    <2>6. r \in Accounts /\ r.lastNonce = m /\ r.charged = c /\ r.events = Append(E, s)
      BY <2>1, <2>2, <2>3, <2>4, <2>5 DEF Accounts
    <2>7. v.nonce <= r.lastNonce[u]
      BY <1>2, <2>3, <2>6
    <2> QED BY <1>10, <2>3, <2>4, <2>6, <2>7 DEF OneSettled, r, s
  <1> QED BY <1>9, <1>10

IsSettling(h, vs) ==
    /\ h \in [0..Len(vs) -> Accounts] /\ h[0] = Unsettled
    /\ \A k \in 1..Len(vs) : h[k] = SettleOne(h[k - 1], vs[k])
    /\ Settled(vs) = h[Len(vs)]

\* Vouchers settle one after the other.
LEMMA SettledLoop ==
    ASSUME NEW vs \in Seq(Signed), Unsettled \in Accounts
    PROVE  \E h : IsSettling(h, vs)
  <1> DEFINE n == Len(vs)   V == Accounts   b == Unsettled
             O == [p \in V \X (1..n) |-> SettleOne(p[1], vs[p[2]])]
             Def(g) == g = [s \in SUBSET DOMAIN vs |->
                               IF s = {} THEN Unsettled ELSE SettleOne(g[s \ {Max(s)}], vs[Max(s)])]
             f == CHOOSE g : Def(g)
  <1>1. n \in Nat /\ DOMAIN vs = 1..n /\ b \in V
    OBVIOUS
  <1>2. \A v \in V, k \in 1..n : O[<<v, k>>] = SettleOne(v, vs[k]) /\ O[<<v, k>>] \in V
    <2>1. ASSUME NEW v \in V, NEW k \in 1..n PROVE SettleOne(v, vs[k]) \in V
      <3>1. v \in Accounts /\ vs[k] \in Signed
        OBVIOUS
      <3> QED BY <3>1, SettleOneIs
    <2> QED BY <2>1
  <1>3. Settled(vs) = f[DOMAIN vs]
    BY DEF Settled, Unsettled, FoldLeft, MapThenFoldSet
  <1> HIDE DEF n, V, O, b
  <1>4. Turns(O, V, n)
    BY <1>2 DEF Turns
  <1>5. PICK h \in [0..n -> V] : Loop(h, n, b, O)
    BY <1>1, <1>4, LoopExists
  <1>13. PICK it : IsFold(it, n, V, b, O)
    BY <1>1, <1>4, FoldExists
  <1>6. Def(it)
    <2>1. ASSUME NEW s \in SUBSET (1..n), s # {}
          PROVE  it[s] = SettleOne(it[s \ {Max(s)}], vs[Max(s)])
      <3>1. Max(s) \in 1..n /\ it[s \ {Max(s)}] \in V
        BY <1>1, <1>13, <2>1, MaxOfNumbers DEF IsFold
      <3> QED BY <1>2, <1>13, <2>1, <3>1 DEF IsFold
    <2>2. it[{}] = b /\ it = [s \in SUBSET (1..n) |-> it[s]]
      BY <1>13 DEF IsFold
    <2> QED BY <1>1, <2>1, <2>2 DEF b
  <1>7. Def(f)
    BY <1>6
  <1> HIDE DEF f
  <1>8. FoldedBy(f, n, V, b, O)
    <2>1. f[{}] = b
      BY <1>7 DEF b
    <2>2. ASSUME NEW s \in SUBSET (1..n), s # {}, f[s \ {Max(s)}] \in V
          PROVE  f[s] = O[<<f[s \ {Max(s)}], Max(s)>>]
      <3>1. Max(s) \in 1..n
        BY <1>1, <2>2, MaxOfNumbers
      <3>2. f[s] = SettleOne(f[s \ {Max(s)}], vs[Max(s)])
        BY <1>1, <1>7, <2>2
      <3> QED BY <1>2, <2>2, <3>1, <3>2
    <2> QED BY <2>1, <2>2 DEF FoldedBy
  <1>9. f[1..n] = h[n]
    BY <1>1, <1>5, <1>8, FoldIsLoop
  <1>10. \A k \in 1..n : h[k - 1] \in V /\ h[k] = SettleOne(h[k - 1], vs[k])
    <2>1. \A k \in 1..n : h[k - 1] \in V
      BY <1>1
    <2> QED BY <1>2, <1>5, <2>1 DEF Loop
  <1>11. h[0] = b
    BY <1>5 DEF Loop
  <1>12. Settled(vs) = h[n]
    BY <1>1, <1>3, <1>9, Zenon
  <1>14. IsSettling(h, vs)
    BY <1>10, <1>11, <1>12 DEF IsSettling, n, V, b
  <1> QED BY <1>14

\* The units of the vouchers that left no event.
LeftIn(vs, ev, x) == [i \in DOMAIN vs |-> IF ev[i] \in WithEvent THEN 0 ELSE Times(x, vs[i])]

\* r is what a transaction with these vouchers may leave: every voucher has its
\* status, nonces only grow, and every unit is charged unless its voucher left no
\* event.
AllSettled(r, vs) ==
    /\ r \in Accounts /\ Len(r.events) = Len(vs)
    /\ \A u \in Users : lastNonce[u] <= r.lastNonce[u]
    /\ \A i \in 1..Len(vs) :
          /\ r.events[i] \in WithEvent => vs[i].nonce <= r.lastNonce[vs[i].user]
          /\ r.events[i] \notin WithEvent /\ vs[i].user \in acked =>
                ~active \/ vs[i].nonce <= r.lastNonce[vs[i].user]
    /\ \A x \in Usages :
          /\ Weights(LeftIn(vs, r.events, x), Len(vs))
          /\ r.charged[x] + Total(LeftIn(vs, r.events, x), Len(vs)) = charged[x] + Count(vs, x)

\* A transaction charges each unit once for each voucher with an event and leaves the
\* units of the others unpaid.
LEMMA SettledIs ==
    ASSUME NEW vs \in Seq(Signed), Unsettled \in Accounts
    PROVE  AllSettled(Settled(vs), vs)
  <1> DEFINE n == Len(vs)   r == Settled(vs)
  <1>1. n \in Nat /\ DOMAIN vs = 1..n /\ \A k \in 1..n : vs[k] \in Signed
    OBVIOUS
  <1>2. PICK h : IsSettling(h, vs)
    BY SettledLoop
  <1>3. h[0] = Unsettled /\ r = h[n] /\ h \in [0..n -> Accounts]
    BY <1>2 DEF IsSettling
  <1>4. \A k \in 0..n : h[k] \in Accounts
    BY <1>3
  <1>5. \A k \in 1..n : OneSettled(h[k - 1], h[k], vs[k])
    <2>1. ASSUME NEW k \in 1..n PROVE OneSettled(h[k - 1], h[k], vs[k])
      <3> DEFINE a == h[k - 1]   v == vs[k]
      <3>1. a \in Accounts /\ v \in Signed /\ h[k] = SettleOne(a, v)
        BY <1>1, <1>2, <1>4 DEF IsSettling
      <3> HIDE DEF a, v
      <3>2. OneSettled(a, h[k], v)
        BY <3>1, SettleOneIs
      <3> QED BY <3>2 DEF a, v
    <2> QED BY <2>1
  <1> HIDE DEF n, r
  <1> DEFINE s == [k \in 1..n |-> StatusIn(h[k - 1], vs[k])]
             Ev(k) == h[k].events   Ln(k) == h[k].lastNonce
  <1>6. \A k \in 0..n : Ev(k) \in Seq(Outcomes) /\ Ln(k) \in [Users -> Nat]
    BY <1>4 DEF Accounts
  <1>7. \A k \in 1..n : /\ Ev(k) = Append(Ev(k - 1), s[k])
                        /\ \A u \in Users : Ln(k - 1)[u] <= Ln(k)[u]
                        /\ s[k] \in WithEvent => vs[k].nonce <= Ln(k)[vs[k].user]
                        /\ s[k] \notin WithEvent /\ vs[k].user \in acked => ~active \/ vs[k].nonce <= Ln(k)[vs[k].user]
    BY <1>5 DEF OneSettled
  <1>8. Ev(0) = <<>> /\ Ln(0) = lastNonce
    BY <1>3 DEF Unsettled
  <1>9. \A k \in 1..n : vs[k].user \in Users /\ vs[k].nonce \in Nat
    BY <1>1 DEF Signed
  <1>10. lastNonce \in [Users -> Nat]
    BY DEF Unsettled, Accounts
  <1> HIDE DEF s, Ev, Ln
  <1> DEFINE e == [k \in 0..n |-> Ev(k)]   l == [k \in 0..n |-> Ln(k)]
  <1>11. /\ \A k \in 0..n : e[k] \in Seq(Outcomes) /\ l[k] \in [Users -> Nat]
         /\ e[0] = <<>> /\ l[0] = lastNonce
         /\ \A k \in 1..n : /\ e[k] = Append(e[k - 1], s[k])
                            /\ \A u \in Users : l[k - 1][u] <= l[k][u]
                            /\ s[k] \in WithEvent => vs[k].nonce <= l[k][vs[k].user]
                            /\ s[k] \notin WithEvent /\ vs[k].user \in acked => ~active \/ vs[k].nonce <= l[k][vs[k].user]
    <2>1. \A k \in 0..n : e[k] = Ev(k) /\ l[k] = Ln(k)
      OBVIOUS
    <2>2. 0 \in 0..n /\ \A k \in 1..n : k \in 0..n /\ k - 1 \in 0..n
      BY <1>1
    <2> HIDE DEF e, l
    <2>3. e[0] = <<>> /\ l[0] = lastNonce /\ \A k \in 0..n : e[k] \in Seq(Outcomes) /\ l[k] \in [Users -> Nat]
      BY <1>6, <1>8, <2>1, <2>2
    <2>4. ASSUME NEW k \in 1..n
          PROVE  /\ e[k] = Append(e[k - 1], s[k])
                 /\ \A u \in Users : l[k - 1][u] <= l[k][u]
                 /\ s[k] \in WithEvent => vs[k].nonce <= l[k][vs[k].user]
                 /\ s[k] \notin WithEvent /\ vs[k].user \in acked => ~active \/ vs[k].nonce <= l[k][vs[k].user]
      <3>1. e[k] = Ev(k) /\ l[k] = Ln(k) /\ e[k - 1] = Ev(k - 1) /\ l[k - 1] = Ln(k - 1)
        BY <2>1, <2>2
      <3> QED BY <1>7, <3>1
    <2> QED BY <2>3, <2>4
  <1>12. e[n] = r.events /\ l[n] = r.lastNonce
    BY <1>1, <1>3 DEF Ev, Ln
  <1> HIDE DEF e, l
  <1>13. Len(e[n]) = n /\ \A i \in 1..n : e[n][i] = s[i]
    <2> DEFINE T == {k \in 0..n : Len(e[k]) = k /\ \A i \in 1..k : e[k][i] = s[i]}
    <2>1. 0 \in T
      BY <1>1, <1>11
    <2>2. ASSUME NEW k \in 0..(n - 1), k \in T PROVE k + 1 \in T
      <3> DEFINE j == k + 1
      <3>1. j \in 1..n /\ j - 1 = k /\ j \in 0..n /\ k \in 0..n
        BY <1>1
      <3>2. e[j] = Append(e[k], s[j]) /\ e[k] \in Seq(Outcomes) /\ Len(e[k]) = k /\ \A i \in 1..k : e[k][i] = s[i]
        BY <1>11, <2>2, <3>1
      <3>3. Len(e[j]) = j /\ \A i \in 1..j : e[j][i] = s[i]
        BY <3>2
      <3> QED BY <3>1, <3>3
    <2> HIDE DEF T
    <2>3. n \in T
      BY <1>1, <2>1, <2>2, CountingUp
    <2> QED BY <2>3 DEF T
  <1>14. /\ \A u \in Users : lastNonce[u] <= l[n][u]
         /\ \A i \in 1..n : /\ s[i] \in WithEvent => vs[i].nonce <= l[n][vs[i].user]
                            /\ s[i] \notin WithEvent /\ vs[i].user \in acked => ~active \/ vs[i].nonce <= l[n][vs[i].user]
    <2> DEFINE T == {k \in 0..n :
                       /\ \A u \in Users : lastNonce[u] <= l[k][u]
                       /\ \A i \in 1..k :
                            /\ s[i] \in WithEvent => vs[i].nonce <= l[k][vs[i].user]
                            /\ s[i] \notin WithEvent /\ vs[i].user \in acked => ~active \/ vs[i].nonce <= l[k][vs[i].user]}
    <2>1. 0 \in T
      BY <1>1, <1>10, <1>11
    <2>2. ASSUME NEW k \in 0..(n - 1), k \in T PROVE k + 1 \in T
      <3> DEFINE j == k + 1
      <3>1. j \in 1..n /\ j - 1 = k /\ j \in 0..n /\ k \in 0..n /\ \A i \in 1..j : i = j \/ i \in 1..k
        BY <1>1
      <3> HIDE DEF j
      <3>2. l[k] \in [Users -> Nat] /\ l[j] \in [Users -> Nat] /\ \A u \in Users : l[k][u] <= l[j][u]
        BY <1>11, <3>1
      <3>3. \A u \in Users : lastNonce[u] <= l[k][u]
        BY <2>2
      <3>4. \A u \in Users : lastNonce[u] <= l[j][u]
        BY <1>10, <3>2, <3>3
      <3>5. ASSUME NEW i \in 1..j
            PROVE  /\ s[i] \in WithEvent => vs[i].nonce <= l[j][vs[i].user]
                   /\ s[i] \notin WithEvent /\ vs[i].user \in acked => ~active \/ vs[i].nonce <= l[j][vs[i].user]
        <4>1. CASE i = j
          BY <1>11, <3>1, <4>1
        <4>2. CASE i \in 1..k
          <5>1. /\ s[i] \in WithEvent => vs[i].nonce <= l[k][vs[i].user]
                /\ s[i] \notin WithEvent /\ vs[i].user \in acked => ~active \/ vs[i].nonce <= l[k][vs[i].user]
            BY <2>2, <4>2
          <5>2. vs[i].user \in Users /\ vs[i].nonce \in Nat
            BY <1>1, <1>9, <3>1, <4>2
          <5> DEFINE w == vs[i].user   m == vs[i].nonce
          <5> HIDE DEF w, m
          <5>3. l[k][w] <= l[j][w] /\ l[k][w] \in Nat /\ l[j][w] \in Nat /\ m \in Nat
            BY <3>2, <5>2 DEF w, m
          <5>4. m <= l[k][w] => m <= l[j][w]
            BY <5>3
          <5> QED BY <5>1, <5>4 DEF w, m
        <4> QED BY <3>1, <4>1, <4>2
      <3> QED BY <3>1, <3>4, <3>5 DEF j
    <2> HIDE DEF T
    <2>3. n \in T
      BY <1>1, <2>1, <2>2, CountingUp
    <2> QED BY <2>3 DEF T
  <1>15. ASSUME NEW x \in Usages
         PROVE  /\ Weights(LeftIn(vs, r.events, x), n)
                /\ r.charged[x] + Total(LeftIn(vs, r.events, x), n) = charged[x] + Count(vs, x)
    <2> DEFINE f == LeftIn(vs, r.events, x)
    <2>1. \A i \in 1..n : Times(x, vs[i]) \in Nat
      BY <1>1, SignedBill, TimesIsNat DEF Bill
    <2>2. \A i \in 1..n : f[i] = IF s[i] \in WithEvent THEN 0 ELSE Times(x, vs[i])
      BY <1>1, <1>12, <1>13 DEF LeftIn
    <2> HIDE DEF f
    <2>3. Weights(f, n)
      BY <2>1, <2>2 DEF Weights
    <2> DEFINE d == [k \in 0..n |-> h[k].charged[x]]
               c == [k \in 0..n |-> d[k] + Total(f, k)]
    <2>4. \A k \in 0..n : d[k] \in Nat /\ d[k] = h[k].charged[x]
      BY <1>4 DEF Accounts
    <2>5. \A k \in 1..n : d[k] = d[k - 1] + (IF s[k] \in WithEvent THEN Times(x, vs[k]) ELSE 0)
      <3>1. ASSUME NEW k \in 1..n PROVE d[k] = d[k - 1] + (IF s[k] \in WithEvent THEN Times(x, vs[k]) ELSE 0)
        <4>1. k \in 0..n /\ k - 1 \in 0..n
          BY <1>1
        <4>2. OneSettled(h[k - 1], h[k], vs[k]) /\ s[k] = StatusIn(h[k - 1], vs[k])
          BY <1>5 DEF s
        <4>3. d[k] = h[k].charged[x] /\ d[k - 1] = h[k - 1].charged[x] /\ d[k - 1] \in Nat
          BY <2>4, <4>1
        <4> HIDE DEF d
        <4>4. CASE s[k] \in WithEvent
          BY <4>2, <4>3, <4>4 DEF OneSettled
        <4>5. CASE s[k] \notin WithEvent
          <5>1. h[k].charged = h[k - 1].charged
            BY <4>2, <4>5 DEF OneSettled
          <5> QED BY <4>3, <4>5, <5>1
        <4> QED BY <4>4, <4>5
      <3> QED BY <3>1
    <2>6. d[0] = charged[x] /\ charged[x] \in Nat /\ d[n] = r.charged[x]
      BY <1>1, <1>3, <2>4 DEF Unsettled
    <2>7. \A k \in 0..n : c[k] = d[k] + Total(f, k)
      OBVIOUS
    <2> HIDE DEF c, d
    <2>8. c[0] = charged[x]
      BY <1>1, <2>3, <2>6, <2>7, TotalIsNat
    <2>9. ASSUME NEW k \in 1..n PROVE c[k] = c[k - 1] + Times(x, vs[k])
      <3>1. Total(f, k) = Total(f, k - 1) + f[k] /\ Weights(f, k - 1) /\ k - 1 \in Nat /\ k \in 0..n /\ k - 1 \in 0..n
        BY <1>1, <2>3, TotalIsNat
      <3>2. Total(f, k - 1) \in Nat
        BY <3>1, TotalIsNat
      <3> DEFINE t == Total(f, k - 1)   a == d[k - 1]   y == Times(x, vs[k])
      <3>3. t \in Nat /\ a \in Nat /\ y \in Nat /\ Total(f, k) = t + f[k] /\ c[k] = d[k] + Total(f, k) /\ c[k - 1] = a + t
        BY <2>1, <2>4, <2>7, <3>1, <3>2
      <3>4. d[k] = a + (IF s[k] \in WithEvent THEN y ELSE 0) /\ f[k] = IF s[k] \in WithEvent THEN 0 ELSE y
        BY <2>2, <2>5
      <3> HIDE DEF t, a, y
      <3>5. c[k] = c[k - 1] + y
        <4>1. CASE s[k] \in WithEvent
          <5>1. d[k] = a + y /\ f[k] = 0
            BY <3>4, <4>1
          <5> QED BY <3>3, <5>1
        <4>2. CASE s[k] \notin WithEvent
          <5>1. d[k] = a + 0 /\ f[k] = y
            BY <3>4, <4>2
          <5> QED BY <3>3, <5>1
        <4> QED BY <4>1, <4>2
      <3> QED BY <3>5 DEF y
    <2>10. c[n] = charged[x] + Count(vs, x)
      BY <2>6, <2>8, <2>9, SignedBill, CountedInTurn DEF n
    <2>11. n \in 0..n
      BY <1>1
    <2> QED BY <2>3, <2>6, <2>7, <2>10, <2>11 DEF f
  <1>16. r \in Accounts
    BY <1>1, <1>3
  <1>17. AllSettled(r, vs)
    BY <1>12, <1>13, <1>14, <1>15, <1>16 DEF AllSettled, n
  <1> QED BY <1>17 DEF r

-----------------------------------------------------------------------------
(* Signing: nonces from the counter, or from the chain where there is none. *)

Counters == [Users -> Nat \cup {Absent}]

\* No nonce up to this one is handed out any more.
BoundOf(c, ln, u) == IF c[u] = Absent THEN ln[u] ELSE c[u]

\* The vouchers of u among the first k.
Before(vs, u, k) == {j \in 1..k : vs[j].user = u}

\* They are counted one by one.
LEMMA BeforeCounts ==
    ASSUME NEW vs, NEW u, NEW n \in Nat
    PROVE  /\ \A k \in 0..n : IsFiniteSet(Before(vs, u, k)) /\ Cardinality(Before(vs, u, k)) \in Nat
           /\ \A i \in 1..n, k \in 1..n : vs[i].user = u /\ i <= k =>
                 Cardinality(Before(vs, u, i - 1)) + 1 <= Cardinality(Before(vs, u, k))
  <1>1. ASSUME NEW k \in 0..n PROVE IsFiniteSet(Before(vs, u, k)) /\ Cardinality(Before(vs, u, k)) \in Nat
    <2>1. IsFiniteSet(1..k) /\ Before(vs, u, k) \in SUBSET (1..k)
      BY FS_Interval DEF Before
    <2> QED BY <2>1, FS_Subset, FS_CardinalityType
  <1>2. ASSUME NEW i \in 1..n, NEW k \in 1..n, vs[i].user = u, i <= k
        PROVE  Cardinality(Before(vs, u, i - 1)) + 1 <= Cardinality(Before(vs, u, k))
    <2> DEFINE A == Before(vs, u, i - 1)   C == Before(vs, u, k)
    <2>1. i - 1 \in 0..n /\ k \in 0..n
      OBVIOUS
    <2>2. IsFiniteSet(A) /\ IsFiniteSet(C)
      BY <1>1, <2>1
    <2>3. i \notin A /\ A \cup {i} \in SUBSET C
      BY <1>2 DEF Before
    <2> HIDE DEF A, C
    <2>4. Cardinality(A \cup {i}) = Cardinality(A) + 1
      BY <2>2, <2>3, FS_AddElement
    <2>5. Cardinality(A \cup {i}) <= Cardinality(C)
      BY <2>2, <2>3, FS_Subset
    <2> QED BY <2>4, <2>5 DEF A, C
  <1> QED BY <1>1, <1>2

\* ws are the vouchers vs, signed.
WellSigned(ws, vs) ==
    /\ ws \in Seq(Signed) /\ Len(ws) = Len(vs)
    /\ \A x : Count(ws, x) = Count(vs, x)
    /\ \A i \in 1..Len(vs) : ws[i].user = vs[i].user /\ ws[i].nonce > BoundOf(counter, lastNonce, vs[i].user)
    /\ \A i, j \in 1..Len(vs) : i < j /\ vs[i].user = vs[j].user => ws[i].nonce < ws[j].nonce
    /\ \A i \in 1..Len(vs) : ws[i].nonce <= CounterAfter(vs)[vs[i].user] /\ CounterAfter(vs)[vs[i].user] \in Nat

\* The first nonce handed out is the one after the bound.
LEMMA FirstNonceIs ==
    ASSUME counter \in Counters, lastNonce \in [Users -> Nat], NEW u \in Users
    PROVE  FirstNonce(u) \in Nat /\ FirstNonce(u) = BoundOf(counter, lastNonce, u) + 1
           /\ BoundOf(counter, lastNonce, u) \in Nat
  BY DEF FirstNonce, BoundOf, Counters, Absent

\* Signing moves no bound down.
LEMMA CounterGrows ==
    ASSUME counter \in Counters, lastNonce \in [Users -> Nat], NEW vs \in Seq(Vouchers)
    PROVE  /\ CounterAfter(vs) \in Counters
           /\ \A u \in Users : BoundOf(counter, lastNonce, u) <= BoundOf(CounterAfter(vs), lastNonce, u)
  <1> DEFINE n == Len(vs)   c == CounterAfter(vs)
             card(u) == Cardinality(Before(vs, u, n))
  <1>1. n \in Nat /\ DOMAIN vs = 1..n
    OBVIOUS
  <1>2. c = [u \in Users |-> IF card(u) = 0 THEN counter[u] ELSE FirstNonce(u) + card(u) - 1]
    BY <1>1 DEF CounterAfter, Before
  <1> HIDE DEF n, c
  <1>3. \A u : card(u) \in Nat
    <2>1. n \in 0..n
      BY <1>1
    <2> QED BY <1>1, <2>1, BeforeCounts
  <1> HIDE DEF card
  <1>4. ASSUME NEW u \in Users
        PROVE  c[u] \in Nat \cup {Absent} /\ BoundOf(counter, lastNonce, u) <= BoundOf(c, lastNonce, u)
    <2>1. FirstNonce(u) \in Nat /\ FirstNonce(u) = BoundOf(counter, lastNonce, u) + 1 /\ BoundOf(counter, lastNonce, u) \in Nat
      BY FirstNonceIs
    <2>2. CASE card(u) = 0
      <3>1. c[u] = counter[u]
        BY <1>2, <2>2
      <3>2. BoundOf(c, lastNonce, u) = BoundOf(counter, lastNonce, u)
        BY <3>1 DEF BoundOf
      <3> QED BY <2>1, <3>1, <3>2 DEF Counters
    <2>3. CASE card(u) # 0
      <3>1. c[u] = FirstNonce(u) + card(u) - 1
        BY <1>2, <2>3
      <3>2. c[u] \in Nat /\ BoundOf(counter, lastNonce, u) <= c[u]
        BY <1>3, <2>1, <2>3, <3>1
      <3>3. BoundOf(c, lastNonce, u) = c[u]
        BY <3>2 DEF BoundOf, Absent
      <3> QED BY <3>2, <3>3
    <2> QED BY <2>2, <2>3
  <1>5. c \in Counters
    BY <1>2, <1>4 DEF Counters
  <1> QED BY <1>4, <1>5 DEF c

\* Sign hands out rising nonces above the bound and keeps what is billed.
LEMMA SignIs ==
    ASSUME counter \in Counters, lastNonce \in [Users -> Nat], NEW vs \in Seq(Vouchers)
    PROVE  WellSigned(Sign(vs), vs)
  <1> DEFINE n == Len(vs)   ws == Sign(vs)
             place(i) == Cardinality(Before(vs, vs[i].user, i - 1))
  <1>1. n \in Nat /\ DOMAIN vs = 1..n /\ \A i \in 1..n : vs[i] \in Vouchers /\ i - 1 \in 0..n
    OBVIOUS
  <1>2. \A i \in 1..n : vs[i].user \in Users
    BY <1>1 DEF Vouchers
  <1>3. ws = [i \in 1..n |-> [user |-> vs[i].user, sandbox |-> vs[i].sandbox, uses |-> vs[i].uses,
                              agg |-> vs[i].agg, nonce |-> FirstNonce(vs[i].user) + place(i)]]
    BY <1>1 DEF Sign, Before
  <1>4. \A i \in 1..n : place(i) \in Nat
    BY <1>1, BeforeCounts
  <1> HIDE DEF n, ws, place
  <1>5. ASSUME NEW i \in 1..n
        PROVE  /\ ws[i] \in Signed /\ ws[i].user = vs[i].user /\ ws[i].uses = vs[i].uses
               /\ ws[i].nonce = FirstNonce(vs[i].user) + place(i)
    <2> DEFINE m == FirstNonce(vs[i].user) + place(i)
    <2>1. m \in Nat
      BY <1>2, <1>4, FirstNonceIs
    <2>2. ws[i] = [user |-> vs[i].user, sandbox |-> vs[i].sandbox, uses |-> vs[i].uses,
                   agg |-> vs[i].agg, nonce |-> m]
      BY <1>3
    <2> HIDE DEF m
    <2>3. vs[i] \in Vouchers
      BY <1>1
    <2>4. ws[i] \in Signed
      BY <2>1, <2>2, <2>3 DEF Signed, Vouchers, BillsOwn
    <2>5. ws[i].user = vs[i].user /\ ws[i].uses = vs[i].uses /\ ws[i].nonce = m
      BY <2>2
    <2> QED BY <2>4, <2>5 DEF m
  <1>6. ws \in Seq(Signed) /\ Len(ws) = n /\ DOMAIN ws = 1..n
    BY <1>1, <1>3, <1>5
  <1>7. ASSUME NEW x PROVE Count(ws, x) = Count(vs, x)
    <2>1. \A i \in DOMAIN vs : Times(x, ws[i]) = Times(x, vs[i])
      BY <1>1, <1>5 DEF Times
    <2>2. DOMAIN ws = DOMAIN vs
      BY <1>1, <1>6
    <2> QED BY <2>1, <2>2, VouchersBill, CountOfSame
  <1>8. ASSUME NEW i \in 1..n PROVE ws[i].nonce > BoundOf(counter, lastNonce, vs[i].user)
    <2>1. ws[i].nonce = FirstNonce(vs[i].user) + place(i) /\ place(i) \in Nat
      BY <1>4, <1>5
    <2>2. FirstNonce(vs[i].user) = BoundOf(counter, lastNonce, vs[i].user) + 1
          /\ BoundOf(counter, lastNonce, vs[i].user) \in Nat
      BY <1>2, FirstNonceIs
    <2> QED BY <2>1, <2>2
  <1>9. ASSUME NEW i \in 1..n, NEW j \in 1..n, i < j, vs[i].user = vs[j].user PROVE ws[i].nonce < ws[j].nonce
    <2> DEFINE u == vs[i].user
    <2>1. j - 1 \in 1..n /\ i <= j - 1
      BY <1>1, <1>9
    <2>2. Cardinality(Before(vs, u, i - 1)) + 1 <= Cardinality(Before(vs, u, j - 1))
      BY <1>1, <2>1, BeforeCounts
    <2>3. place(i) + 1 <= place(j)
      BY <1>9, <2>2 DEF place
    <2>4. FirstNonce(u) \in Nat
      BY <1>2, FirstNonceIs
    <2>5. ws[i].nonce = FirstNonce(u) + place(i) /\ ws[j].nonce = FirstNonce(u) + place(j)
      BY <1>5, <1>9
    <2>6. place(i) \in Nat /\ place(j) \in Nat
      BY <1>4
    <2> QED BY <2>3, <2>4, <2>5, <2>6
  <1>10. ASSUME NEW i \in 1..n
         PROVE  ws[i].nonce <= CounterAfter(vs)[vs[i].user] /\ CounterAfter(vs)[vs[i].user] \in Nat
    <2> DEFINE u == vs[i].user   card == Cardinality(Before(vs, u, n))
    <2>1. card \in Nat /\ place(i) + 1 <= card
      <3>1. n \in 1..n /\ i <= n /\ n \in 0..n
        BY <1>1
      <3>2. Cardinality(Before(vs, u, i - 1)) + 1 <= card /\ card \in Nat
        BY <1>1, <3>1, BeforeCounts
      <3> QED BY <3>2 DEF place
    <2>2. CounterAfter(vs)[u] = IF card = 0 THEN counter[u] ELSE FirstNonce(u) + card - 1
      BY <1>1, <1>2 DEF CounterAfter, Before
    <2>3. FirstNonce(u) \in Nat
      BY <1>2, FirstNonceIs
    <2>4. ws[i].nonce = FirstNonce(u) + place(i) /\ place(i) \in Nat
      BY <1>4, <1>5
    <2> HIDE DEF u, card
    <2>5. CounterAfter(vs)[u] = FirstNonce(u) + card - 1
      BY <2>1, <2>2, <2>4
    <2>6. ws[i].nonce <= CounterAfter(vs)[u] /\ CounterAfter(vs)[u] \in Nat
      BY <2>1, <2>3, <2>4, <2>5
    <2> QED BY <2>6 DEF u
  <1>11. WellSigned(ws, vs)
    BY <1>5, <1>6, <1>7, <1>8, <1>9, <1>10 DEF WellSigned, n
  <1> QED BY <1>11 DEF ws

-----------------------------------------------------------------------------
(* What goes onto the queue and what a batch takes from it. *)

EntryOf(x) == [user |-> UserOf[x], sandbox |-> SandboxOf[x], uses |-> <<x>>, agg |-> FALSE]

\* It bills its unit once.
LEMMA EntryIs ==
    ASSUME NEW x \in Usages
    PROVE  EntryOf(x) \in Vouchers /\ \A y : Times(y, EntryOf(x)) = IF y = x THEN 1 ELSE 0
  <1> DEFINE s == <<x>>
  <1>1. s \in Seq(Usages) /\ s # <<>> /\ s[1] = x /\ DOMAIN s = {1}
    OBVIOUS
  <1> HIDE DEF s
  <1>2. EntryOf(x) = [user |-> UserOf[x], sandbox |-> SandboxOf[x], uses |-> s, agg |-> FALSE]
    BY DEF EntryOf, s
  <1>3. UserOf[x] \in Users /\ SandboxOf[x] \in Sandboxes
    BY UsageAssumption DEF Sandboxes
  <1>4. EntryOf(x) \in Vouchers /\ EntryOf(x).uses = s
    BY <1>1, <1>2, <1>3 DEF Vouchers, BillsOwn
  <1>5. ASSUME NEW y PROVE Times(y, EntryOf(x)) = IF y = x THEN 1 ELSE 0
    <2>1. Times(y, EntryOf(x)) = Cardinality({k \in {1} : s[k] = y})
      BY <1>1, <1>4 DEF Times
    <2>2. {k \in {1} : s[k] = y} = IF y = x THEN {1} ELSE {}
      BY <1>1
    <2>3. Cardinality({1}) = 1 /\ Cardinality({}) = 0
      BY FS_Singleton, FS_EmptySet
    <2>4. CASE y = x
      BY <2>1, <2>2, <2>3, <2>4
    <2>5. CASE y # x
      BY <2>1, <2>2, <2>3, <2>5
    <2> QED BY <2>4, <2>5
  <1> QED BY <1>4, <1>5

\* An entry pushed back to the head of a list.
LEMMA FrontIs ==
    ASSUME NEW v \in Vouchers, NEW q \in Seq(Vouchers)
    PROVE  /\ <<v>> \o q \in Seq(Vouchers)
           /\ \A x : Count(<<v>> \o q, x) = Times(x, v) + Count(q, x)
  <1> DEFINE p == <<v>>
  <1>1. p \in Seq(Vouchers)
    OBVIOUS
  <1>2. \A x : Count(p, x) = Times(x, v)
    BY CountOfOne DEF Vouchers
  <1> HIDE DEF p
  <1>3. p \o q \in Seq(Vouchers)
    BY <1>1
  <1>4. \A x : Count(p \o q, x) = Count(p, x) + Count(q, x)
    BY <1>1, VouchersBill, CountOfConcat
  <1> QED BY <1>2, <1>3, <1>4 DEF p

\* The entry popped from a list, and the rest.
LEMMA PoppedIs ==
    ASSUME NEW q \in Seq(Vouchers), q # <<>>
    PROVE  /\ Head(q) \in Vouchers /\ Tail(q) \in Seq(Vouchers)
           /\ \A x : Count(q, x) = Times(x, Head(q)) + Count(Tail(q), x)
  <1> DEFINE v == Head(q)   r == Tail(q)
  <1>1. v \in Vouchers /\ r \in Seq(Vouchers) /\ q = <<v>> \o r
    OBVIOUS
  <1> HIDE DEF v, r
  <1>2. \A x : Count(<<v>> \o r, x) = Times(x, v) + Count(r, x)
    BY <1>1, FrontIs
  <1>3. \A x : Count(q, x) = Times(x, v) + Count(r, x)
    BY <1>1, <1>2, Zenon
  <1> QED BY <1>1, <1>3 DEF v, r

\* A batch of the popped entry v and k peeked ones.
Taken(raws, v) ==
    /\ raws \in Seq(Vouchers) /\ Len(raws) \in 1..MaxBatch /\ Len(raws) - 1 <= Len(queue)
    /\ \A x : Count(raws, x) = Times(x, v) + Count(SubSeq(queue, 1, Len(raws) - 1), x)

\* What the peek returns makes such a batch.
LEMMA RawsAre ==
    ASSUME queue \in Seq(Vouchers), NEW v \in Vouchers, NEW raws \in RawItems(v)
    PROVE  Taken(raws, v)
  <1> DEFINE m == Smaller(MaxBatch - 1, Len(queue))   P(k) == SubSeq(queue, 1, k)
  <1>1. MaxBatch \in Nat \ {0} /\ Len(queue) \in Nat
    BY TuningAssumption
  <1>2. m \in 0..Len(queue) /\ m + 1 <= MaxBatch
    BY <1>1 DEF Smaller
  <1>3. raws = <<v>> \o P(m) \/ raws = <<v>>
    BY DEF RawItems, Peeked
  <1> HIDE DEF m
  <1>4. ASSUME NEW k \in 0..Len(queue), k + 1 <= MaxBatch, raws = <<v>> \o P(k) PROVE Taken(raws, v)
    <2> DEFINE p == P(k)
    <2>1. p \in Seq(Vouchers) /\ Len(p) = k
      BY <1>1
    <2> HIDE DEF p
    <2>2. raws = <<v>> \o p
      BY <1>4 DEF p
    <2>3. raws \in Seq(Vouchers) /\ Len(raws) = k + 1
      BY <2>1, <2>2
    <2>4. \A x : Count(<<v>> \o p, x) = Times(x, v) + Count(p, x)
      BY <2>1, FrontIs
    <2>5. Len(raws) - 1 = k /\ Len(raws) \in 1..MaxBatch
      BY <1>1, <1>4, <2>3
    <2>6. SubSeq(queue, 1, Len(raws) - 1) = p
      BY <2>5, Zenon DEF p
    <2>7. ASSUME NEW x PROVE Count(raws, x) = Times(x, v) + Count(SubSeq(queue, 1, Len(raws) - 1), x)
      BY <2>2, <2>4, <2>6, Zenon
    <2> QED BY <1>1, <2>3, <2>5, <2>7 DEF Taken
  <1>5. CASE raws = <<v>> \o P(m)
    BY <1>2, <1>4, <1>5
  <1>6. CASE raws = <<v>>
    <2>1. P(0) = <<>> /\ <<v>> \o <<>> = <<v>>
      OBVIOUS
    <2>2. raws = <<v>> \o P(0)
      BY <1>6, <2>1, Zenon
    <2>3. 0 \in 0..Len(queue) /\ 0 + 1 <= MaxBatch
      BY <1>1
    <2> QED BY <1>4, <2>2, <2>3
  <1> QED BY <1>3, <1>5, <1>6

-----------------------------------------------------------------------------
(* What the statuses of a mined batch change. *)

\* Units of the vouchers with one of these statuses.
WrittenOff(vs, statuses, x) ==
    [i \in DOMAIN vs |-> IF statuses[i] \in {"INVALID_SIGNATURE", "INVALID_NONCE"} THEN Times(x, vs[i]) ELSE 0]

\* A voucher has a unit when it bills it.
LEMMA UnitIsCounted ==
    ASSUME NEW v, v.uses \in Seq(Usages), NEW x
    PROVE  x \in ToSet(v.uses) <=> Times(x, v) >= 1
  <1> DEFINE S == {k \in DOMAIN v.uses : v.uses[k] = x}
  <1>1. x \in ToSet(v.uses) <=> S # {}
    BY DEF ToSet
  <1>2. IsFiniteSet(S)
    BY SpotsFinite DEF Spots
  <1> HIDE DEF S
  <1>3. Cardinality(S) \in Nat /\ (Cardinality(S) = 0 <=> S = {})
    BY <1>2, FS_CardinalityType, FS_EmptySet
  <1>4. Times(x, v) = Cardinality(S)
    BY DEF Times, S
  <1> QED BY <1>1, <1>3, <1>4

\* A list has a unit when it bills it.
LEMMA UnitsAreCounted ==
    ASSUME NEW B, Bill(B), NEW vs \in Seq(B), NEW x
    PROVE  x \in UnitsIn(vs) <=> Count(vs, x) >= 1
  <1> DEFINE n == Len(vs)   f == TimesIn(vs, x)
  <1>1. n \in Nat /\ DOMAIN vs = 1..n /\ \A i \in 1..n : vs[i].uses \in Seq(Usages)
    BY DEF Bill
  <1>2. \A i \in 1..n : f[i] \in Nat /\ f[i] = Times(x, vs[i])
    <2>1. \A i \in DOMAIN vs : f[i] \in Nat /\ f[i] = Times(x, vs[i])
      BY CountIsNat
    <2> QED BY <1>1, <2>1
  <1>3. Count(vs, x) = Total(f, n)
    BY <1>1 DEF Count, Total
  <1> HIDE DEF n, f
  <1>4. Weights(f, n)
    BY <1>2 DEF Weights
  <1>5. ASSUME x \in UnitsIn(vs) PROVE Count(vs, x) >= 1
    <2>1. PICK i \in 1..n : x \in ToSet(vs[i].uses)
      BY <1>1, <1>5 DEF UnitsIn
    <2>2. f[i] >= 1 /\ f[i] \in Nat
      BY <1>1, <1>2, <2>1, UnitIsCounted
    <2>3. f[i] <= Total(f, n) /\ Total(f, n) \in Nat
      BY <1>1, <1>4, TotalIsNat
    <2> QED BY <1>3, <2>2, <2>3
  <1>6. ASSUME x \notin UnitsIn(vs) PROVE ~(Count(vs, x) >= 1)
    <2>1. \A i \in 1..n : x \notin ToSet(vs[i].uses)
      BY <1>1, <1>6 DEF UnitsIn
    <2>2. \A i \in 1..n : f[i] = 0
      BY <1>1, <1>2, <2>1, UnitIsCounted
    <2>3. IsFiniteSet(1..n)
      BY <1>1, FS_Interval
    <2>4. Total(f, n) = 0
      BY <2>2, <2>3, SumOfZeros DEF Total
    <2> QED BY <1>3, <2>4
  <1> QED BY <1>5, <1>6

\* The written-off units are counted too.
LEMMA WrittenOffCounted ==
    ASSUME NEW vs \in Seq(Signed), NEW statuses, NEW x
    PROVE  /\ Weights(WrittenOff(vs, statuses, x), Len(vs))
           /\ (\E i \in DOMAIN vs : statuses[i] \in {"INVALID_SIGNATURE", "INVALID_NONCE"} /\ x \in ToSet(vs[i].uses))
                <=> Total(WrittenOff(vs, statuses, x), Len(vs)) >= 1
  <1> DEFINE n == Len(vs)   f == WrittenOff(vs, statuses, x)
             off(i) == statuses[i] \in {"INVALID_SIGNATURE", "INVALID_NONCE"}
  <1>1. n \in Nat /\ DOMAIN vs = 1..n /\ \A i \in 1..n : vs[i].uses \in Seq(Usages)
    BY DEF Signed
  <1>2. \A i \in 1..n : f[i] = (IF off(i) THEN Times(x, vs[i]) ELSE 0) /\ Times(x, vs[i]) \in Nat
    BY <1>1, TimesIsNat DEF WrittenOff
  <1> HIDE DEF n, f, off
  <1>3. Weights(f, n)
    BY <1>2 DEF Weights
  <1>4. ASSUME NEW i \in 1..n, off(i), x \in ToSet(vs[i].uses) PROVE Total(f, n) >= 1
    <2>1. Times(x, vs[i]) >= 1
      BY <1>1, <1>4, UnitIsCounted
    <2>2. f[i] = Times(x, vs[i]) /\ f[i] \in Nat
      BY <1>2, <1>4
    <2>3. f[i] <= Total(f, n) /\ Total(f, n) \in Nat
      BY <1>1, <1>3, TotalIsNat
    <2> QED BY <2>1, <2>2, <2>3
  <1>5. ASSUME \A i \in 1..n : ~(off(i) /\ x \in ToSet(vs[i].uses)) PROVE Total(f, n) = 0
    <2>1. \A i \in 1..n : x \notin ToSet(vs[i].uses) => Times(x, vs[i]) = 0
      BY <1>1, <1>2, UnitIsCounted
    <2>2. \A i \in 1..n : f[i] = 0
      BY <1>2, <1>5, <2>1
    <2>3. IsFiniteSet(1..n)
      BY <1>1, FS_Interval
    <2> QED BY <2>2, <2>3, SumOfZeros DEF Total
  <1>6. (\E i \in 1..n : off(i) /\ x \in ToSet(vs[i].uses)) <=> Total(f, n) >= 1
    BY <1>4, <1>5
  <1> QED BY <1>1, <1>3, <1>6 DEF n, f, off

-----------------------------------------------------------------------------
(* The types of the state, and what the process and its record agree on. *)

Fates == {"unused", "pool", "mined", "reverted", "replaced"}
Records == [tx : {NoTx} \cup TxIds, vouchers : Seq(Signed), first : Vouchers \cup {<<>>}, consumed : 0..MaxBatch]
Batches == [rec : Records, recovered : BOOLEAN, broke : SUBSET Users]

\* Redis and the history.
StoreTypes ==
    /\ queue \in Seq(Vouchers) /\ held \in HeldLists /\ stops \in SUBSET Sandboxes
    /\ counter \in Counters
    /\ dlq \in SUBSET Usages /\ discarded \in SUBSET Usages /\ emitted \in SUBSET Usages

\* The contract, and the transactions.
ChainTypes ==
    /\ balance \in [Users -> Nat] /\ lastNonce \in [Users -> Nat] /\ charged \in [Usages -> Nat]
    /\ acked \in SUBSET Users /\ active \in BOOLEAN
    /\ fate \in [TxIds -> Fates] /\ txVouchers \in [TxIds -> Seq(Signed)]
    /\ events \in [TxIds -> Seq(Outcomes)]
    /\ \A t \in TxIds : /\ fate[t] = "mined" => Len(events[t]) = Len(txVouchers[t])
                        /\ fate[t] = "unused" => txVouchers[t] = <<>>

\* The process.
ProcessTypes ==
    /\ pc \in {"start", "loop", "popped", "intent", "broadcast", "inflight", "handled", "degraded"}
    /\ dropped \in 0..1 /\ nodeActive \in {"unchecked", "yes", "no"}
    /\ lastBal \in Counters
    /\ record \in Records /\ batch \in Batches

\* A hash names a transaction that carries the vouchers.
RecordAgrees ==
    /\ Recorded => record.first # <<>>
    /\ record.tx # NoTx => /\ Recorded /\ fate[record.tx] # "unused"
                           /\ record.vouchers = txVouchers[record.tx]

\* A batch in hand has its popped entry, its count and, once it is broadcast,
\* the vouchers of its transaction.
HandAgrees ==
    /\ pc \in {"popped", "intent", "broadcast", "inflight", "handled"} => batch.rec.first # <<>>
    /\ pc \in {"intent", "broadcast", "inflight", "handled"} => batch.rec.consumed > 0
    /\ pc \in {"broadcast", "inflight", "handled"} =>
          /\ batch.rec.tx # NoTx /\ fate[batch.rec.tx] # "unused"
          /\ batch.rec.vouchers = txVouchers[batch.rec.tx]

DeskAgrees == RecordAgrees /\ HandAgrees

SettlerTypes == StoreTypes /\ ChainTypes /\ ProcessTypes /\ DeskAgrees

\* The types hold at the start.
LEMMA InitTypes == Init => SettlerTypes
  <1> SUFFICES ASSUME Init PROVE SettlerTypes
    OBVIOUS
  <1>1. StoreTypes
    <2>1. \A B : <<>> \in Seq(B)
      OBVIOUS
    <2>2. held \in HeldLists
      BY <2>1 DEF Init, HeldLists
    <2>3. counter \in Counters
      BY DEF Init, Counters
    <2> QED BY <2>1, <2>2, <2>3 DEF Init, StoreTypes
  <1>2. ChainTypes
    BY TuningAssumption DEF Init, ChainTypes, Fates
  <1>3. NoRecord \in Records
    BY TuningAssumption DEF NoRecord, Records
  <1>4. Idle \in Batches
    BY <1>3 DEF Idle, Batches
  <1>5. ProcessTypes
    BY <1>3, <1>4 DEF Init, ProcessTypes, Counters
  <1>6. DeskAgrees
    BY DEF Init, DeskAgrees, RecordAgrees, HandAgrees, NoRecord, Recorded
  <1> QED BY <1>1, <1>2, <1>5, <1>6 DEF SettlerTypes

\* HandleStatuses leaves vouchers where vouchers belong.
LEMMA HandledTypes ==
    ASSUME StoreTypes, NEW vs \in Seq(Signed), NEW statuses, NEW m \in Nat \ {0},
           HandleStatuses(vs, statuses, m), UNCHANGED emitted
    PROVE  /\ StoreTypes' /\ queue' = SubSeq(queue, m, Len(queue))
           /\ \A u \in Users : held'[u] = PushHeld(held[u], vs, statuses, u)
  <1> USE DEF StoreTypes
  <1> DEFINE q == SubSeq(queue, m, Len(queue))
  <1>1. q \in Seq(Vouchers)
    OBVIOUS
  <1>2. queue' = q
    BY DEF HandleStatuses, PoppedQueue
  <1>3. held' = [u \in Users |-> PushHeld(held[u], vs, statuses, u)]
    BY DEF HandleStatuses
  <1>4. held' \in HeldLists
    <2>1. ASSUME NEW u \in Users PROVE PushHeld(held[u], vs, statuses, u) \in Seq(OfUsers({u}))
      <3>1. held[u] \in Seq(OfUsers({u}))
        BY DEF HeldLists
      <3> QED BY <3>1, PushKeeps
    <2>2. \A u \in Users : PushHeld(held[u], vs, statuses, u) \in Seq(Vouchers)
      <3>1. \A u : OfUsers({u}) \subseteq Vouchers
        BY DEF OfUsers
      <3> QED BY <2>1, <3>1, SeqMonotonic
    <2> QED BY <1>3, <2>1, <2>2 DEF HeldLists
  <1>5. \A i \in DOMAIN vs : ToSet(vs[i].uses) \in SUBSET Usages /\ vs[i].sandbox \in Sandboxes
    <2>1. ASSUME NEW i \in DOMAIN vs PROVE ToSet(vs[i].uses) \in SUBSET Usages /\ vs[i].sandbox \in Sandboxes
      <3>1. vs[i].uses \in Seq(Usages) /\ vs[i].sandbox \in Sandboxes
        BY DEF Signed
      <3> QED BY <3>1 DEF ToSet
    <2> QED BY <2>1
  <1>6. dlq' \in SUBSET Usages /\ discarded' \in SUBSET Usages
    BY <1>5 DEF HandleStatuses
  <1>7. counter' \in Counters
    BY DEF HandleStatuses, Counters
  <1>8. \A u : SandboxesOf(u) \in SUBSET Sandboxes
    BY DEF SandboxesOf, Sandboxes
  <1>9. \A i \in DOMAIN vs : StopsFor(vs[i], statuses[i]) \in SUBSET Sandboxes
    BY <1>5, <1>8 DEF StopsFor
  <1>10. stops' \in SUBSET Sandboxes
    BY <1>9 DEF HandleStatuses
  <1> QED BY <1>1, <1>2, <1>3, <1>4, <1>6, <1>7, <1>10

\* Every step leaves vouchers in Redis.
LEMMA StepStores ==
    ASSUME SettlerTypes, [Next]_vars PROVE StoreTypes'
  <1> USE DEF SettlerTypes, StoreTypes
  <1> USE DEF redisVars, procVars, chainVars, histVars, boundVars
  <1>1. CASE UNCHANGED vars
    BY <1>1 DEF vars
  <1>2. ASSUME NEW x \in Usages, Enqueue(x) PROVE StoreTypes'
    <2>1. EntryOf(x) \in Vouchers /\ queue' = Append(queue, EntryOf(x))
      BY <1>2, EntryIs DEF Enqueue, EntryOf
    <2>2. queue' \in Seq(Vouchers)
      BY <2>1
    <2> QED BY <1>2, <2>2 DEF Enqueue
  <1>3. ASSUME NEW u \in Users, AdminAggregate(u) PROVE StoreTypes'
    <2>1. Aggregate(queue, u) \in Seq(Vouchers)
      BY AggregateTyped
    <2> QED BY <1>3, <2>1 DEF AdminAggregate
  <1>4. CASE StartClean \/ StartResolve \/ ReconcileFailed \/ ForcedSweepThrottled \/ CheckProvider
             \/ SubmitSettleFees \/ SaveTxHash \/ PollFailed \/ PollDroppedOnce \/ Crash
    BY <1>4 DEF StartClean, StartResolve, ReconcileFailed, ForcedSweepThrottled, CheckProvider,
                SubmitSettleFees, SaveTxHash, PollFailed, PollDroppedOnce, Crash
  <1>5. CASE Mine \/ NotMined \/ Rotate \/ \E u \in Users : Deposit(u) \/ Withdraw(u) \/ ChangeAck(u) \/ Compete(u)
    BY <1>5 DEF Mine, NotMined, Rotate, Deposit, Withdraw, ChangeAck, Compete
  <1>6. record.first # <<>> => record.first \in Vouchers
    BY DEF ProcessTypes, Records
  <1>7. batch.rec.first # <<>> => batch.rec.first \in Vouchers
    BY DEF ProcessTypes, Batches, Records
  <1>8. CASE ReconcileIntent
    <2> DEFINE v == record.first
    <2>1. v \in Vouchers
      BY <1>6, <1>8 DEF ReconcileIntent, DeskAgrees, RecordAgrees, HandAgrees
    <2>2. queue' = <<v>> \o queue \/ queue' = queue
      BY <1>8 DEF ReconcileIntent, PushFront
    <2> HIDE DEF v
    <2>3. queue' \in Seq(Vouchers)
      BY <2>1, <2>2, FrontIs
    <2> QED BY <1>8, <2>3 DEF ReconcileIntent
  <1>9. CASE SignFailed \/ SubmitFailed \/ PollReverted \/ PollDropped
    <2> DEFINE v == batch.rec.first
    <2>1. v \in Vouchers
      BY <1>7, <1>9 DEF SignFailed, SubmitFailed, PollReverted, PollDropped, Polling, DeskAgrees, RecordAgrees, HandAgrees
    <2>2. queue' = <<v>> \o queue
      BY <1>9 DEF SignFailed, SubmitFailed, PollReverted, PollDropped, GiveBack, PushFront
    <2>4. CASE SignFailed
      <3>1. PICK raws \in RawItems(v) :
               \E k \in 0..Len(CollapseBySandbox(raws)) : counter' = CounterAfter(SubSeq(CollapseBySandbox(raws), 1, k))
        BY <2>4 DEF SignFailed
      <3> HIDE DEF v
      <3> DEFINE vs == CollapseBySandbox(raws)
      <3>2. raws \in Seq(Vouchers)
        BY <2>1, RawsAre DEF Taken
      <3>3. vs \in Seq(Vouchers)
        BY <3>2, CollapseKeeps
      <3> HIDE DEF vs
      <3>4. PICK k \in 0..Len(vs) : counter' = CounterAfter(SubSeq(vs, 1, k))
        BY <3>1 DEF vs
      <3>5. SubSeq(vs, 1, k) \in Seq(Vouchers)
        BY <3>3
      <3>6. CounterAfter(SubSeq(vs, 1, k)) \in Counters
        BY <3>5, CounterGrows DEF ChainTypes
      <3> QED BY <2>1, <2>2, <2>4, <3>4, <3>6, FrontIs DEF SignFailed
    <2> HIDE DEF v
    <2>3. queue' \in Seq(Vouchers)
      BY <2>1, <2>2, FrontIs
    <2> QED BY <1>9, <2>3, <2>4 DEF SubmitFailed, PollReverted, PollDropped, GiveBack
  <1>10. CASE PeriodicSweep \/ ForcedSweep \/ FinishBatch
    <2>1. PICK S, from, memo : S \in SUBSET Users /\ SweepUsers(S, from, memo)
      <3>1. QueuedUsers(queue) \in SUBSET Users /\ HeldUsers \in SUBSET Users
        BY DEF QueuedUsers, HeldUsers, Vouchers
      <3>2. batch.broke \in SUBSET Users
        BY DEF ProcessTypes, Batches
      <3>3. CASE PeriodicSweep \/ ForcedSweep
        BY <3>1, <3>3 DEF PeriodicSweep, ForcedSweep, MaybeSweep
      <3>4. CASE FinishBatch
        BY <3>2, <3>4 DEF FinishBatch
      <3> QED BY <1>10, <3>3, <3>4
    <2> S \in SUBSET Users
      BY <2>1
    <2>2. queue' \in Seq(Vouchers) /\ held' \in HeldLists /\ stops' \in SUBSET Sandboxes
      BY <2>1, SweepUsersKeeps
    <2> QED BY <1>10, <2>2 DEF PeriodicSweep, ForcedSweep, FinishBatch
  <1>11. CASE BLPop
    <2>1. queue' \in Seq(Vouchers)
      BY <1>11, PoppedIs DEF BLPop
    <2> QED BY <1>11, <2>1 DEF BLPop
  <1>12. CASE SignBatch
    <2> DEFINE v == batch.rec.first
    <2>1. v \in Vouchers
      BY <1>7, <1>12 DEF SignBatch, DeskAgrees, RecordAgrees, HandAgrees
    <2>2. PICK raws \in RawItems(v) : counter' = CounterAfter(CollapseBySandbox(raws))
      BY <1>12 DEF SignBatch
    <2> HIDE DEF v
    <2>3. raws \in Seq(Vouchers)
      BY <2>1, RawsAre DEF Taken
    <2>4. CollapseBySandbox(raws) \in Seq(Vouchers)
      BY <2>3, CollapseKeeps
    <2>5. counter' \in Counters
      BY <2>2, <2>4, CounterGrows DEF ChainTypes
    <2> QED BY <1>12, <2>5 DEF SignBatch
  <1>13. CASE PollMined
    <2> DEFINE vs == batch.rec.vouchers   st == Statuses(batch.rec.tx)   m == batch.rec.consumed
    <2>1. vs \in Seq(Signed) /\ m \in Nat \ {0}
      BY <1>13 DEF PollMined, Polling, DeskAgrees, RecordAgrees, HandAgrees, ProcessTypes, Batches, Records
    <2>2. HandleStatuses(vs, st, m) /\ UNCHANGED emitted
      BY <1>13 DEF PollMined
    <2> HIDE DEF vs, st, m
    <2> QED BY <2>1, <2>2, HandledTypes
  <1> QED BY <1>1, <1>2, <1>3, <1>4, <1>5, <1>8, <1>9, <1>10, <1>11, <1>12, <1>13
          DEF Next, SettlerStep, Environment

\* The least of some transactions.
LEMMA LeastTx ==
    ASSUME NEW S \in SUBSET TxIds, S # {}
    PROVE  \E t \in S : \A s \in S : t <= s
  <1> DEFINE A == {MaxTx + 1 - t : t \in S}
  <1>1. MaxTx \in Nat
    BY BoundsAssumption
  <1>2. A \in SUBSET (1..MaxTx) /\ A # {}
    <2>1. ASSUME NEW t \in S PROVE MaxTx + 1 - t \in 1..MaxTx
      <3>1. t \in 1..MaxTx
        BY DEF TxIds
      <3> QED BY <1>1, <3>1
    <2> QED BY <2>1
  <1> HIDE DEF A
  <1>3. Max(A) \in A /\ \A k \in A : k <= Max(A)
    BY <1>1, <1>2, MaxOfNumbers
  <1>4. PICK t \in S : Max(A) = MaxTx + 1 - t
    BY <1>3 DEF A
  <1>5. ASSUME NEW s \in S PROVE t <= s
    <2>1. MaxTx + 1 - s \in A
      BY DEF A
    <2>2. MaxTx + 1 - s <= MaxTx + 1 - t
      BY <1>3, <1>4, <2>1
    <2> QED BY <1>1, <2>2 DEF TxIds
  <1> QED BY <1>5

\* The next transaction is the first that is unused.
LEMMA NextTxIs ==
    ASSUME Unused # {}
    PROVE  NextTx \in TxIds /\ fate[NextTx] = "unused" /\ \A s \in TxIds : fate[s] = "unused" => NextTx <= s
  <1>1. Unused \in SUBSET TxIds
    BY DEF Unused
  <1>2. \E t \in Unused : \A s \in Unused : t <= s
    BY <1>1, LeastTx
  <1>3. NextTx \in Unused /\ \A s \in Unused : NextTx <= s
    BY <1>2 DEF NextTx
  <1> QED BY <1>3 DEF Unused

\* The next one to mine is in the pool.
LEMMA NextInPoolIs ==
    ASSUME InPool # {} PROVE NextInPool \in TxIds /\ fate[NextInPool] = "pool"
  <1>1. InPool \in SUBSET TxIds
    BY DEF InPool
  <1>2. \E t \in InPool : \A s \in InPool : t <= s
    BY <1>1, LeastTx
  <1>3. NextInPool \in InPool
    BY <1>2 DEF NextInPool
  <1> QED BY <1>3 DEF InPool

\* What a mined transaction leaves.
LEMMA MinedIs ==
    ASSUME ChainTypes, Mine
    PROVE  \E t \in TxIds : \E r :
              /\ fate[t] = "pool" /\ fate' = [fate EXCEPT ![t] = "mined"]
              /\ AllSettled(r, txVouchers[t]) /\ t = NextInPool
              /\ events' = [events EXCEPT ![t] = r.events]
              /\ balance' = r.balance /\ lastNonce' = r.lastNonce /\ charged' = r.charged
              /\ UNCHANGED <<acked, active, txVouchers>>
  <1> DEFINE t == NextInPool   vs == txVouchers[t]   r == Settled(vs)
  <1>1. t \in TxIds /\ fate[t] = "pool"
    BY NextInPoolIs DEF Mine
  <1>2. vs \in Seq(Signed)
    BY <1>1 DEF ChainTypes
  <1>3. Unsettled \in Accounts
    BY DEF Unsettled, Accounts, ChainTypes
  <1> HIDE DEF t
  <1>4. /\ fate' = [fate EXCEPT ![t] = "mined"] /\ events' = [events EXCEPT ![t] = r.events]
        /\ balance' = r.balance /\ lastNonce' = r.lastNonce /\ charged' = r.charged
        /\ UNCHANGED <<acked, active, txVouchers>>
    BY DEF Mine, t
  <1> HIDE DEF vs
  <1>5. AllSettled(r, vs)
    BY <1>2, <1>3, SettledIs
  <1> HIDE DEF r
  <1>6. t = NextInPool
    BY DEF t
  <1> QED BY <1>1, <1>4, <1>5, <1>6 DEF vs

\* Every step leaves the contract and the transactions well typed.
LEMMA StepChain ==
    ASSUME SettlerTypes, [Next]_vars PROVE ChainTypes'
  <1> USE DEF SettlerTypes, ChainTypes
  <1> USE DEF redisVars, procVars, chainVars, histVars, boundVars
  <1>1. CASE UNCHANGED vars
    BY <1>1 DEF vars
  <1>2. CASE UNCHANGED <<chainVars, charged>>
    BY <1>2
  <1>3. CASE (\E x \in Usages : Enqueue(x)) \/ (\E u \in Users : AdminAggregate(u))
    BY <1>2, <1>3 DEF Enqueue, AdminAggregate
  <1>4. CASE StartClean \/ StartResolve \/ ReconcileIntent \/ ReconcileFailed \/ PeriodicSweep \/ ForcedSweep
             \/ ForcedSweepThrottled \/ CheckProvider \/ BLPop \/ SignBatch \/ SignFailed \/ SaveTxHash
             \/ PollFailed \/ PollReverted \/ PollDroppedOnce \/ PollDropped \/ FinishBatch \/ Crash
    <2>1. UNCHANGED <<chainVars, charged>>
      BY <1>4 DEF StartClean, StartResolve, ReconcileIntent, ReconcileFailed, PeriodicSweep, ForcedSweep,
                ForcedSweepThrottled, CheckProvider, BLPop, SignBatch, SignFailed, SaveTxHash, PollFailed,
                PollReverted, PollDroppedOnce, PollDropped, GiveBack, FinishBatch, Crash
    <2> QED BY <1>2, <2>1
  <1>5. CASE PollMined
    <2>1. UNCHANGED <<chainVars, charged>>
      BY <1>5 DEF PollMined
    <2> QED BY <1>2, <2>1
  <1>6. ASSUME Broadcast, UNCHANGED charged PROVE ChainTypes'
    <2> DEFINE t == NextTx   vs == batch.rec.vouchers
    <2>1. t \in TxIds
      BY <1>6, NextTxIs DEF Broadcast
    <2>2. vs \in Seq(Signed)
      BY DEF ProcessTypes, Batches, Records
    <2>3. /\ fate' = [fate EXCEPT ![t] = "pool"] /\ txVouchers' = [txVouchers EXCEPT ![t] = vs]
          /\ UNCHANGED <<balance, lastNonce, acked, active, events, charged>>
      BY <1>6 DEF Broadcast
    <2> HIDE DEF t, vs
    <2>4. fate' \in [TxIds -> Fates] /\ txVouchers' \in [TxIds -> Seq(Signed)]
      BY <2>1, <2>2, <2>3 DEF Fates
    <2>5. ASSUME NEW s \in TxIds
          PROVE  /\ fate'[s] = "mined" => Len(events'[s]) = Len(txVouchers'[s])
                 /\ fate'[s] = "unused" => txVouchers'[s] = <<>>
      <3>1. CASE s = t
        BY <2>1, <2>3, <3>1
      <3>2. CASE s # t
        BY <2>1, <2>3, <3>2
      <3> QED BY <3>1, <3>2
    <2> QED BY <2>3, <2>4, <2>5
  <1>7. CASE SubmitSettleFees
    BY <1>6, <1>7 DEF SubmitSettleFees
  <1>8. CASE SubmitFailed
    <2>1. UNCHANGED charged /\ (UNCHANGED chainVars \/ Broadcast)
      BY <1>8 DEF SubmitFailed
    <2> QED BY <1>2, <1>6, <2>1
  <1>9. CASE Mine
    <2>1. PICK t, r :
              /\ t \in TxIds
              /\ fate[t] = "pool" /\ fate' = [fate EXCEPT ![t] = "mined"]
              /\ AllSettled(r, txVouchers[t])
              /\ events' = [events EXCEPT ![t] = r.events]
              /\ balance' = r.balance /\ lastNonce' = r.lastNonce /\ charged' = r.charged
              /\ UNCHANGED <<acked, active, txVouchers>>
      BY <1>9, MinedIs
    <2> t \in TxIds
      BY <2>1
    <2>2. r \in Accounts /\ Len(r.events) = Len(txVouchers[t])
      BY <2>1 DEF AllSettled
    <2> DEFINE e == r.events
    <2>3. e \in Seq(Outcomes) /\ r.balance \in [Users -> Nat] /\ r.lastNonce \in [Users -> Nat] /\ r.charged \in [Usages -> Nat]
      BY <2>2 DEF Accounts
    <2>4. Len(e) = Len(txVouchers[t]) /\ events' = [events EXCEPT ![t] = e]
      BY <2>1, <2>2
    <2> HIDE DEF e
    <2>5. fate' \in [TxIds -> Fates] /\ events' \in [TxIds -> Seq(Outcomes)]
      BY <2>1, <2>3, <2>4 DEF Fates
    <2>6. ASSUME NEW s \in TxIds
          PROVE  /\ fate'[s] = "mined" => Len(events'[s]) = Len(txVouchers'[s])
                 /\ fate'[s] = "unused" => txVouchers'[s] = <<>>
      <3>1. CASE s = t
        BY <2>1, <2>4, <3>1
      <3>2. CASE s # t
        BY <2>1, <2>4, <3>2
      <3> QED BY <3>1, <3>2
    <2> QED BY <2>1, <2>3, <2>5, <2>6
  <1>10. CASE NotMined
    <2> DEFINE t == NextInPool
    <2>1. t \in TxIds /\ fate[t] = "pool"
      BY <1>10, NextInPoolIs DEF NotMined
    <2>2. /\ fate' = [fate EXCEPT ![t] = "reverted"] \/ fate' = [fate EXCEPT ![t] = "replaced"]
          /\ UNCHANGED <<balance, lastNonce, acked, active, txVouchers, events, charged>>
      BY <1>10 DEF NotMined
    <2> HIDE DEF t
    <2>3. fate' \in [TxIds -> Fates] /\ \A s \in TxIds : fate'[s] = fate[s] \/ fate'[s] \in {"reverted", "replaced"}
      BY <2>1, <2>2 DEF Fates
    <2> QED BY <2>2, <2>3
  <1>11. ASSUME NEW u \in Users, Deposit(u) \/ Withdraw(u) PROVE ChainTypes'
    <2>1. PICK b \in Nat : balance' = [balance EXCEPT ![u] = b]
      <3> DEFINE c == balance[u]
      <3>1. c \in Nat
        OBVIOUS
      <3>2. \/ balance' = [balance EXCEPT ![u] = c + 1]
            \/ c > 0 /\ balance' = [balance EXCEPT ![u] = c - 1]
        BY <1>11 DEF Deposit, Withdraw
      <3> HIDE DEF c
      <3>3. c + 1 \in Nat /\ (c > 0 => c - 1 \in Nat)
        BY <3>1
      <3> QED BY <3>2, <3>3
    <2>2. balance' \in [Users -> Nat]
      BY <2>1
    <2> QED BY <1>11, <2>2 DEF Deposit, Withdraw
  <1>12. ASSUME NEW u \in Users, ChangeAck(u) \/ Compete(u) PROVE ChainTypes'
    BY <1>12 DEF ChangeAck, Compete
  <1>13. CASE Rotate
    BY <1>13 DEF Rotate
  <1> QED BY <1>1, <1>3, <1>4, <1>5, <1>7, <1>8, <1>9, <1>10, <1>11, <1>12, <1>13
          DEF Next, SettlerStep, Environment

\* A transaction that was broadcast keeps its vouchers, and one that was mined
\* its events.
Moved(t) ==
    fate[t] # "unused" =>
        /\ fate'[t] # "unused" /\ txVouchers'[t] = txVouchers[t]
        /\ fate[t] = "mined" => fate'[t] = "mined" /\ events'[t] = events[t]

\* No step takes back a broadcast or what was mined.
LEMMA FatesMove ==
    ASSUME SettlerTypes, [Next]_vars, NEW t \in TxIds PROVE Moved(t)
  <1> USE DEF SettlerTypes, ChainTypes, Moved
  <1> USE DEF redisVars, procVars, chainVars, histVars, boundVars
  <1>1. CASE UNCHANGED <<fate, txVouchers, events>>
    BY <1>1
  <1>2. CASE UNCHANGED vars
    BY <1>1, <1>2 DEF vars
  <1>3. CASE (\E x \in Usages : Enqueue(x)) \/ (\E u \in Users : AdminAggregate(u)) \/ PollMined
    BY <1>1, <1>3 DEF Enqueue, AdminAggregate, PollMined
  <1>4. CASE StartClean \/ StartResolve \/ ReconcileIntent \/ ReconcileFailed \/ PeriodicSweep \/ ForcedSweep
             \/ ForcedSweepThrottled \/ CheckProvider \/ BLPop \/ SignBatch \/ SignFailed \/ SaveTxHash
             \/ PollFailed \/ PollReverted \/ PollDroppedOnce \/ PollDropped \/ FinishBatch \/ Crash
    <2>1. UNCHANGED <<fate, txVouchers, events>>
      BY <1>4 DEF StartClean, StartResolve, ReconcileIntent, ReconcileFailed, PeriodicSweep, ForcedSweep,
                ForcedSweepThrottled, CheckProvider, BLPop, SignBatch, SignFailed, SaveTxHash, PollFailed,
                PollReverted, PollDroppedOnce, PollDropped, GiveBack, FinishBatch, Crash
    <2> QED BY <1>1, <2>1
  <1>5. CASE Rotate \/ \E u \in Users : Deposit(u) \/ Withdraw(u) \/ ChangeAck(u) \/ Compete(u)
    BY <1>1, <1>5 DEF Rotate, Deposit, Withdraw, ChangeAck, Compete
  <1>6. CASE SubmitSettleFees \/ SubmitFailed
    <2>1. UNCHANGED <<fate, txVouchers, events>> \/ Broadcast
      BY <1>6 DEF SubmitSettleFees, SubmitFailed
    <2>2. CASE Broadcast
      <3>1. NextTx \in TxIds /\ fate[NextTx] = "unused"
        BY <2>2, NextTxIs DEF Broadcast
      <3> QED BY <2>2, <3>1 DEF Broadcast
    <2> QED BY <1>1, <2>1, <2>2
  <1>7. CASE Mine
    <2>1. PICK s, r :
              /\ s \in TxIds
              /\ fate[s] = "pool" /\ fate' = [fate EXCEPT ![s] = "mined"]
              /\ events' = [events EXCEPT ![s] = r.events] /\ UNCHANGED txVouchers
      BY <1>7, MinedIs
    <2> s \in TxIds
      BY <2>1
    <2> QED BY <2>1
  <1>8. CASE NotMined
    <2>1. NextInPool \in TxIds /\ fate[NextInPool] = "pool"
      BY <1>8, NextInPoolIs DEF NotMined
    <2> QED BY <1>8, <2>1 DEF NotMined
  <1> QED BY <1>2, <1>3, <1>4, <1>5, <1>6, <1>7, <1>8 DEF Next, SettlerStep, Environment

-----------------------------------------------------------------------------
(* Records and batches, field by field. *)

\* The record that is none.
LEMMA NoRecordIs ==
    NoRecord \in Records /\ NoRecord.tx = NoTx /\ NoRecord.first = <<>> /\ NoRecord.consumed = 0
    /\ NoRecord.vouchers = <<>>
  BY TuningAssumption DEF NoRecord, Records

\* The batch that is none.
LEMMA IdleIs == Idle \in Batches /\ Idle.rec = NoRecord /\ Idle.broke = {}
  BY NoRecordIs DEF Idle, Batches

\* The fields of a record.
LEMMA RecordFields ==
    ASSUME NEW r \in Records
    PROVE  /\ r.tx \in {NoTx} \cup TxIds /\ r.vouchers \in Seq(Signed)
           /\ r.first \in Vouchers \cup {<<>>} /\ r.consumed \in 0..MaxBatch
  BY DEF Records

\* The fields of a batch.
LEMMA BatchFields ==
    ASSUME NEW b \in Batches PROVE b.rec \in Records /\ b.recovered \in BOOLEAN /\ b.broke \in SUBSET Users
  BY DEF Batches

\* b holds the record r.
Holds(b, r) == b \in Batches /\ b.rec = r

\* A batch picked up with its record, from signing or from recovery.
LEMMA BatchOf ==
    ASSUME NEW r \in Records
    PROVE  Holds([Idle EXCEPT !.rec = r], r) /\ Holds([Idle EXCEPT !.rec = r, !.recovered = TRUE], r)
  BY IdleIs DEF Batches, Holds, Idle

\* A batch with another record, or with other users found broke.
LEMMA Rebatched ==
    ASSUME NEW b \in Batches
    PROVE  /\ \A r \in Records : Holds([b EXCEPT !.rec = r], r)
           /\ \A B \in SUBSET Users : Holds([b EXCEPT !.broke = B], b.rec)
  BY DEF Batches, Holds

\* A batch that has popped its first entry and no more.
LEMMA FirstOf ==
    ASSUME NEW v \in Vouchers
    PROVE  [Idle EXCEPT !.rec.first = v] \in Batches /\ [Idle EXCEPT !.rec.first = v].rec.first = v
           /\ [Idle EXCEPT !.rec.first = v].rec.consumed = 0
  BY IdleIs, NoRecordIs DEF Batches, Records, Idle

\* A batch that has got its hash.
LEMMA HashOf ==
    ASSUME NEW b \in Batches, NEW t \in TxIds
    PROVE  /\ [b EXCEPT !.rec.tx = t] \in Batches /\ [b EXCEPT !.rec.tx = t].rec.tx = t
           /\ [b EXCEPT !.rec.tx = t].rec.first = b.rec.first
           /\ [b EXCEPT !.rec.tx = t].rec.vouchers = b.rec.vouchers
           /\ [b EXCEPT !.rec.tx = t].rec.consumed = b.rec.consumed
  BY DEF Batches, Records

\* What SignBatch makes.
LEMMA SignedRecord ==
    ASSUME SettlerTypes, SignBatch
    PROVE  \E raws, ws :
              /\ Taken(raws, batch.rec.first) /\ CollapseBySandbox(raws) \in Seq(Vouchers)
              /\ \A x : Count(CollapseBySandbox(raws), x) = Count(raws, x)
              /\ WellSigned(ws, CollapseBySandbox(raws)) /\ counter' = CounterAfter(CollapseBySandbox(raws))
              /\ Holds(batch', record') /\ record' \in Records
              /\ record'.tx = NoTx /\ record'.vouchers = ws /\ record'.first = batch.rec.first
              /\ record'.consumed = Len(raws)
              /\ batch.rec.first \in Vouchers
  <1> USE DEF SettlerTypes
  <1> DEFINE v == batch.rec.first
  <1>1. v \in Vouchers
    <2>1. v # <<>>
      BY DEF SignBatch, DeskAgrees, HandAgrees
    <2> QED BY <2>1, BatchFields, RecordFields DEF ProcessTypes
  <1>2. PICK raws \in RawItems(v) :
           /\ counter' = CounterAfter(CollapseBySandbox(raws))
           /\ record' = [tx |-> NoTx, vouchers |-> Sign(CollapseBySandbox(raws)), first |-> v, consumed |-> Len(raws)]
    BY DEF SignBatch
  <1> HIDE DEF v
  <1>3. Taken(raws, v)
    BY <1>1, RawsAre DEF StoreTypes
  <1> DEFINE vs == CollapseBySandbox(raws)
  <1>4. vs \in Seq(Vouchers) /\ \A x : Count(vs, x) = Count(raws, x)
    BY <1>3, CollapseKeeps DEF Taken
  <1> DEFINE ws == Sign(vs)   m == Len(raws)
  <1>5. WellSigned(ws, vs)
    BY <1>4, SignIs DEF StoreTypes, ChainTypes
  <1>6. record' = [tx |-> NoTx, vouchers |-> ws, first |-> v, consumed |-> m]
    BY <1>2
  <1>7. ws \in Seq(Signed) /\ m \in 0..MaxBatch
    BY <1>3, <1>5 DEF WellSigned, Taken
  <1>8. counter' = CounterAfter(vs)
    BY <1>2
  <1> HIDE DEF vs, ws, m
  <1>9. record' \in Records /\ record'.tx = NoTx /\ record'.vouchers = ws /\ record'.first = v /\ record'.consumed = m
    BY <1>1, <1>6, <1>7 DEF Records
  <1>10. batch' = [Idle EXCEPT !.rec = record']
    BY DEF SignBatch
  <1>11. Holds(batch', record')
    BY <1>9, <1>10, BatchOf
  <1> QED BY <1>1, <1>3, <1>4, <1>5, <1>8, <1>9, <1>11 DEF v, vs, m

\* Record and batch in hand keep agreeing with the transactions, step by step.
LEMMA StepProcess ==
    ASSUME SettlerTypes, [Next]_vars PROVE ProcessTypes' /\ DeskAgrees'
  <1>0. StoreTypes /\ ChainTypes /\ ProcessTypes /\ RecordAgrees /\ HandAgrees
    BY DEF SettlerTypes, DeskAgrees
  <1>1. /\ record \in Records /\ batch \in Batches /\ batch.rec \in Records /\ batch.broke \in SUBSET Users
        /\ record.tx \in {NoTx} \cup TxIds /\ batch.rec.tx \in {NoTx} \cup TxIds
        /\ record.consumed \in 0..MaxBatch /\ batch.rec.consumed \in 0..MaxBatch
        /\ record.first \in Vouchers \cup {<<>>} /\ batch.rec.first \in Vouchers \cup {<<>>}
    BY <1>0, BatchFields, RecordFields DEF ProcessTypes
  <1>2. \A t \in TxIds : Moved(t)
    BY FatesMove
  <1>3. ASSUME UNCHANGED record PROVE RecordAgrees' /\ record' \in Records
    BY <1>0, <1>1, <1>2, <1>3 DEF RecordAgrees, Recorded, Moved
  <1>4. ASSUME record' = NoRecord PROVE RecordAgrees' /\ record' \in Records
    BY <1>4, NoRecordIs DEF RecordAgrees, Recorded
  <1>5. ASSUME UNCHANGED batch, pc' = pc \/ (pc = "broadcast" /\ pc' = "inflight") \/ pc' \in {"start", "loop", "degraded"}
        PROVE  HandAgrees' /\ batch' \in Batches
    BY <1>0, <1>1, <1>2, <1>5 DEF HandAgrees, Moved
  <1>6. ASSUME batch' = Idle, pc' \in {"start", "loop", "degraded"}
        PROVE  HandAgrees' /\ batch' \in Batches
    BY <1>6, IdleIs DEF HandAgrees
  <1>7. lastBal' \in Counters
    <2>1. CASE UNCHANGED lastBal
      BY <1>0, <2>1 DEF ProcessTypes
    <2>2. ASSUME NEW S, NEW from, NEW memo, SweepUsers(S, from, memo) PROVE lastBal' \in Counters
      BY <1>0, <2>2 DEF SweepUsers, Counters, ProcessTypes, ChainTypes
    <2>3. CASE PeriodicSweep \/ ForcedSweep \/ FinishBatch
      BY <2>2, <2>3 DEF PeriodicSweep, ForcedSweep, FinishBatch, MaybeSweep
    <2>4. CASE Crash
      BY <2>4 DEF Crash, Counters
    <2>5. UNCHANGED lastBal \/ PeriodicSweep \/ ForcedSweep \/ FinishBatch \/ Crash
      BY DEF Next, SettlerStep, Environment, vars, redisVars, procVars, chainVars, histVars, boundVars,
          StartClean, StartResolve, ReconcileIntent, ReconcileFailed, ForcedSweepThrottled, CheckProvider, BLPop,
          SignBatch, SignFailed, SaveTxHash, PollFailed, PollReverted, PollDroppedOnce, PollDropped, GiveBack,
          SubmitSettleFees, SubmitFailed, PollMined, Enqueue, AdminAggregate, Mine, NotMined, Rotate, Deposit,
          Withdraw, ChangeAck, Compete
    <2> QED BY <2>1, <2>3, <2>4, <2>5
  <1>8. dropped' \in 0..1 /\ nodeActive' \in {"unchecked", "yes", "no"}
    <2>1. dropped' = dropped \/ dropped' = 0 \/ dropped' = 1
      BY DEF Next, SettlerStep, Environment, vars, redisVars, procVars, chainVars, histVars, boundVars,
          StartClean, StartResolve, ReconcileIntent, ReconcileFailed, ForcedSweepThrottled, CheckProvider, BLPop,
          SignBatch, SignFailed, SaveTxHash, PollFailed, PollReverted, PollDroppedOnce, PollDropped, GiveBack,
          SubmitSettleFees, SubmitFailed, PollMined, Enqueue, AdminAggregate, Mine, NotMined, Rotate, Deposit,
          Withdraw, ChangeAck, Compete, PeriodicSweep, ForcedSweep, FinishBatch, Crash
    <2>2. nodeActive' \in {nodeActive, "unchecked", "yes", "no"}
      BY DEF Next, SettlerStep, Environment, vars, redisVars, procVars, chainVars, histVars, boundVars, NodeState,
          StartClean, StartResolve, ReconcileIntent, ReconcileFailed, ForcedSweepThrottled, CheckProvider, BLPop,
          SignBatch, SignFailed, SaveTxHash, PollFailed, PollReverted, PollDroppedOnce, PollDropped, GiveBack,
          SubmitSettleFees, SubmitFailed, PollMined, Enqueue, AdminAggregate, Mine, NotMined, Rotate, Deposit,
          Withdraw, ChangeAck, Compete, PeriodicSweep, ForcedSweep, FinishBatch, Crash
    <2> QED BY <1>0, <2>1, <2>2 DEF ProcessTypes
  <1>9. pc' \in {"start", "loop", "popped", "intent", "broadcast", "inflight", "handled", "degraded"}
    BY <1>0 DEF ProcessTypes, Next, SettlerStep, Environment, vars, redisVars, procVars, chainVars, histVars, boundVars,
          StartClean, StartResolve, ReconcileIntent, ReconcileFailed, ForcedSweepThrottled, CheckProvider, BLPop,
          SignBatch, SignFailed, SaveTxHash, PollFailed, PollReverted, PollDroppedOnce, PollDropped, GiveBack,
          SubmitSettleFees, SubmitFailed, PollMined, Enqueue, AdminAggregate, Mine, NotMined, Rotate, Deposit,
          Withdraw, ChangeAck, Compete, PeriodicSweep, ForcedSweep, FinishBatch, Crash
  <1>10. RecordAgrees' /\ HandAgrees' /\ record' \in Records /\ batch' \in Batches
    <2> USE DEF redisVars, procVars, chainVars, histVars, boundVars
    <2>1. CASE UNCHANGED vars
      BY <1>3, <1>5, <2>1 DEF vars
    <2>2. CASE Environment
      <3>1. UNCHANGED <<record, batch, pc>>
        BY <2>2 DEF Environment, Enqueue, AdminAggregate, Mine, NotMined, Rotate, Deposit, Withdraw, ChangeAck, Compete
      <3> QED BY <1>3, <1>5, <3>1
    <2>3. CASE Crash
      BY <1>3, <1>6, <2>3 DEF Crash
    <2>4. CASE StartClean \/ ReconcileFailed \/ PeriodicSweep \/ ForcedSweep \/ ForcedSweepThrottled
               \/ CheckProvider \/ PollFailed \/ PollDroppedOnce
      <3>1. UNCHANGED <<record, batch>> /\ (pc' = pc \/ pc' = "loop")
        BY <2>4 DEF StartClean, ReconcileFailed, PeriodicSweep, ForcedSweep, ForcedSweepThrottled,
              CheckProvider, PollFailed, PollDroppedOnce
      <3> QED BY <1>3, <1>5, <3>1
    <2>5. CASE ReconcileIntent
      BY <1>4, <1>5, <2>5 DEF ReconcileIntent
    <2>6. CASE SignFailed
      BY <1>3, <1>6, <2>6 DEF SignFailed
    <2>7. CASE SubmitFailed \/ PollReverted \/ PollDropped \/ FinishBatch
      BY <1>4, <1>6, <2>7 DEF SubmitFailed, PollReverted, PollDropped, GiveBack, FinishBatch
    <2>8. CASE StartResolve
      <3>1. Holds(batch', record) /\ UNCHANGED record /\ pc' = "inflight"
        BY <1>1, <2>8, BatchOf DEF StartResolve
      <3>2. record.tx # NoTx /\ UNCHANGED <<fate, txVouchers>>
        BY <2>8 DEF StartResolve
      <3>3. record.consumed > 0 /\ record.first # <<>> /\ fate[record.tx] # "unused" /\ record.vouchers = txVouchers[record.tx]
        BY <1>0, <3>2 DEF RecordAgrees, Recorded
      <3>4. HandAgrees'
        BY <3>1, <3>2, <3>3 DEF HandAgrees, Holds
      <3> QED BY <1>3, <3>1, <3>4 DEF Holds
    <2>9. CASE BLPop
      <3> DEFINE v == Head(queue)
      <3>1. v \in Vouchers /\ <<>> \notin Vouchers
        BY <1>0, <2>9, PoppedIs DEF BLPop, StoreTypes, Vouchers
      <3>2. batch' = [Idle EXCEPT !.rec.first = v] /\ UNCHANGED record /\ pc' = "popped"
        BY <2>9 DEF BLPop
      <3> HIDE DEF v
      <3>3. batch' \in Batches /\ batch'.rec.first = v
        BY <3>1, <3>2, FirstOf
      <3> QED BY <1>3, <3>1, <3>2, <3>3 DEF HandAgrees
    <2>10. CASE SignBatch
      <3>1. PICK raws, ws :
               /\ Taken(raws, batch.rec.first) /\ Holds(batch', record') /\ record' \in Records
               /\ record'.tx = NoTx /\ record'.first = batch.rec.first /\ record'.consumed = Len(raws)
               /\ batch.rec.first \in Vouchers
        BY <2>10, SignedRecord
      <3>2. batch'.rec = record' /\ batch' \in Batches /\ pc' = "intent"
        BY <2>10, <3>1 DEF SignBatch, Holds
      <3>3. Len(raws) > 0
        BY <3>1 DEF Taken
      <3>4. batch.rec.first # <<>>
        <4>1. <<>> \notin Vouchers
          BY DEF Vouchers
        <4> QED BY <3>1, <4>1
      <3>5. record'.consumed > 0 /\ record'.first # <<>>
        BY <3>1, <3>3, <3>4
      <3> QED BY <3>1, <3>2, <3>5 DEF RecordAgrees, HandAgrees, Recorded
    <2>11. CASE SubmitSettleFees
      <3> DEFINE t == NextTx
      <3>1. t \in TxIds
        BY <2>11, NextTxIs DEF SubmitSettleFees, Broadcast
      <3>2. /\ batch' = [batch EXCEPT !.rec.tx = t] /\ UNCHANGED record /\ pc' = "broadcast" /\ pc = "intent"
            /\ fate' = [fate EXCEPT ![t] = "pool"] /\ txVouchers' = [txVouchers EXCEPT ![t] = batch.rec.vouchers]
        BY <2>11 DEF SubmitSettleFees, Broadcast
      <3> HIDE DEF t
      <3>3. /\ batch' \in Batches /\ batch'.rec.tx = t /\ batch'.rec.first = batch.rec.first
            /\ batch'.rec.vouchers = batch.rec.vouchers /\ batch'.rec.consumed = batch.rec.consumed
        BY <1>1, <3>1, <3>2, HashOf
      <3>4. fate'[t] = "pool" /\ txVouchers'[t] = batch.rec.vouchers
        BY <1>0, <3>1, <3>2 DEF ChainTypes
      <3>5. t # NoTx
        BY <3>1 DEF TxIds, NoTx
      <3> QED BY <1>0, <1>3, <3>2, <3>3, <3>4, <3>5 DEF HandAgrees
    <2>12. CASE SaveTxHash
      <3>1. /\ batch' = [batch EXCEPT !.rec = batch.rec] /\ (record' = batch.rec \/ UNCHANGED record)
            /\ pc = "broadcast" /\ pc' = "inflight" /\ UNCHANGED <<fate, txVouchers>>
        BY <2>12 DEF SaveTxHash, BroadcastRecord
      <3>2. Holds(batch', batch.rec)
        BY <1>1, <3>1, Rebatched
      <3>3. HandAgrees' /\ batch' \in Batches
        BY <1>0, <3>1, <3>2 DEF HandAgrees, Holds
      <3>4. record' = batch.rec => RecordAgrees' /\ record' \in Records
        BY <1>0, <1>1, <3>1 DEF RecordAgrees, HandAgrees, Recorded
      <3> QED BY <1>3, <3>1, <3>3, <3>4
    <2>13. CASE PollMined
      <3> DEFINE B == {batch.rec.vouchers[i].user :
                        i \in {j \in DOMAIN Statuses(batch.rec.tx) : /\ ~batch.recovered
                                                        /\ Statuses(batch.rec.tx)[j] = "INSUFFICIENT_BALANCE"}}
      <3>1. batch' = [batch EXCEPT !.broke = B] /\ UNCHANGED <<record, fate, txVouchers>> /\ pc = "inflight" /\ pc' = "handled"
        BY <2>13 DEF PollMined, Polling
      <3>2. B \in SUBSET Users
        <4>1. batch.rec.vouchers = txVouchers[batch.rec.tx] /\ batch.rec.vouchers \in Seq(Signed)
          BY <1>0, <1>1, <3>1, RecordFields DEF HandAgrees
        <4>2. DOMAIN Statuses(batch.rec.tx) = DOMAIN batch.rec.vouchers
          BY <4>1 DEF Statuses
        <4>3. \A i \in DOMAIN batch.rec.vouchers : batch.rec.vouchers[i].user \in Users
          BY <4>1 DEF Signed
        <4> QED BY <4>2, <4>3
      <3> HIDE DEF B
      <3>3. Holds(batch', batch.rec)
        BY <1>1, <3>1, <3>2, Rebatched
      <3> QED BY <1>0, <1>3, <3>1, <3>3 DEF HandAgrees, Holds
    <2> QED BY <2>1, <2>2, <2>3, <2>4, <2>5, <2>6, <2>7, <2>8, <2>9, <2>10, <2>11, <2>12, <2>13
            DEF Next, SettlerStep
  <1> QED BY <1>7, <1>8, <1>9, <1>10 DEF ProcessTypes, DeskAgrees

\* Every step preserves the types.
LEMMA StepTypes ==
    ASSUME SettlerTypes, [Next]_vars PROVE SettlerTypes'
  BY StepStores, StepChain, StepProcess DEF SettlerTypes

\* They imply the type invariant of the runs.
LEMMA TypesSay == SettlerTypes => TypeOK
  <1> SUFFICES ASSUME SettlerTypes PROVE TypeOK
    OBVIOUS
  <1>0. StoreTypes /\ ChainTypes /\ ProcessTypes
    BY DEF SettlerTypes
  <1>1. \A v : v \in Vouchers \/ v \in Signed => IsVoucher(v)
    <2>1. ASSUME NEW v, v \in Vouchers \/ v \in Signed PROVE IsVoucher(v)
      <3>1. v.user \in Users /\ v.uses \in Seq(Usages) /\ v.uses # <<>>
        BY <2>1 DEF Vouchers, Signed, BillsOwn
      <3>2. Len(v.uses) > 0 /\ ToSet(v.uses) \subseteq Usages
        BY <3>1 DEF ToSet
      <3> QED BY <3>1, <3>2 DEF IsVoucher
    <2> QED BY <2>1
  <1>2. \A q : q \in Seq(Vouchers) \/ q \in Seq(Signed) => IsBacklog(q)
    BY <1>1 DEF IsBacklog
  <1>3. IsBacklog(queue)
    BY <1>0, <1>2 DEF StoreTypes
  <1>4. ASSUME NEW u \in Users PROVE IsBacklog(held[u]) /\ \A i \in DOMAIN held[u] : held[u][i].user = u
    <2>1. held[u] \in Seq(Vouchers) /\ held[u] \in Seq(OfUsers({u}))
      BY <1>0 DEF StoreTypes, HeldLists
    <2>2. \A i \in DOMAIN held[u] : held[u][i] \in OfUsers({u})
      BY <2>1
    <2> QED BY <1>2, <2>1, <2>2 DEF OfUsers
  <1>5. record.tx \in {NoTx} \cup TxIds /\ IsBacklog(record.vouchers) /\ record.consumed \in 0..MaxBatch
    BY <1>0, <1>2, RecordFields DEF ProcessTypes
  <1> QED BY <1>0, <1>3, <1>4, <1>5 DEF TypeOK, StoreTypes, ChainTypes, ProcessTypes, Counters

\* Without acknowledgements changing hands everyone stays acknowledged.
LEMMA StepAcked ==
    ASSUME "ack" \notin Faults, acked = Users, [Next]_vars PROVE acked' = Users
  BY DEF Next, SettlerStep, Environment, vars, redisVars, procVars, chainVars, histVars, boundVars,
          StartClean, StartResolve, ReconcileIntent, ReconcileFailed, ForcedSweepThrottled, CheckProvider, BLPop,
          SignBatch, SignFailed, SaveTxHash, PollFailed, PollReverted, PollDroppedOnce, PollDropped, GiveBack,
          SubmitSettleFees, SubmitFailed, Broadcast, PollMined, Enqueue, AdminAggregate, Mine, NotMined, Rotate, Deposit,
          Withdraw, ChangeAck, Compete, PeriodicSweep, ForcedSweep, FinishBatch, Crash

\* A mined voucher of an acknowledged user is never previewed NOT_ACKNOWLEDGED.
LEMMA NoneUnacknowledged ==
    ASSUME ChainTypes, acked = Users, NEW t \in TxIds, NEW i \in DOMAIN txVouchers[t]
    PROVE  Statuses(t)[i] # "NOT_ACKNOWLEDGED"
  <1>1. txVouchers[t][i].user \in Users
    <2>1. txVouchers[t][i] \in Signed
      BY DEF ChainTypes
    <2> QED BY <2>1 DEF Signed
  <1>2. Statuses(t)[i] = IF events[t][i] \in WithEvent THEN events[t][i] ELSE StatusIn(Now, txVouchers[t][i])
    BY DEF Statuses
  <1>3. StatusIn(Now, txVouchers[t][i]) # "NOT_ACKNOWLEDGED"
    BY <1>1 DEF StatusIn
  <1> QED BY <1>2, <1>3 DEF WithEvent

\* Held debt grows by a sweep only then, and the sweep writes the stops with it.
LEMMA StepStopped ==
    ASSUME SettlerTypes, acked = Users, HeldIsStopped, [Next]_vars PROVE HeldIsStopped'
  <1>0. StoreTypes /\ ChainTypes /\ ProcessTypes /\ RecordAgrees /\ HandAgrees
    BY DEF SettlerTypes, DeskAgrees
  <1>1. ASSUME UNCHANGED <<held, stops>> PROVE HeldIsStopped'
    BY <1>1 DEF HeldIsStopped
  <1>2. ASSUME NEW S \in SUBSET Users, NEW from, NEW memo, SweepUsers(S, from, memo) PROVE HeldIsStopped'
    BY <1>0, <1>2, SweepUsersKeeps DEF StoreTypes
  <1>3. CASE PeriodicSweep \/ ForcedSweep
    <2>1. QueuedUsers(queue) \in SUBSET Users /\ HeldUsers \in SUBSET Users
      BY <1>0 DEF QueuedUsers, HeldUsers, Vouchers, StoreTypes
    <2> QED BY <1>2, <1>3, <2>1 DEF PeriodicSweep, ForcedSweep, MaybeSweep
  <1>4. CASE FinishBatch
    <2>1. batch.broke \in SUBSET Users
      BY <1>0, BatchFields DEF ProcessTypes
    <2> QED BY <1>2, <1>4, <2>1 DEF FinishBatch
  <1>5. CASE PollMined
    <2> DEFINE vs == batch.rec.vouchers   st == Statuses(batch.rec.tx)   m == batch.rec.consumed
    <2>0. pc = "inflight" /\ batch.rec \in Records
      BY <1>0, <1>5, BatchFields DEF PollMined, Polling, ProcessTypes
    <2>1. batch.rec.tx \in TxIds /\ vs = txVouchers[batch.rec.tx] /\ vs \in Seq(Signed)
      BY <1>0, <2>0, RecordFields DEF HandAgrees
    <2>2. \A i \in DOMAIN vs : st[i] # "NOT_ACKNOWLEDGED"
      BY <1>0, <2>1, NoneUnacknowledged
    <2>3. HandleStatuses(vs, st, m)
      BY <1>5 DEF PollMined
    <2> HIDE DEF vs, st, m
    <2>4. \A u \in Users : PushHeld(held[u], vs, st, u) = held[u]
      <3>1. ASSUME NEW u \in Users PROVE PushHeld(held[u], vs, st, u) = held[u]
        <4>1. held[u] \in Seq(OfUsers({u}))
          BY <1>0 DEF StoreTypes, HeldLists
        <4> DEFINE debt == held[u]
        <4>2. debt \in Seq(OfUsers({u})) /\ vs \in Seq(Signed)
          BY <2>1, <4>1
        <4> HIDE DEF debt
        <4>3. PushHeld(debt, vs, st, u) = debt
          BY <2>2, <4>2, PushKeeps
        <4> QED BY <4>3 DEF debt
      <3> QED BY <3>1
    <2>5. \A u \in Users : held'[u] = held[u]
      BY <2>3, <2>4 DEF HandleStatuses
    <2>6. stops \subseteq stops'
      BY <2>3 DEF HandleStatuses
    <2> QED BY <2>5, <2>6 DEF HeldIsStopped
  <1>6. UNCHANGED <<held, stops>> \/ PeriodicSweep \/ ForcedSweep \/ FinishBatch \/ PollMined
    BY DEF Next, SettlerStep, Environment, vars, redisVars, procVars, chainVars, histVars, boundVars,
          StartClean, StartResolve, ReconcileIntent, ReconcileFailed, ForcedSweepThrottled, CheckProvider, BLPop,
          SignBatch, SignFailed, SaveTxHash, PollFailed, PollReverted, PollDroppedOnce, PollDropped, GiveBack,
          SubmitSettleFees, SubmitFailed, Enqueue, AdminAggregate, Mine, NotMined, Rotate, Deposit,
          Withdraw, ChangeAck, Compete, Crash
  <1> QED BY <1>1, <1>3, <1>4, <1>5, <1>6

\* The types of the settler hold under every fault and every crash: Redis holds
\* billed vouchers, held debt is kept under its own user, and the pending-tx record and
\* the batch in the loop are what their fields say (Run, resolvePendingTx).
THEOREM SettlerTypeOK == Spec => []TypeOK
  <1>1. SettlerTypes /\ [Next]_vars => SettlerTypes'
    BY StepTypes
  <1> QED BY <1>1, InitTypes, TypesSay, PTL DEF Spec

\* Debt that sweepUserBacklog parks for a user always comes with the stop of its
\* sandboxes, whatever crashes, faults and interleavings there are, as long as no user
\* withdraws its acknowledgement (HandleStatuses parks the aggregated vouchers of
\* such a user without a stop).
THEOREM DebtIsStopped ==
    ASSUME "ack" \notin Faults PROVE Spec => []HeldIsStopped
  <1> DEFINE I == SettlerTypes /\ acked = Users /\ HeldIsStopped
  <1>1. Init => I
    <2>1. Init => HeldIsStopped
      BY DEF Init, HeldIsStopped, HeldSandboxIDs
    <2> QED BY <2>1, InitTypes DEF Init
  <1>2. I /\ [Next]_vars => I'
    BY StepTypes, StepAcked, StepStopped
  <1> QED BY <1>1, <1>2, PTL DEF Spec

-----------------------------------------------------------------------------
(* Nonces. *)

\* Turned down without an event.
Exempt(t, i) == fate[t] = "mined" /\ events[t][i] \notin WithEvent
UserIn(t, i) == txVouchers[t][i].user
NonceIn(t, i) == txVouchers[t][i].nonce
Bound(u) == BoundOf(counter, lastNonce, u)

\* Transactions are used in the order of their numbers.
UsedInOrder == \A s, t \in TxIds : s < t /\ fate[s] = "unused" => fate[t] = "unused"
\* A nonce that is out is not handed out again, and one that settled is behind the
\* contract's.
UpToBound(t, i) == Exempt(t, i) \/ NonceIn(t, i) <= Bound(UserIn(t, i))
SettledBehind(t, i) ==
    fate[t] = "mined" /\ events[t][i] \in WithEvent => NonceIn(t, i) <= lastNonce[UserIn(t, i)]
ChainNonces ==
    /\ UsedInOrder /\ NoncesIncrease
    /\ \A t \in TxIds : \A i \in DOMAIN txVouchers[t] : UpToBound(t, i) /\ SettledBehind(t, i)

\* A signed voucher is above every voucher of its user that is out.
Above(w) ==
    \A t \in TxIds : \A i \in DOMAIN txVouchers[t] :
        UserIn(t, i) = w.user => Exempt(t, i) \/ NonceIn(t, i) < w.nonce
InOrder(ws) ==
    \A i, j \in DOMAIN ws : i < j /\ ws[i].user = ws[j].user => ws[i].nonce < ws[j].nonce
HandNonces ==
    pc = "intent" =>
        /\ InOrder(batch.rec.vouchers)
        /\ \A j \in DOMAIN batch.rec.vouchers :
              /\ Above(batch.rec.vouchers[j])
              /\ batch.rec.vouchers[j].nonce <= Bound(batch.rec.vouchers[j].user)

\* The transaction at hand is the latest.
LatestTx(t) == \A s \in TxIds : fate[s] # "unused" => s <= t
DeskLatest ==
    /\ record.tx # NoTx => LatestTx(record.tx)
    /\ pc \in {"broadcast", "inflight", "handled"} => LatestTx(batch.rec.tx)
    /\ pc \in {"intent", "broadcast"} => record.tx = NoTx

Nonces == ChainNonces /\ HandNonces /\ DeskLatest

\* Nothing is signed at the start.
LEMMA InitNonces == Init => Nonces
  <1> SUFFICES ASSUME Init PROVE Nonces
    OBVIOUS
  <1>1. \A t \in TxIds : txVouchers[t] = <<>> /\ fate[t] = "unused" /\ DOMAIN txVouchers[t] = {}
    BY DEF Init
  <1>2. ChainNonces
    BY <1>1 DEF ChainNonces, UsedInOrder, NoncesIncrease
  <1>3. HandNonces /\ DeskLatest
    BY NoRecordIs DEF Init, HandNonces, DeskLatest
  <1> QED BY <1>2, <1>3 DEF Nonces

\* The user and the nonce of a voucher that is out.
LEMMA NonceTypes ==
    ASSUME ChainTypes, NEW t \in TxIds, NEW i \in DOMAIN txVouchers[t]
    PROVE  UserIn(t, i) \in Users /\ NonceIn(t, i) \in Nat /\ fate[t] # "unused"
  <1>1. txVouchers[t][i] \in Signed
    BY DEF ChainTypes
  <1>2. fate[t] # "unused"
    BY DEF ChainTypes
  <1> QED BY <1>1, <1>2 DEF Signed, UserIn, NonceIn

\* The bound of a user is a number.
LEMMA BoundIs ==
    ASSUME SettlerTypes, NEW u \in Users
    PROVE  Bound(u) \in Nat /\ lastNonce[u] \in Nat /\ lastNonce \in [Users -> Nat]
  BY FirstNonceIs DEF SettlerTypes, StoreTypes, ChainTypes, Bound

\* Some transaction may be mined; the next nonce to hand out, and the contract's,
\* do not go down.
GrowTo(c, l) ==
    /\ c \in Counters /\ l \in [Users -> Nat] /\ counter' = c /\ lastNonce' = l
    /\ \A u \in Users : Bound(u) <= BoundOf(c, l, u) /\ lastNonce[u] <= l[u]
    /\ UNCHANGED txVouchers
    /\ \A t \in TxIds :
          /\ fate'[t] = "unused" <=> fate[t] = "unused"
          /\ fate[t] = "mined" => fate'[t] = "mined" /\ events'[t] = events[t]
          /\ fate[t] # "mined" /\ fate'[t] = "mined" =>
                \A i \in DOMAIN txVouchers[t] : events'[t][i] \in WithEvent => NonceIn(t, i) <= l[UserIn(t, i)]

\* Such a step keeps what is known of the nonces that are out.
LEMMA GrowKeeps ==
    ASSUME SettlerTypes, NEW c, NEW l, GrowTo(c, l), ChainNonces
    PROVE  ChainNonces' /\ \A w : Above(w) => Above(w)'
  <1>0. ChainTypes
    BY DEF SettlerTypes
  <1>1. \A t \in TxIds : fate[t] = "mined" => fate'[t] = "mined" /\ events'[t] = events[t]
    BY DEF GrowTo
  <1>2. UNCHANGED txVouchers /\ counter' = c /\ lastNonce' = l
    BY DEF GrowTo
  <1>3. UsedInOrder'
    <2>1. \A t \in TxIds : fate'[t] = "unused" <=> fate[t] = "unused"
      BY DEF GrowTo
    <2> QED BY <2>1 DEF UsedInOrder, ChainNonces
  <1>4. NoncesIncrease'
    BY <1>1, <1>2 DEF ChainNonces, NoncesIncrease
  <1>5. ASSUME NEW t \in TxIds, NEW i \in DOMAIN txVouchers[t] PROVE UpToBound(t, i)' /\ SettledBehind(t, i)'
    <2> DEFINE u == UserIn(t, i)   n == NonceIn(t, i)   b == BoundOf(c, l, u)   d == l[u]
               b0 == Bound(u)   d0 == lastNonce[u]
    <2>1. u \in Users /\ n \in Nat /\ UserIn(t, i)' = u /\ NonceIn(t, i)' = n
      BY <1>0, <1>2, NonceTypes DEF UserIn, NonceIn
    <2>2. (Exempt(t, i) \/ n <= b0) /\ (fate[t] = "mined" /\ events[t][i] \in WithEvent => n <= d0)
      BY DEF ChainNonces, UpToBound, SettledBehind
    <2>3. b0 \in Nat /\ d0 \in Nat
      BY <2>1, BoundIs
    <2>4. b0 <= b /\ d0 <= d /\ d \in Nat /\ b \in Nat
      BY <2>1 DEF GrowTo, BoundOf, Counters
    <2>5. Bound(UserIn(t, i))' = b /\ lastNonce'[u] = d
      BY <1>2, <2>1 DEF Bound
    <2>6. fate[t] # "mined" /\ fate'[t] = "mined" /\ events'[t][i] \in WithEvent => n <= d
      BY DEF GrowTo
    <2>7. Exempt(t, i) => Exempt(t, i)'
      BY <1>1 DEF Exempt
    <2> HIDE DEF u, n, b, d, b0, d0
    <2>8. (Exempt(t, i)' \/ n <= b) /\ (fate'[t] = "mined" /\ events'[t][i] \in WithEvent => n <= d)
      <3>1. n <= b0 => n <= b
        BY <2>1, <2>3, <2>4
      <3>2. n <= d0 => n <= d
        BY <2>1, <2>3, <2>4
      <3> QED BY <1>1, <2>2, <2>6, <2>7, <3>1, <3>2
    <2>9. UpToBound(t, i)'
      BY <2>1, <2>5, <2>8 DEF UpToBound
    <2>10. SettledBehind(t, i)'
      BY <2>1, <2>5, <2>8 DEF SettledBehind
    <2> QED BY <2>9, <2>10
  <1>6. \A t \in TxIds : DOMAIN txVouchers'[t] = DOMAIN txVouchers[t]
    BY <1>2
  <1>7. ASSUME NEW w, Above(w) PROVE Above(w)'
    BY <1>1, <1>2, <1>7 DEF Above, Exempt, UserIn, NonceIn
  <1>8. (\A t \in TxIds : \A i \in DOMAIN txVouchers[t] : UpToBound(t, i) /\ SettledBehind(t, i))'
    BY <1>5, <1>6
  <1> QED BY <1>3, <1>4, <1>7, <1>8 DEF ChainNonces

\* A batch is broadcast as the next transaction.
LEMMA BroadcastKeeps ==
    ASSUME SettlerTypes, Nonces, pc = "intent", Broadcast, UNCHANGED counter
    PROVE  ChainNonces' /\ \E k \in TxIds : k = NextTx /\ LatestTx(k)'
  <1>0. ChainTypes
    BY DEF SettlerTypes
  <1> DEFINE n == NextTx   ws == batch.rec.vouchers
  <1>1. n \in TxIds /\ fate[n] = "unused" /\ \A s \in TxIds : fate[s] = "unused" => n <= s
    BY NextTxIs DEF Broadcast
  <1>2. /\ fate' = [fate EXCEPT ![n] = "pool"] /\ txVouchers' = [txVouchers EXCEPT ![n] = ws]
        /\ UNCHANGED <<lastNonce, events>>
    BY DEF Broadcast
  <1>3. /\ InOrder(ws)
        /\ \A j \in DOMAIN ws : Above(ws[j]) /\ ws[j].nonce <= Bound(ws[j].user)
    BY DEF Nonces, HandNonces
  <1>4. UsedInOrder /\ NoncesIncrease
        /\ \A t \in TxIds : \A i \in DOMAIN txVouchers[t] : UpToBound(t, i) /\ SettledBehind(t, i)
    BY DEF Nonces, ChainNonces
  <1>5. PICK k \in TxIds : k = n
    BY <1>1
  <1> HIDE DEF n, ws
  <1>6. /\ fate'[k] = "pool" /\ txVouchers'[k] = ws /\ fate[k] = "unused"
        /\ \A t \in TxIds : t # k => fate'[t] = fate[t] /\ txVouchers'[t] = txVouchers[t]
    BY <1>0, <1>1, <1>2, <1>5 DEF ChainTypes
  <1>7. \A t \in TxIds : t > k => fate[t] = "unused" /\ DOMAIN txVouchers[t] = {}
    BY <1>0, <1>4, <1>6 DEF UsedInOrder, ChainTypes
  <1>8. UsedInOrder'
    <2>1. ASSUME NEW s \in TxIds, NEW t \in TxIds, s < t, fate'[s] = "unused" PROVE fate'[t] = "unused"
      <3>1. s # k /\ fate[s] = "unused"
        BY <1>6, <2>1
      <3>2. k <= s
        BY <1>1, <1>5, <3>1
      <3>3. t # k /\ t > k
        BY <2>1, <3>2 DEF TxIds
      <3> QED BY <1>6, <1>7, <3>3
    <2> QED BY <2>1 DEF UsedInOrder
  <1>9. \A t \in TxIds : \A i : Exempt(t, i) => Exempt(t, i)' /\ t # k
    BY <1>2, <1>6 DEF Exempt
  <1>10. NoncesIncrease'
    <2> SUFFICES ASSUME NEW s \in TxIds, NEW t \in TxIds, NEW i \in DOMAIN txVouchers'[s], NEW j \in DOMAIN txVouchers'[t],
                        txVouchers'[s][i].user = txVouchers'[t][j].user, s < t \/ (s = t /\ i < j)
                 PROVE  \/ txVouchers'[s][i].nonce < txVouchers'[t][j].nonce
                        \/ s < t /\ fate'[s] = "mined" /\ events'[s][i] \notin WithEvent
      BY DEF NoncesIncrease
    <2>1. CASE t = k /\ s = k
      <3>1. txVouchers'[s] = ws /\ txVouchers'[t] = ws
        BY <1>6, <2>1
      <3>2. i < j
        BY <2>1 DEF TxIds
      <3> QED BY <1>3, <3>1, <3>2 DEF InOrder
    <2>2. CASE t = k /\ s # k
      <3>1. txVouchers'[s] = txVouchers[s] /\ txVouchers'[t] = ws /\ s < t
        BY <1>6, <2>2
      <3>2. Above(ws[j]) /\ i \in DOMAIN txVouchers[s] /\ UserIn(s, i) = ws[j].user
        BY <1>3, <3>1 DEF UserIn
      <3>3. Exempt(s, i) \/ NonceIn(s, i) < ws[j].nonce
        BY <3>2 DEF Above
      <3>4. Exempt(s, i)' \/ NonceIn(s, i) < ws[j].nonce
        BY <1>9, <3>3
      <3> QED BY <3>1, <3>4 DEF NonceIn, Exempt
    <2>3. CASE t # k /\ s = k
      <3>1. t > k
        BY <2>3 DEF TxIds
      <3> QED BY <1>6, <1>7, <2>3, <3>1
    <2>4. CASE t # k /\ s # k
      <3>1. txVouchers'[s] = txVouchers[s] /\ txVouchers'[t] = txVouchers[t] /\ fate'[s] = fate[s] /\ events' = events
        BY <1>2, <1>6, <2>4
      <3>2. \/ txVouchers[s][i].nonce < txVouchers[t][j].nonce
            \/ s < t /\ fate[s] = "mined" /\ events[s][i] \notin WithEvent
        BY <1>4, <3>1 DEF NoncesIncrease
      <3> QED BY <3>1, <3>2
    <2> QED BY <2>1, <2>2, <2>3, <2>4
  <1>11. ASSUME NEW t \in TxIds, NEW i \in DOMAIN txVouchers'[t] PROVE UpToBound(t, i)' /\ SettledBehind(t, i)'
    <2>0. \A u : Bound(u)' = Bound(u) /\ lastNonce' = lastNonce /\ events' = events
      BY <1>2 DEF Bound
    <2>1. CASE t = k
      <3>1. UserIn(t, i)' = ws[i].user /\ NonceIn(t, i)' = ws[i].nonce /\ i \in DOMAIN ws
        BY <1>6, <2>1 DEF UserIn, NonceIn
      <3>2. ws[i].nonce <= Bound(ws[i].user)
        BY <1>3, <3>1
      <3>3. UpToBound(t, i)'
        BY <1>2, <3>1, <3>2 DEF UpToBound, Bound
      <3>4. SettledBehind(t, i)'
        BY <1>6, <2>1 DEF SettledBehind
      <3> QED BY <3>3, <3>4
    <2>2. CASE t # k
      <3>1. UserIn(t, i)' = UserIn(t, i) /\ NonceIn(t, i)' = NonceIn(t, i) /\ i \in DOMAIN txVouchers[t] /\ fate'[t] = fate[t]
        BY <1>6, <2>2 DEF UserIn, NonceIn
      <3>2. UpToBound(t, i) /\ SettledBehind(t, i)
        BY <1>4, <3>1
      <3>3. UpToBound(t, i)'
        BY <1>2, <3>1, <3>2 DEF UpToBound, Bound, Exempt
      <3>4. SettledBehind(t, i)'
        BY <1>2, <3>1, <3>2 DEF SettledBehind
      <3> QED BY <3>3, <3>4
    <2> QED BY <2>1, <2>2
  <1>12. \A s \in TxIds : fate'[s] # "unused" => s <= k
    BY <1>6, <1>7 DEF TxIds
  <1>13. (\A t \in TxIds : \A i \in DOMAIN txVouchers[t] : UpToBound(t, i) /\ SettledBehind(t, i))'
    BY <1>11
  <1>14. LatestTx(k)' /\ k = NextTx
    BY <1>5, <1>12 DEF LatestTx, n
  <1> QED BY <1>8, <1>10, <1>13, <1>14 DEF ChainNonces

\* The counter of a user is dropped for INVALID_NONCE: no nonce of the user that
\* is out is above the contract's, for the transaction is the latest one.
LEMMA ResetIsSafe ==
    ASSUME SettlerTypes, Nonces, pc = "inflight", NEW m \in TxIds, m = batch.rec.tx, fate[m] = "mined",
           NEW k \in DOMAIN txVouchers[m], Statuses(m)[k] = "INVALID_NONCE",
           NEW t \in TxIds, NEW i \in DOMAIN txVouchers[t], UserIn(t, i) = UserIn(m, k)
    PROVE  Exempt(t, i) \/ NonceIn(t, i) <= lastNonce[UserIn(t, i)]
  <1>0. ChainTypes /\ ChainNonces
    BY DEF SettlerTypes, Nonces
  <1> DEFINE u == UserIn(m, k)   a == NonceIn(m, k)   b == NonceIn(t, i)   l == lastNonce[u]
  <1>1. u \in Users /\ a \in Nat /\ b \in Nat /\ l \in Nat /\ fate[t] # "unused"
    BY <1>0, NonceTypes DEF ChainTypes
  <1>2. t <= m
    BY <1>1 DEF Nonces, DeskLatest, LatestTx
  <1>3. a <= l
    <2>1. Statuses(m)[k] = IF events[m][k] \in WithEvent THEN events[m][k] ELSE StatusIn(Now, txVouchers[m][k])
      BY DEF Statuses
    <2>2. StatusIn(Now, txVouchers[m][k]) = "INVALID_NONCE"
      BY <2>1 DEF WithEvent
    <2> QED BY <2>2 DEF StatusIn, Now, UserIn, NonceIn
  <1>4. CASE t = m
    BY <1>0, <1>4 DEF ChainNonces, SettledBehind, Exempt
  <1>5. CASE t < m
    <2>1. b < a \/ Exempt(t, i)
      BY <1>0, <1>5 DEF ChainNonces, NoncesIncrease, Exempt, UserIn, NonceIn
    <2>2. l = lastNonce[UserIn(t, i)]
      OBVIOUS
    <2> HIDE DEF a, b, l, u
    <2>3. b < a => b <= l
      BY <1>1, <1>3
    <2> QED BY <2>1, <2>2, <2>3 DEF b
  <1>6. t = m \/ t < m
    BY <1>2 DEF TxIds
  <1> QED BY <1>4, <1>5, <1>6

\* HandleStatuses drops counters only where that is safe.
LEMMA PollMinedNonces ==
    ASSUME SettlerTypes, Nonces, PollMined PROVE ChainNonces'
  <1>0. ChainTypes /\ ChainNonces /\ HandAgrees /\ ProcessTypes /\ StoreTypes
    BY DEF SettlerTypes, DeskAgrees, Nonces
  <1> DEFINE m == batch.rec.tx   vs == batch.rec.vouchers   st == Statuses(m)
  <1>1. pc = "inflight" /\ fate[m] = "mined" /\ UNCHANGED <<lastNonce, fate, txVouchers, events>>
    BY DEF PollMined, Polling, chainVars
  <1>2. m \in TxIds /\ vs = txVouchers[m]
    BY <1>0, <1>1, BatchFields, RecordFields DEF ProcessTypes, HandAgrees
  <1>3. counter' = [u \in Users |-> IF \E i \in {j \in DOMAIN vs : st[j] \in {"INVALID_NONCE"}} : vs[i].user = u
                                       THEN Absent ELSE counter[u]]
    BY DEF PollMined, HandleStatuses
  <1>4. PICK k \in TxIds : k = m
    BY <1>2
  <1>5. UsedInOrder' /\ NoncesIncrease'
    BY <1>0, <1>1 DEF ChainNonces, UsedInOrder, NoncesIncrease
  <1>6. ASSUME NEW t \in TxIds, NEW i \in DOMAIN txVouchers[t] PROVE UpToBound(t, i)' /\ SettledBehind(t, i)'
    <2> DEFINE u == UserIn(t, i)
    <2>1. u \in Users /\ UserIn(t, i)' = u /\ NonceIn(t, i)' = NonceIn(t, i)
      BY <1>0, <1>1, NonceTypes DEF UserIn, NonceIn
    <2>2. UpToBound(t, i) /\ SettledBehind(t, i)
      BY <1>0 DEF ChainNonces
    <2>3. SettledBehind(t, i)'
      BY <1>1, <2>1, <2>2 DEF SettledBehind
    <2>4. CASE counter'[u] = counter[u]
      <3>1. Bound(UserIn(t, i))' = Bound(u)
        BY <1>1, <2>1, <2>4 DEF Bound, BoundOf
      <3> QED BY <1>1, <2>1, <2>2, <2>3, <3>1 DEF UpToBound, Exempt
    <2>5. CASE counter'[u] # counter[u]
      <3>1. PICK j \in DOMAIN txVouchers[k] : Statuses(k)[j] = "INVALID_NONCE" /\ UserIn(k, j) = u /\ counter'[u] = Absent
        BY <1>2, <1>3, <1>4, <2>1, <2>5, Zenon DEF UserIn
      <3>2. Exempt(t, i) \/ NonceIn(t, i) <= lastNonce[u]
        BY <1>1, <1>4, <3>1, ResetIsSafe
      <3>3. Bound(UserIn(t, i))' = lastNonce[u]
        BY <1>1, <2>1, <3>1 DEF Bound, BoundOf
      <3>4. fate'[t] = fate[t] /\ events'[t] = events[t]
        BY <1>1, Zenon
      <3>5. Exempt(t, i)' = Exempt(t, i)
        BY <3>4, Zenon DEF Exempt
      <3>6. UpToBound(t, i)'
        BY <2>1, <3>2, <3>3, <3>5, Zenon DEF UpToBound
      <3> QED BY <2>3, <3>6, Zenon
    <2> QED BY <2>4, <2>5
  <1>7. (\A t \in TxIds : \A i \in DOMAIN txVouchers[t] : UpToBound(t, i) /\ SettledBehind(t, i))'
    BY <1>1, <1>6
  <1> QED BY <1>5, <1>7 DEF ChainNonces

\* A step of the counter alone that lowers no bound is such a step.
LEMMA SameGrows ==
    ASSUME SettlerTypes, NEW c \in Counters, counter' = c,
           \A u \in Users : Bound(u) <= BoundOf(c, lastNonce, u),
           UNCHANGED <<lastNonce, fate, txVouchers, events>>
    PROVE  GrowTo(c, lastNonce)
  <1>1. lastNonce \in [Users -> Nat]
    BY DEF SettlerTypes, ChainTypes
  <1> QED BY <1>1 DEF GrowTo

\* So is one that touches none of it.
LEMMA SameGrowsToo ==
    ASSUME SettlerTypes, UNCHANGED <<counter, lastNonce, fate, txVouchers, events>>
    PROVE  GrowTo(counter, lastNonce)
  <1>1. counter \in Counters
    BY DEF SettlerTypes, StoreTypes
  <1>2. \A u \in Users : Bound(u) <= BoundOf(counter, lastNonce, u)
    <2>1. ASSUME NEW u \in Users PROVE Bound(u) <= BoundOf(counter, lastNonce, u)
      <3>1. Bound(u) \in Nat
        BY BoundIs
      <3>2. Bound(u) = BoundOf(counter, lastNonce, u)
        BY DEF Bound
      <3> QED BY <3>1, <3>2
    <2> QED BY <2>1
  <1>3. lastNonce \in [Users -> Nat]
    BY DEF SettlerTypes, ChainTypes
  <1> QED BY <1>1, <1>2, <1>3 DEF GrowTo

\* Every step of the chain and the users.
LEMMA EnvironmentGrows ==
    ASSUME SettlerTypes, Environment PROVE \E c, l : GrowTo(c, l)
  <1> USE DEF redisVars, procVars, chainVars, histVars, boundVars
  <1>0. ChainTypes /\ counter \in Counters /\ lastNonce \in [Users -> Nat]
    BY DEF SettlerTypes, StoreTypes, ChainTypes
  <1>1. ASSUME NEW l \in [Users -> Nat], lastNonce' = l, \A u \in Users : lastNonce[u] <= l[u], UNCHANGED counter,
               UNCHANGED txVouchers,
               \A t \in TxIds :
                  /\ fate'[t] = "unused" <=> fate[t] = "unused"
                  /\ fate[t] = "mined" => fate'[t] = "mined" /\ events'[t] = events[t]
                  /\ fate[t] # "mined" /\ fate'[t] = "mined" =>
                        \A i \in DOMAIN txVouchers[t] : events'[t][i] \in WithEvent => NonceIn(t, i) <= l[UserIn(t, i)]
        PROVE  GrowTo(counter, l)
    <2>1. \A u \in Users : Bound(u) <= BoundOf(counter, l, u)
      BY <1>0, <1>1 DEF Bound, BoundOf, Counters
    <2> QED BY <1>0, <1>1, <2>1 DEF GrowTo
  <1>2. \A u \in Users : lastNonce[u] <= lastNonce[u]
    BY <1>0
  <1>3. CASE UNCHANGED <<counter, lastNonce, fate, txVouchers, events>>
    BY <1>3, SameGrowsToo
  <1>4. CASE Rotate \/ (\E x \in Usages : Enqueue(x))
             \/ \E u \in Users : Deposit(u) \/ Withdraw(u) \/ ChangeAck(u) \/ AdminAggregate(u)
    BY <1>3, <1>4 DEF Rotate, Enqueue, Deposit, Withdraw, ChangeAck, AdminAggregate
  <1>5. ASSUME NEW u \in Users, Compete(u) PROVE \E c, l : GrowTo(c, l)
    <2> DEFINE n == lastNonce[u] + 1   l == [lastNonce EXCEPT ![u] = n]
    <2>1. n \in Nat /\ lastNonce[u] <= n
      BY <1>0
    <2>2. lastNonce' = l /\ UNCHANGED <<counter, fate, txVouchers, events>>
      BY <1>5 DEF Compete
    <2> HIDE DEF n
    <2>3. l \in [Users -> Nat] /\ \A v \in Users : lastNonce[v] <= l[v]
      BY <1>0, <1>2, <2>1
    <2> HIDE DEF l
    <2> QED BY <1>1, <2>2, <2>3
  <1>6. CASE NotMined
    <2>1. NextInPool \in TxIds /\ fate[NextInPool] = "pool"
      BY <1>6, NextInPoolIs DEF NotMined
    <2>2. UNCHANGED <<counter, lastNonce, txVouchers, events>> /\
          \A t \in TxIds : fate'[t] = fate[t] \/ (fate[t] = "pool" /\ fate'[t] \in {"reverted", "replaced"})
      BY <1>0, <1>6, <2>1 DEF NotMined, ChainTypes
    <2>3. \A t \in TxIds :
                  /\ fate'[t] = "unused" <=> fate[t] = "unused"
                  /\ fate[t] = "mined" => fate'[t] = "mined" /\ events'[t] = events[t]
                  /\ ~(fate[t] # "mined" /\ fate'[t] = "mined")
      BY <2>2
    <2> QED BY <1>0, <1>1, <1>2, <2>2, <2>3
  <1>7. CASE Mine
    <2>1. PICK t, r :
              /\ t \in TxIds
              /\ fate[t] = "pool" /\ fate' = [fate EXCEPT ![t] = "mined"]
              /\ AllSettled(r, txVouchers[t])
              /\ events' = [events EXCEPT ![t] = r.events]
              /\ lastNonce' = r.lastNonce
              /\ UNCHANGED txVouchers
      BY <1>0, <1>7, MinedIs
    <2> t \in TxIds
      BY <2>1
    <2> DEFINE l == r.lastNonce   ev == r.events
    <2>2. /\ l \in [Users -> Nat] /\ \A u \in Users : lastNonce[u] <= l[u]
          /\ \A i \in DOMAIN txVouchers[t] : ev[i] \in WithEvent => NonceIn(t, i) <= l[UserIn(t, i)]
      <3>1. r \in Accounts /\ \A u \in Users : lastNonce[u] <= l[u]
        BY <2>1 DEF AllSettled
      <3>2. DOMAIN txVouchers[t] = 1..Len(txVouchers[t])
        BY <1>0 DEF ChainTypes
      <3> QED BY <2>1, <3>1, <3>2 DEF AllSettled, Accounts, NonceIn, UserIn
    <2>3. lastNonce' = l /\ events' = [events EXCEPT ![t] = ev] /\ UNCHANGED counter
      BY <1>7, <2>1 DEF Mine
    <2> HIDE DEF l, ev
    <2>4. \A s \in TxIds : s # t => fate'[s] = fate[s] /\ events'[s] = events[s]
      BY <1>0, <2>1, <2>3 DEF ChainTypes
    <2>5. fate'[t] = "mined" /\ events'[t] = ev
      BY <1>0, <2>1, <2>3 DEF ChainTypes
    <2>6. \A s \in TxIds :
                  /\ fate'[s] = "unused" <=> fate[s] = "unused"
                  /\ fate[s] = "mined" => fate'[s] = "mined" /\ events'[s] = events[s]
                  /\ fate[s] # "mined" /\ fate'[s] = "mined" =>
                        \A i \in DOMAIN txVouchers[s] : events'[s][i] \in WithEvent => NonceIn(s, i) <= l[UserIn(s, i)]
      BY <2>1, <2>2, <2>4, <2>5
    <2> QED BY <1>1, <2>1, <2>2, <2>3, <2>6
  <1> QED BY <1>4, <1>5, <1>6, <1>7 DEF Environment

\* A batch is signed above everything that is out.
LEMMA SignBatchNonces ==
    ASSUME SettlerTypes, Nonces, SignBatch PROVE (ChainNonces /\ HandNonces)'
  <1>0. ChainTypes /\ ChainNonces /\ StoreTypes
    BY DEF SettlerTypes, Nonces
  <1>1. UNCHANGED <<lastNonce, fate, txVouchers, events>> /\ pc' = "intent"
    BY DEF SignBatch, chainVars
  <1>2. PICK raws, ws :
              /\ CollapseBySandbox(raws) \in Seq(Vouchers)
              /\ WellSigned(ws, CollapseBySandbox(raws)) /\ counter' = CounterAfter(CollapseBySandbox(raws))
              /\ Holds(batch', record') /\ record'.vouchers = ws
    BY SignedRecord
  <1>3. PICK vs : vs = CollapseBySandbox(raws)
    OBVIOUS
  <1>4. vs \in Seq(Vouchers) /\ WellSigned(ws, vs) /\ batch'.rec.vouchers = ws
    BY <1>2, <1>3 DEF Holds
  <1>5. PICK c : c = CounterAfter(vs)
    OBVIOUS
  <1>6. counter' = c /\ c \in Counters /\ \A u \in Users : Bound(u) <= BoundOf(c, lastNonce, u)
    BY <1>0, <1>2, <1>3, <1>4, <1>5, CounterGrows DEF StoreTypes, ChainTypes, Bound
  <1>7. GrowTo(c, lastNonce)
    BY <1>1, <1>6, SameGrows
  <1>8. ChainNonces' /\ \A w : Above(w) => Above(w)'
    BY <1>0, <1>7, GrowKeeps
  <1>9. /\ ws \in Seq(Signed) /\ Len(ws) = Len(vs)
        /\ \A i \in 1..Len(vs) : ws[i].user = vs[i].user /\ ws[i].nonce > Bound(vs[i].user)
        /\ \A i, j \in 1..Len(vs) : i < j /\ vs[i].user = vs[j].user => ws[i].nonce < ws[j].nonce
        /\ \A i \in 1..Len(vs) : ws[i].nonce <= c[vs[i].user] /\ c[vs[i].user] \in Nat
    BY <1>4, <1>5 DEF WellSigned, Bound
  <1>10. DOMAIN ws = 1..Len(vs) /\ \A i \in 1..Len(vs) : ws[i].user \in Users /\ ws[i].nonce \in Nat
    BY <1>9 DEF Signed
  <1>11. InOrder(ws)
    BY <1>9, <1>10 DEF InOrder
  <1>12. ASSUME NEW j \in DOMAIN ws PROVE Above(ws[j]) /\ ws[j].nonce <= BoundOf(c, lastNonce, ws[j].user)
    <2>1. ws[j].nonce <= BoundOf(c, lastNonce, ws[j].user)
      BY <1>9, <1>10 DEF BoundOf, Absent
    <2>2. ASSUME NEW t \in TxIds, NEW i \in DOMAIN txVouchers[t], UserIn(t, i) = ws[j].user
          PROVE  Exempt(t, i) \/ NonceIn(t, i) < ws[j].nonce
      <3> DEFINE u == ws[j].user   n == ws[j].nonce   k == NonceIn(t, i)   b == Bound(u)
      <3>1. UpToBound(t, i)
        BY <1>0 DEF ChainNonces
      <3>2. Exempt(t, i) \/ k <= b
        BY <2>2, <3>1 DEF UpToBound
      <3>3. n > b /\ n \in Nat /\ b \in Nat /\ k \in Nat
        BY <1>0, <1>9, <1>10, BoundIs, NonceTypes
      <3> HIDE DEF u, n, k, b
      <3>4. k <= b => k < n
        BY <3>3
      <3> QED BY <3>2, <3>4 DEF n, k
    <2> QED BY <2>1, <2>2 DEF Above
  <1>13. HandNonces'
    <2>1. \A u : Bound(u)' = BoundOf(c, lastNonce, u)
      BY <1>1, <1>6 DEF Bound
    <2>2. ASSUME NEW j \in DOMAIN ws PROVE Above(ws[j])' /\ ws[j].nonce <= BoundOf(counter', lastNonce', ws[j].user)
      BY <1>1, <1>6, <1>8, <1>12
    <2>3. InOrder(ws)'
      BY <1>11 DEF InOrder
    <2> QED BY <1>4, <2>2, <2>3 DEF HandNonces, Bound, Above, InOrder, UserIn, NonceIn, Exempt
  <1> QED BY <1>8, <1>13

\* The transaction at hand stays the latest one.
LEMMA StepLatest ==
    ASSUME SettlerTypes, Nonces, [Next]_vars PROVE DeskLatest'
  <1> USE DEF redisVars, procVars, chainVars, histVars, boundVars
  <1>0. ChainTypes /\ ChainNonces /\ ProcessTypes /\ DeskLatest
    BY DEF SettlerTypes, Nonces
  <1>1. ASSUME NEW t, \A s \in TxIds : fate'[s] = "unused" <=> fate[s] = "unused", LatestTx(t)
        PROVE  \A s \in TxIds : fate'[s] # "unused" => s <= t
    BY <1>1 DEF LatestTx
  <1>2. CASE UNCHANGED <<record, batch, pc>> /\ \A s \in TxIds : fate'[s] = "unused" <=> fate[s] = "unused"
    BY <1>0, <1>1, <1>2 DEF DeskLatest, LatestTx
  <1>3. CASE UNCHANGED vars
    BY <1>2, <1>3 DEF vars
  <1>4. CASE Environment
    <2>1. PICK c, l : GrowTo(c, l)
      BY <1>4, EnvironmentGrows
    <2>2. \A s \in TxIds : fate'[s] = "unused" <=> fate[s] = "unused"
      BY <2>1 DEF GrowTo
    <2>3. UNCHANGED <<record, batch, pc>>
      BY <1>4 DEF Environment, Enqueue, AdminAggregate, Mine, NotMined, Rotate, Deposit, Withdraw, ChangeAck, Compete
    <2> QED BY <1>2, <2>2, <2>3
  <1>5. CASE UNCHANGED <<record, fate>> /\ pc' \in {"start", "loop", "popped", "degraded"}
    BY <1>0, <1>5 DEF DeskLatest, LatestTx
  <1>6. CASE StartClean \/ ReconcileFailed \/ PeriodicSweep \/ ForcedSweep \/ ForcedSweepThrottled
             \/ CheckProvider \/ SignFailed \/ BLPop \/ Crash
    BY <1>5, <1>6 DEF StartClean, ReconcileFailed, PeriodicSweep, ForcedSweep, ForcedSweepThrottled, CheckProvider,
                      SignFailed, BLPop, Crash
  <1>7. CASE PollFailed \/ PollDroppedOnce
    BY <1>2, <1>7 DEF PollFailed, PollDroppedOnce
  <1>8. CASE record' = NoRecord /\ pc' \in {"start", "loop", "popped", "degraded"}
    BY <1>8, NoRecordIs DEF DeskLatest
  <1>9. CASE ReconcileIntent \/ SubmitFailed \/ PollReverted \/ PollDropped \/ FinishBatch
    BY <1>8, <1>9 DEF ReconcileIntent, SubmitFailed, PollReverted, PollDropped, GiveBack, FinishBatch
  <1>10. CASE StartResolve
    <2>1. Holds(batch', record) /\ UNCHANGED <<record, fate>> /\ pc' = "inflight" /\ record.tx # NoTx
      BY <1>0, <1>10, BatchOf DEF StartResolve, ProcessTypes
    <2> QED BY <1>0, <2>1 DEF DeskLatest, LatestTx, Holds
  <1>11. CASE SignBatch
    <2>1. record'.tx = NoTx /\ pc' = "intent"
      BY <1>11, SignedRecord DEF SignBatch
    <2> QED BY <2>1 DEF DeskLatest
  <1>12. CASE SubmitSettleFees
    <2>1. PICK k \in TxIds : k = NextTx /\ LatestTx(k)'
      BY <1>12, BroadcastKeeps DEF SubmitSettleFees
    <2>2. batch' = [batch EXCEPT !.rec.tx = k] /\ pc' = "broadcast" /\ pc = "intent" /\ UNCHANGED record
      BY <1>12, <2>1 DEF SubmitSettleFees
    <2>3. batch'.rec.tx = k
      BY <1>0, <2>2, HashOf DEF ProcessTypes
    <2>4. record.tx = NoTx
      BY <1>0, <2>2 DEF DeskLatest
    <2> QED BY <2>1, <2>2, <2>3, <2>4 DEF DeskLatest, LatestTx
  <1>13. CASE SaveTxHash
    <2>1. /\ batch' = [batch EXCEPT !.rec = batch.rec] /\ (record' = batch.rec \/ UNCHANGED record)
          /\ pc = "broadcast" /\ pc' = "inflight" /\ UNCHANGED fate
      BY <1>13 DEF SaveTxHash, BroadcastRecord
    <2>2. Holds(batch', batch.rec)
      BY <1>0, <2>1, Rebatched, BatchFields DEF ProcessTypes
    <2> QED BY <1>0, <2>1, <2>2 DEF DeskLatest, LatestTx, Holds
  <1>14. CASE PollMined
    <2>1. PICK B : batch' = [batch EXCEPT !.broke = B]
      BY <1>14 DEF PollMined
    <2>2. UNCHANGED <<record, fate>> /\ pc = "inflight" /\ pc' = "handled"
      BY <1>14 DEF PollMined, Polling
    <2>3. batch'.rec.tx = batch.rec.tx
      BY <1>0, <2>1 DEF ProcessTypes, Batches
    <2> QED BY <1>0, <2>2, <2>3 DEF DeskLatest, LatestTx
  <1> QED BY <1>3, <1>4, <1>6, <1>7, <1>9, <1>10, <1>11, <1>12, <1>13, <1>14 DEF Next, SettlerStep

\* Every step preserves what is known of the nonces.
LEMMA StepNonces ==
    ASSUME SettlerTypes, Nonces, [Next]_vars PROVE Nonces'
  <1> USE DEF redisVars, procVars, chainVars, histVars, boundVars
  <1>0. ChainTypes /\ ChainNonces /\ StoreTypes /\ ProcessTypes /\ DeskAgrees
    BY DEF SettlerTypes, Nonces
  <1>1. ASSUME NEW c, NEW l, GrowTo(c, l), UNCHANGED <<pc, batch>> \/ pc' # "intent" PROVE ChainNonces' /\ HandNonces'
    <2>1. ChainNonces' /\ \A w : Above(w) => Above(w)'
      BY <1>0, <1>1, GrowKeeps
    <2>2. CASE pc' # "intent"
      BY <2>1, <2>2 DEF HandNonces
    <2>3. CASE UNCHANGED <<pc, batch>> /\ pc = "intent"
      <3> DEFINE ws == batch.rec.vouchers
      <3>1. InOrder(ws) /\ \A j \in DOMAIN ws : Above(ws[j]) /\ ws[j].nonce <= Bound(ws[j].user)
        BY <2>3 DEF Nonces, HandNonces
      <3>2. ws \in Seq(Signed)
        BY <1>0, BatchFields, RecordFields DEF ProcessTypes
      <3> HIDE DEF ws
      <3>3. ASSUME NEW j \in DOMAIN ws PROVE ws[j].nonce <= BoundOf(c, l, ws[j].user)
        <4> DEFINE u == ws[j].user   n == ws[j].nonce   b == Bound(u)   b1 == BoundOf(c, l, u)
        <4>1. ws[j] \in Signed
          BY <3>2
        <4>2. u \in Users /\ n \in Nat
          BY <4>1 DEF Signed
        <4>3. b \in Nat /\ b1 \in Nat /\ b <= b1
          BY <1>1, <4>2, BoundIs DEF GrowTo, BoundOf, Counters
        <4>4. n <= b
          BY <3>1
        <4> HIDE DEF u, n, b, b1
        <4>5. n <= b1
          BY <4>2, <4>3, <4>4
        <4> QED BY <4>5 DEF n, b1, u
      <3>4. counter' = c /\ lastNonce' = l
        BY <1>1 DEF GrowTo
      <3>5. PICK zs : zs = ws
        OBVIOUS
      <3>6. batch'.rec.vouchers = zs
        BY <2>3, <3>5 DEF ws
      <3>7. InOrder(zs) /\ \A j \in DOMAIN zs : Above(zs[j])' /\ zs[j].nonce <= BoundOf(counter', lastNonce', zs[j].user)
        BY <2>1, <3>1, <3>3, <3>4, <3>5
      <3>8. HandNonces'
        BY <3>6, <3>7 DEF HandNonces, Bound, Above, InOrder, UserIn, NonceIn, Exempt
      <3> QED BY <2>1, <3>8
    <2> QED BY <1>1, <2>2, <2>3
  <1>2. ASSUME UNCHANGED <<counter, lastNonce, fate, txVouchers, events>>, UNCHANGED <<pc, batch>> \/ pc' # "intent"
        PROVE  ChainNonces' /\ HandNonces'
    BY <1>1, <1>2, SameGrowsToo
  <1>3. ChainNonces' /\ HandNonces'
    <2>1. CASE UNCHANGED vars
      BY <1>2, <2>1 DEF vars
    <2>2. CASE Environment
      <3>1. PICK c, l : GrowTo(c, l)
        BY <2>2, EnvironmentGrows
      <3>2. UNCHANGED <<batch, pc>>
        BY <2>2 DEF Environment, Enqueue, AdminAggregate, Mine, NotMined, Rotate, Deposit, Withdraw, ChangeAck, Compete
      <3> QED BY <1>1, <3>1, <3>2
    <2>3. CASE StartClean \/ StartResolve \/ ReconcileIntent \/ ReconcileFailed \/ PeriodicSweep \/ ForcedSweep
               \/ ForcedSweepThrottled \/ CheckProvider \/ BLPop \/ SaveTxHash \/ PollFailed \/ PollReverted
               \/ PollDroppedOnce \/ PollDropped \/ FinishBatch \/ Crash
      <3>1. UNCHANGED <<counter, lastNonce, fate, txVouchers, events>> /\ pc' # "intent"
        BY <2>3 DEF StartClean, StartResolve, ReconcileIntent, ReconcileFailed, PeriodicSweep, ForcedSweep,
                ForcedSweepThrottled, CheckProvider, BLPop, SaveTxHash, PollFailed,
                PollReverted, PollDroppedOnce, PollDropped, GiveBack, FinishBatch, Crash
      <3> QED BY <1>2, <3>1
    <2>4. CASE SignBatch
      BY <2>4, SignBatchNonces
    <2>5. CASE SignFailed
      <3> DEFINE v == batch.rec.first
      <3>1. v \in Vouchers
        <4>1. v # <<>>
          BY <1>0, <2>5 DEF SignFailed, DeskAgrees, HandAgrees
        <4> QED BY <1>0, <4>1, BatchFields, RecordFields DEF ProcessTypes
      <3>2. PICK raws \in RawItems(v) :
               \E k \in 0..Len(CollapseBySandbox(raws)) : counter' = CounterAfter(SubSeq(CollapseBySandbox(raws), 1, k))
        BY <2>5 DEF SignFailed
      <3> HIDE DEF v
      <3>3. raws \in Seq(Vouchers)
        BY <1>0, <3>1, RawsAre DEF Taken, StoreTypes
      <3> DEFINE vs == CollapseBySandbox(raws)
      <3>4. vs \in Seq(Vouchers)
        BY <3>3, CollapseKeeps
      <3>5. PICK k \in 0..Len(vs) : counter' = CounterAfter(SubSeq(vs, 1, k))
        BY <3>2
      <3> HIDE DEF vs
      <3>6. PICK zs : zs = SubSeq(vs, 1, k) /\ zs \in Seq(Vouchers)
        <4>1. SubSeq(vs, 1, k) \in Seq(Vouchers)
          BY <3>4
        <4> QED BY <4>1
      <3>7. PICK c : c = CounterAfter(zs)
        OBVIOUS
      <3>8. counter' = c /\ c \in Counters /\ \A u \in Users : Bound(u) <= BoundOf(c, lastNonce, u)
        BY <1>0, <3>5, <3>6, <3>7, CounterGrows DEF StoreTypes, ChainTypes, Bound
      <3>9. UNCHANGED <<lastNonce, fate, txVouchers, events>> /\ pc' = "loop"
        BY <2>5 DEF SignFailed
      <3>10. GrowTo(c, lastNonce)
        BY <3>8, <3>9, SameGrows
      <3> QED BY <1>1, <3>9, <3>10
    <2>6. CASE SubmitSettleFees \/ SubmitFailed
      <3>1. pc = "intent" /\ pc' # "intent" /\ UNCHANGED counter
            /\ (Broadcast \/ UNCHANGED <<lastNonce, fate, txVouchers, events>>)
        BY <2>6 DEF SubmitSettleFees, SubmitFailed
      <3>2. CASE Broadcast
        BY <3>1, <3>2, BroadcastKeeps DEF HandNonces
      <3> QED BY <1>2, <3>1, <3>2
    <2>7. CASE PollMined
      BY <2>7, PollMinedNonces DEF PollMined, HandNonces
    <2> QED BY <2>1, <2>2, <2>3, <2>4, <2>5, <2>6, <2>7 DEF Next, SettlerStep
  <1> QED BY <1>3, StepLatest DEF Nonces

\* Under every fault and every crash, the nonces of the vouchers that IncrNonce and Sign
\* hand out for a user increase in the order of their broadcasts, but for vouchers that
\* were mined and turned down without an event; dropping the counter for INVALID_NONCE
\* and seeding it from the chain repeats no other nonce.
THEOREM NoncesOnlyIncrease == Spec => []NoncesIncrease
  <1> DEFINE I == SettlerTypes /\ Nonces
  <1>1. Init => I
    BY InitTypes, InitNonces
  <1>2. I /\ [Next]_vars => I'
    BY StepTypes, StepNonces
  <1>3. I => NoncesIncrease
    BY DEF Nonces, ChainNonces
  <1> QED BY <1>1, <1>2, <1>3, PTL DEF Spec

-----------------------------------------------------------------------------
(* Accounts: where every unit is. *)

\* A batch whose transaction was sent, and the record it is known by.
Carried == pc \in {"broadcast", "inflight"} \/ (pc = "start" /\ Recorded)
Rec == IF pc = "start" THEN record ELSE batch.rec

\* A batch was made from its popped entry and the entries now at the head.
Covers(r, q) ==
    /\ r.consumed \in 1..(Len(q) + 1)
    /\ \A x \in Usages : Count(r.vouchers, x) = Times(x, r.first) + Count(SubSeq(q, 1, r.consumed - 1), x)

\* Record, batch and pool agree when nothing goes wrong behind the process's back.
DeskSafe ==
    /\ pc \in {"loop", "popped", "degraded"} => ~Recorded
    /\ pc = "start" /\ Recorded => record.tx # NoTx
    /\ pc = "inflight" => record = batch.rec
    /\ pc = "popped" => batch.rec.consumed = 0
    /\ \A t \in TxIds : fate[t] = "pool" => Carried /\ Rec.tx = t
    /\ pc = "intent" \/ Carried => Covers(Rec, queue)

\* Where a unit is: settled, written off, parked, or still waiting; until its
\* transaction mines a batch waits as its popped entry and the entries of the
\* queue, afterwards as the vouchers that left no event and the entries behind.
Mode == IF Carried /\ fate[Rec.tx] = "mined" THEN "mined"
        ELSE IF Carried \/ pc \in {"popped", "intent"} THEN "hand" ELSE "none"
Off(x) == IF x \in dlq \cup discarded THEN 1 ELSE 0
Debt(x) == Count(held[UserOf[x]], x)
Behind(q, m, x) == Count(SubSeq(q, m, Len(q)), x)
Unpaid(t, x) == Total(LeftIn(txVouchers[t], events[t], x), Len(txVouchers[t]))
Waiting(x) ==
    IF Mode = "mined" THEN Behind(queue, Rec.consumed, x) + Unpaid(Rec.tx, x)
    ELSE IF Mode = "hand" THEN Count(queue, x) + Times(x, Rec.first)
    ELSE Count(queue, x)
Due(x) == IF x \in emitted THEN 1 ELSE 0

\* No unit is in two places, and in steady times every emitted one is in one.
Balanced(c, o, h, w, e) ==
    /\ c \in Nat /\ o \in 0..1 /\ h \in Nat /\ w \in Nat /\ e \in 0..1
    /\ c + o + h + w <= e
    /\ Steady => c + o + h + w = e
Accounted == \A x \in Usages : Balanced(charged[x], Off(x), Debt(x), Waiting(x), Due(x))

\* What a transaction turned down is still turned down.
Refused(t, i) ==
    events[t][i] \notin WithEvent => ~active \/ NonceIn(t, i) <= lastNonce[UserIn(t, i)]
Refusals ==
    Steady => /\ acked = Users
              /\ \A t \in TxIds : fate[t] = "mined" => \A i \in DOMAIN txVouchers[t] : Refused(t, i)

\* At the start nothing is due.
LEMMA InitAccounts == Init => DeskSafe /\ Accounted /\ Refusals
  <1> SUFFICES ASSUME Init PROVE DeskSafe /\ Accounted /\ Refusals
    OBVIOUS
  <1>1. ~Recorded /\ pc = "start" /\ ~Carried /\ \A t \in TxIds : fate[t] = "unused"
    BY NoRecordIs DEF Init, Recorded, Carried
  <1>2. DeskSafe
    BY <1>1 DEF DeskSafe
  <1>3. Refusals
    BY <1>1 DEF Refusals, Init
  <1>4. ASSUME NEW x \in Usages PROVE Balanced(charged[x], Off(x), Debt(x), Waiting(x), Due(x))
    <2>1. Mode = "none"
      BY <1>1 DEF Mode
    <2>2. Count(<<>>, x) = 0
      BY CountOfNone
    <2>3. UserOf[x] \in Users
      BY UsageAssumption
    <2>4. queue = <<>> /\ held[UserOf[x]] = <<>>
      BY <2>3 DEF Init
    <2>5. Waiting(x) = 0 /\ Debt(x) = 0
      BY <2>1, <2>2, <2>4, Zenon DEF Waiting, Debt
    <2>6. charged[x] = 0 /\ Off(x) = 0 /\ Due(x) = 0
      BY DEF Init, Off, Due
    <2> QED BY <2>5, <2>6 DEF Balanced
  <1> QED BY <1>2, <1>3, <1>4 DEF Accounted

-----------------------------------------------------------------------------
(* Moves between the accounts. *)

\* Units move between debt and queue.
LEMMA KeepBalance ==
    ASSUME NEW c, NEW o, NEW h, NEW w, NEW e, Balanced(c, o, h, w, e), NEW h1 \in Nat, NEW w1 \in Nat,
           h1 + w1 = h + w
    PROVE  Balanced(c, o, h1, w1, e)
  BY DEF Balanced

\* Units that waited are charged.
LEMMA ChargeBalance ==
    ASSUME NEW c, NEW o, NEW h, NEW w, NEW e, Balanced(c, o, h, w, e), NEW c1 \in Nat, NEW w1 \in Nat,
           c1 + w1 = c + w
    PROVE  Balanced(c1, o, h, w1, e)
  BY DEF Balanced

\* A unit that was not due is emitted and waits.
LEMMA EmitBalance ==
    ASSUME NEW c, NEW o, NEW h, NEW w, Balanced(c, o, h, w, 0)
    PROVE  Balanced(c, o, h, w + 1, 1)
  BY DEF Balanced

\* Of l vouchers without event p are parked and f written off.
Resolved(l, p, f, o, o1) ==
    /\ l \in Nat /\ p \in Nat /\ f \in Nat /\ o1 \in 0..1
    /\ p + f <= l /\ (Steady => p + f = l)
    /\ (f >= 1 => o1 = 1) /\ (f = 0 => o1 = o)

\* What left no event is parked or written off.
LEMMA ResolveBalance ==
    ASSUME NEW c, NEW o, NEW h, NEW b \in Nat, NEW l, NEW e, Balanced(c, o, h, b + l, e),
           NEW p, NEW f, NEW o1, Resolved(l, p, f, o, o1)
    PROVE  Balanced(c, o1, h + p, b, e)
  <1> USE DEF Resolved
  <1>1. /\ c \in Nat /\ o \in 0..1 /\ h \in Nat /\ e \in 0..1
        /\ c + o + h + (b + l) <= e
        /\ Steady => c + o + h + (b + l) = e
    BY DEF Balanced
  <1>2. f \in 0..1
    BY <1>1
  <1>3. o1 <= o + f
    BY <1>1, <1>2
  <1>4. c + o1 + (h + p) + b <= e
    BY <1>1, <1>3
  <1>5. ASSUME Steady PROVE c + o1 + (h + p) + b = e
    <2>1. p + f = l /\ c + o + h + (b + l) = e
      BY <1>1, <1>5
    <2>2. o1 = o + f
      BY <1>1, <1>2, <2>1
    <2> QED BY <1>1, <2>1, <2>2
  <1> QED BY <1>1, <1>4, <1>5 DEF Balanced

\* The record of the batch at hand, and its transaction.
LEMMA RecIs ==
    ASSUME SettlerTypes
    PROVE  /\ Rec \in Records /\ Rec.tx \in {NoTx} \cup TxIds /\ Rec.vouchers \in Seq(Signed)
           /\ Rec.first \in Vouchers \cup {<<>>} /\ Rec.consumed \in 0..MaxBatch
           /\ Carried \/ pc \in {"popped", "intent"} => Rec.first \in Vouchers
           /\ DeskSafe /\ Carried => Rec.tx \in TxIds /\ fate[Rec.tx] # "unused" /\ Rec.vouchers = txVouchers[Rec.tx]
  <1>0. ProcessTypes /\ RecordAgrees /\ HandAgrees
    BY DEF SettlerTypes, DeskAgrees
  <1>1. Rec \in Records
    BY <1>0, BatchFields DEF Rec, ProcessTypes
  <1>2. /\ Rec.tx \in {NoTx} \cup TxIds /\ Rec.vouchers \in Seq(Signed)
        /\ Rec.first \in Vouchers \cup {<<>>} /\ Rec.consumed \in 0..MaxBatch
    BY <1>1, RecordFields
  <1>3. Carried \/ pc \in {"popped", "intent"} => Rec.first # <<>>
    BY <1>0 DEF Carried, Rec, RecordAgrees, HandAgrees
  <1>4. DeskSafe /\ Carried => Rec.tx # NoTx /\ fate[Rec.tx] # "unused" /\ Rec.vouchers = txVouchers[Rec.tx]
    BY <1>0 DEF Carried, Rec, RecordAgrees, HandAgrees, DeskSafe
  <1> QED BY <1>1, <1>2, <1>3, <1>4

\* The terms are numbers.
LEMMA TermsAre ==
    ASSUME SettlerTypes, NEW x \in Usages
    PROVE  /\ charged[x] \in Nat /\ Debt(x) \in Nat /\ Count(queue, x) \in Nat
           /\ \A m \in Nat \ {0} : Behind(queue, m, x) \in Nat
           /\ \A t \in TxIds : Unpaid(t, x) \in Nat
           /\ \A v \in Vouchers : Times(x, v) \in Nat
  <1>0. StoreTypes /\ ChainTypes
    BY DEF SettlerTypes
  <1>1. charged[x] \in Nat
    BY <1>0 DEF ChainTypes
  <1>2. UserOf[x] \in Users
    BY UsageAssumption
  <1>3. held[UserOf[x]] \in Seq(Vouchers) /\ queue \in Seq(Vouchers)
    BY <1>0, <1>2 DEF StoreTypes, HeldLists
  <1>4. Debt(x) \in Nat /\ Count(queue, x) \in Nat
    BY <1>3, VouchersBill, CountIsNat DEF Debt
  <1>5. ASSUME NEW m \in Nat \ {0} PROVE Behind(queue, m, x) \in Nat
    <2>1. SubSeq(queue, m, Len(queue)) \in Seq(Vouchers)
      BY <1>3
    <2> QED BY <2>1, VouchersBill, CountIsNat DEF Behind
  <1>6. ASSUME NEW v \in Vouchers PROVE Times(x, v) \in Nat
    BY TimesIsNat DEF Vouchers
  <1>7. ASSUME NEW t \in TxIds PROVE Unpaid(t, x) \in Nat
    <2> DEFINE vs == txVouchers[t]   f == LeftIn(vs, events[t], x)   n == Len(vs)
    <2>1. vs \in Seq(Signed)
      BY <1>0 DEF ChainTypes
    <2>2. n \in Nat /\ DOMAIN vs = 1..n /\ \A i \in 1..n : vs[i].uses \in Seq(Usages)
      BY <2>1 DEF Signed
    <2>3. \A i \in 1..n : f[i] \in Nat
      BY <2>2, TimesIsNat DEF LeftIn
    <2> HIDE DEF f, n
    <2>4. Weights(f, n)
      BY <2>3 DEF Weights
    <2>5. Total(f, n) \in Nat
      BY <2>2, <2>4, TotalIsNat
    <2> QED BY <2>5 DEF Unpaid, f, n
  <1> QED BY <1>1, <1>4, <1>5, <1>6, <1>7

\* A unit that is in one place at most is charged once at most.
LEMMA NoneTwice ==
    ASSUME Accounted PROVE NoDoubleCharge
  <1>1. ASSUME NEW x \in Usages PROVE charged[x] <= 1
    <2> DEFINE c == charged[x]   o == Off(x)   h == Debt(x)   w == Waiting(x)   e == Due(x)
    <2>1. Balanced(c, o, h, w, e)
      BY DEF Accounted
    <2> HIDE DEF c, o, h, w, e
    <2>2. c <= 1
      BY <2>1 DEF Balanced
    <2> QED BY <2>2 DEF c
  <1> QED BY <1>1 DEF NoDoubleCharge

\* What a transaction left unpaid is among its vouchers.
LEMMA UnpaidIsSent ==
    ASSUME ChainTypes, NEW t \in TxIds, NEW x \in Usages, Unpaid(t, x) >= 1
    PROVE  x \in UnitsIn(txVouchers[t])
  <1> DEFINE vs == txVouchers[t]   ev == events[t]   f == LeftIn(vs, ev, x)   n == Len(vs)
  <1>1. vs \in Seq(Signed)
    BY DEF ChainTypes
  <1>2. Total(f, n) >= 1
    BY DEF Unpaid
  <1> HIDE DEF vs, ev
  <1>3. n \in Nat /\ DOMAIN vs = 1..n /\ \A i \in 1..n : vs[i].uses \in Seq(Usages)
    BY <1>1 DEF Signed
  <1>4. \A i \in 1..n : f[i] = (IF ev[i] \in WithEvent THEN 0 ELSE Times(x, vs[i])) /\ Times(x, vs[i]) \in Nat
    BY <1>3, TimesIsNat DEF LeftIn
  <1> HIDE DEF f, n
  <1>5. ASSUME x \notin UnitsIn(vs) PROVE FALSE
    <2>1. \A i \in 1..n : x \notin ToSet(vs[i].uses)
      BY <1>3, <1>5 DEF UnitsIn
    <2>2. \A i \in 1..n : Times(x, vs[i]) = 0
      BY <1>3, <1>4, <2>1, UnitIsCounted
    <2>3. \A i \in 1..n : f[i] = 0
      BY <1>4, <2>2
    <2>4. IsFiniteSet(1..n)
      BY <1>3, FS_Interval
    <2>5. Total(f, n) = 0
      BY <2>3, <2>4, SumOfZeros DEF Total
    <2> QED BY <1>2, <2>5
  <1> QED BY <1>5 DEF vs

\* A unit that is due and is in one place is in one of those NothingLost names.
LEMMA NoneLost ==
    ASSUME SettlerTypes, DeskSafe, Accounted, Steady PROVE NothingLost
  <1>0. StoreTypes /\ ChainTypes /\ HandAgrees
    BY DEF SettlerTypes, DeskAgrees
  <1> SUFFICES ASSUME NEW x \in emitted
               PROVE  \/ charged[x] > 0
                      \/ x \in UnitsIn(queue) \cup InHand \cup dlq \cup discarded
                      \/ \E u \in Users : x \in UnitsIn(held[u])
                      \/ Recorded /\ x \in UnitsIn(record.vouchers)
    BY DEF NothingLost
  <1>1. x \in Usages /\ UserOf[x] \in Users
    BY <1>0, UsageAssumption DEF StoreTypes
  <1> DEFINE c == charged[x]   o == Off(x)   h == Debt(x)   w == Waiting(x)   e == Due(x)
  <1>2. Balanced(c, o, h, w, e) /\ e = 1
    BY <1>1 DEF Accounted, Due
  <1>3. c >= 1 \/ o = 1 \/ h >= 1 \/ w >= 1
    <2> HIDE DEF c, o, h, w, e
    <2> QED BY <1>2 DEF Balanced
  <1>4. CASE c >= 1
    <2>1. c \in Nat
      BY <1>1, TermsAre
    <2> QED BY <1>4, <2>1
  <1>5. CASE o = 1
    BY <1>5 DEF Off
  <1>6. queue \in Seq(Vouchers) /\ held[UserOf[x]] \in Seq(Vouchers)
    BY <1>0, <1>1 DEF StoreTypes, HeldLists
  <1>7. CASE h >= 1
    <2>1. x \in UnitsIn(held[UserOf[x]])
      BY <1>6, <1>7, VouchersBill, UnitsAreCounted DEF Debt
    <2> QED BY <1>1, <2>1
  <1>8. ASSUME Count(queue, x) >= 1 PROVE x \in UnitsIn(queue)
    BY <1>6, <1>8, VouchersBill, UnitsAreCounted
  <1>9. /\ Rec.vouchers \in Seq(Signed) /\ Rec.consumed \in Nat
        /\ Carried \/ pc \in {"popped", "intent"} => Rec.first \in Vouchers
        /\ Carried => Rec.tx \in TxIds /\ Rec.vouchers = txVouchers[Rec.tx]
    BY RecIs
  <1>10. ASSUME x \in UnitsIn(Rec.vouchers), Carried \/ pc = "intent"
         PROVE  x \in InHand \/ (Recorded /\ x \in UnitsIn(record.vouchers))
    BY <1>0, <1>10 DEF Rec, Carried, InHand, HandAgrees
  <1>11. CASE w >= 1
    <2>1. CASE Mode = "mined"
      <3>1. Carried
        BY <2>1 DEF Mode
      <3> DEFINE m == Rec.consumed   t == Rec.tx   b == Behind(queue, m, x)   l == Unpaid(t, x)
      <3>2. m \in 1..(Len(queue) + 1) /\ t \in TxIds
        BY <1>9, <3>1 DEF DeskSafe, Covers
      <3>3. w = b + l
        BY <2>1 DEF Waiting
      <3>4. b \in Nat /\ l \in Nat
        BY <1>1, <3>2, TermsAre
      <3>5. b >= 1 \/ l >= 1
        <4> HIDE DEF b, l, w
        <4> QED BY <1>11, <3>3, <3>4
      <3>6. CASE b >= 1
        <4> DEFINE k == m - 1   p == Count(SubSeq(queue, 1, k), x)
        <4>1. k \in 0..Len(queue) /\ k + 1 = m
          BY <1>6, <3>2
        <4> HIDE DEF m, k
        <4>2. Count(queue, x) = p + Count(SubSeq(queue, k + 1, Len(queue)), x) /\ SubSeq(queue, 1, k) \in Seq(Vouchers)
          BY <1>6, <4>1, VouchersBill, CountOfParts
        <4>3. p \in Nat
          BY <4>2, VouchersBill, CountIsNat
        <4>4. b = Count(SubSeq(queue, k + 1, Len(queue)), x)
          BY <4>1 DEF Behind
        <4> HIDE DEF b, p
        <4>5. Count(queue, x) >= 1
          BY <3>4, <3>6, <4>2, <4>3, <4>4
        <4> QED BY <1>8, <4>5
      <3>7. CASE l >= 1
        <4>1. x \in UnitsIn(txVouchers[t])
          BY <1>0, <1>1, <3>2, <3>7, UnpaidIsSent
        <4>2. x \in UnitsIn(Rec.vouchers)
          BY <1>9, <3>1, <4>1
        <4> QED BY <1>10, <3>1, <4>2
      <3> QED BY <3>5, <3>6, <3>7
    <2>2. CASE Mode = "hand"
      <3>1. (Carried \/ pc \in {"popped", "intent"}) /\ Rec.first \in Vouchers
        BY <1>9, <2>2 DEF Mode
      <3> DEFINE v == Rec.first   q == Count(queue, x)   a == Times(x, v)
      <3>2. w = q + a
        BY <2>2 DEF Waiting
      <3>3. q \in Nat /\ a \in Nat
        BY <1>1, <3>1, TermsAre
      <3>4. q >= 1 \/ a >= 1
        <4> HIDE DEF q, a, w
        <4> QED BY <1>11, <3>2, <3>3
      <3>5. CASE a >= 1
        <4>1. v.uses \in Seq(Usages)
          BY <3>1 DEF Vouchers
        <4>2. x \in ToSet(v.uses)
          BY <3>5, <4>1, UnitIsCounted
        <4>3. CASE pc = "popped"
          BY <4>2, <4>3 DEF Rec, DeskSafe, InHand
        <4>4. CASE pc # "popped"
          <5>1. Carried \/ pc = "intent"
            BY <3>1, <4>4
          <5> DEFINE k == Rec.consumed - 1   p == Count(SubSeq(queue, 1, k), x)   vs == Rec.vouchers
          <5>2. Rec.consumed \in 1..(Len(queue) + 1) /\ Count(vs, x) = a + p
            BY <1>1, <5>1 DEF DeskSafe, Covers
          <5>3. k \in 0..Len(queue)
            BY <1>6, <5>2
          <5> HIDE DEF k
          <5>4. SubSeq(queue, 1, k) \in Seq(Vouchers)
            BY <1>6, <5>3
          <5>5. p \in Nat
            BY <5>4, VouchersBill, CountIsNat
          <5> HIDE DEF a, p
          <5>6. Count(vs, x) >= 1
            BY <3>3, <3>5, <5>2, <5>5
          <5>7. x \in UnitsIn(vs)
            BY <1>9, <5>6, SignedBill, UnitsAreCounted
          <5> QED BY <1>10, <5>1, <5>7
        <4> QED BY <4>3, <4>4
      <3> QED BY <1>8, <3>4, <3>5
    <2>3. CASE Mode = "none"
      BY <1>8, <1>11, <2>3 DEF Waiting
    <2> QED BY <2>1, <2>2, <2>3 DEF Mode
  <1> QED BY <1>3, <1>4, <1>5, <1>7, <1>11

\* What the batch covers is what it will pop.
LEMMA HeadIsBatch ==
    ASSUME SettlerTypes, DeskSafe PROVE BatchAtHead
  <1> SUFFICES ASSUME pc = "inflight"
               PROVE  UnitsIn(<<batch.rec.first>> \o SubSeq(queue, 1, Smaller(batch.rec.consumed - 1, Len(queue))))
                        = UnitsIn(batch.rec.vouchers)
    BY DEF BatchAtHead
  <1> DEFINE r == batch.rec   v == r.first   k == r.consumed - 1   s == SubSeq(queue, 1, k)   vs == r.vouchers
  <1>1. Rec = r /\ Carried
    BY DEF Rec, Carried
  <1>2. v \in Vouchers /\ vs \in Seq(Signed) /\ queue \in Seq(Vouchers)
    BY <1>1, RecIs DEF SettlerTypes, StoreTypes
  <1>3. r.consumed \in 1..(Len(queue) + 1) /\ \A x \in Usages : Count(vs, x) = Times(x, v) + Count(s, x)
    BY <1>1 DEF DeskSafe, Covers
  <1>4. k \in 0..Len(queue) /\ Len(queue) \in Nat
    BY <1>2, <1>3
  <1>5. Smaller(k, Len(queue)) = k
    BY <1>4 DEF Smaller
  <1> HIDE DEF k
  <1>6. s \in Seq(Vouchers)
    BY <1>2, <1>4
  <1> HIDE DEF v, s, vs
  <1>7. <<v>> \o s \in Seq(Vouchers) /\ \A x : Count(<<v>> \o s, x) = Times(x, v) + Count(s, x)
    BY <1>2, <1>6, FrontIs
  <1>8. ASSUME NEW B, Bill(B), NEW zs \in Seq(B) PROVE UnitsIn(zs) \subseteq Usages
    BY <1>8 DEF UnitsIn, ToSet, Bill
  <1>9. ASSUME NEW x \in Usages PROVE x \in UnitsIn(<<v>> \o s) <=> x \in UnitsIn(vs)
    <2>1. Count(vs, x) = Count(<<v>> \o s, x)
      BY <1>3, <1>7
    <2>2. x \in UnitsIn(<<v>> \o s) <=> Count(<<v>> \o s, x) >= 1
      BY <1>7, VouchersBill, UnitsAreCounted
    <2>3. x \in UnitsIn(vs) <=> Count(vs, x) >= 1
      BY <1>2, SignedBill, UnitsAreCounted
    <2> QED BY <2>1, <2>2, <2>3
  <1>10. UnitsIn(<<v>> \o s) = UnitsIn(vs)
    <2>1. UnitsIn(vs) \subseteq Usages
      BY <1>2, <1>8, SignedBill
    <2> DEFINE z == <<v>> \o s
    <2>2. z \in Seq(Vouchers)
      BY <1>7
    <2>3. \A x \in Usages : x \in UnitsIn(z) <=> x \in UnitsIn(vs)
      BY <1>9
    <2> HIDE DEF z
    <2>4. UnitsIn(z) \subseteq Usages
      BY <1>8, <2>2, VouchersBill
    <2>5. UnitsIn(z) = UnitsIn(vs)
      BY <2>1, <2>3, <2>4
    <2> QED BY <2>5 DEF z
  <1> QED BY <1>5, <1>10 DEF v, s, vs, k

\* An entry at the tail does not matter to a batch.
LEMMA CoversAppend ==
    ASSUME NEW r, NEW q \in Seq(Vouchers), NEW v, Covers(r, q) PROVE Covers(r, Append(q, v))
  <1> DEFINE m == r.consumed   z == Append(q, v)
  <1>1. m \in 1..(Len(q) + 1) /\ Len(q) \in Nat
    BY DEF Covers
  <1>2. Len(z) = Len(q) + 1
    OBVIOUS
  <1>3. SubSeq(z, 1, m - 1) = SubSeq(q, 1, m - 1)
    BY <1>1, <1>2
  <1>4. m \in 1..(Len(z) + 1)
    BY <1>1, <1>2
  <1>5. \A x \in Usages : Count(r.vouchers, x) = Times(x, r.first) + Count(SubSeq(q, 1, r.consumed - 1), x)
    BY DEF Covers
  <1>6. \A x \in Usages : Count(r.vouchers, x) = Times(x, r.first) + Count(SubSeq(z, 1, r.consumed - 1), x)
    BY <1>3, <1>5
  <1> QED BY <1>4, <1>6 DEF Covers

\* Nor do the fields of the record it is not about.
LEMMA CoversSame ==
    ASSUME NEW r, NEW s, NEW q, Covers(r, q), s.consumed = r.consumed, s.vouchers = r.vouchers, s.first = r.first
    PROVE  Covers(s, q)
  BY DEF Covers

\* SignBatch builds its vouchers from the entries it pops and peeks.
LEMMA SignedCovers ==
    ASSUME SettlerTypes, SignBatch PROVE Covers(record', queue)
  <1>1. PICK raws, ws :
              /\ Taken(raws, batch.rec.first) /\ CollapseBySandbox(raws) \in Seq(Vouchers)
              /\ \A x : Count(CollapseBySandbox(raws), x) = Count(raws, x)
              /\ WellSigned(ws, CollapseBySandbox(raws))
              /\ record'.vouchers = ws /\ record'.first = batch.rec.first
              /\ record'.consumed = Len(raws)
    BY SignedRecord
  <1> DEFINE v == batch.rec.first   m == Len(raws)
  <1>2. \A x : Count(ws, x) = Count(raws, x)
    BY <1>1 DEF WellSigned
  <1>3. m \in 1..MaxBatch /\ m - 1 <= Len(queue) /\ \A x : Count(raws, x) = Times(x, v) + Count(SubSeq(queue, 1, m - 1), x)
    BY <1>1 DEF Taken
  <1>4. Len(queue) \in Nat /\ MaxBatch \in Nat
    BY TuningAssumption DEF SettlerTypes, StoreTypes
  <1>5. m \in 1..(Len(queue) + 1)
    BY <1>3, <1>4
  <1>6. record'.vouchers = ws /\ record'.first = v /\ record'.consumed = m
    BY <1>1
  <1> HIDE DEF v, m
  <1>7. \A x : Count(ws, x) = Times(x, v) + Count(SubSeq(queue, 1, m - 1), x)
    BY <1>2, <1>3
  <1> QED BY <1>5, <1>6, <1>7 DEF Covers

\* Every step of a safe environment keeps record, batch, queue and pool in agreement.
LEMMA StepDesk ==
    ASSUME SafeEnvironment, SettlerTypes, DeskSafe, [Next]_vars PROVE DeskSafe'
  <1> USE DEF redisVars, procVars, chainVars, histVars, boundVars
  <1>0. StoreTypes /\ ChainTypes /\ ProcessTypes /\ RecordAgrees /\ HandAgrees
    BY DEF SettlerTypes, DeskAgrees
  <1>1. ASSUME UNCHANGED <<pc, record, batch>>, queue' = queue \/ Covers(Rec, queue'),
               \A t \in TxIds : fate'[t] = "pool" => fate[t] = "pool"
        PROVE  DeskSafe'
    BY <1>1 DEF DeskSafe, Carried, Rec, Recorded
  <1>2. ASSUME \A t \in TxIds : fate[t] # "pool", UNCHANGED fate,
               ~Recorded', pc' \in {"start", "loop", "degraded"}
        PROVE  DeskSafe'
    BY <1>2 DEF DeskSafe, Carried, Recorded
  <1>3. ~Carried => \A t \in TxIds : fate[t] # "pool"
    BY DEF DeskSafe
  <1>4. record' = NoRecord => ~Recorded'
    BY NoRecordIs DEF Recorded
  <1>5. CASE UNCHANGED vars
    BY <1>1, <1>5 DEF vars
  <1>6. CASE Rotate \/ \E u \in Users : Deposit(u) \/ Withdraw(u) \/ ChangeAck(u) \/ Compete(u)
    BY <1>1, <1>6 DEF Rotate, Deposit, Withdraw, ChangeAck, Compete
  <1>7. ASSUME NEW x \in Usages, Enqueue(x) PROVE DeskSafe'
    <2>1. queue' = Append(queue, EntryOf(x)) /\ UNCHANGED <<pc, record, batch, fate>>
      BY <1>7 DEF Enqueue, EntryOf
    <2>2. CASE pc = "intent" \/ Carried
      <3>1. Covers(Rec, queue) /\ queue \in Seq(Vouchers)
        BY <1>0, <2>2 DEF DeskSafe, StoreTypes
      <3>2. Covers(Rec, queue')
        BY <2>1, <3>1, CoversAppend
      <3> QED BY <1>1, <2>1, <3>2
    <2>3. CASE ~(pc = "intent" \/ Carried)
      BY <2>1, <2>3 DEF DeskSafe, Carried, Recorded
    <2> QED BY <2>2, <2>3
  <1>8. CASE \E u \in Users : AdminAggregate(u)
    BY <1>8 DEF AdminAggregate, SafeEnvironment
  <1>9. CASE Mine
    <2>1. PICK t \in TxIds : fate[t] = "pool" /\ fate' = [fate EXCEPT ![t] = "mined"]
      BY <1>0, <1>9, MinedIs
    <2> QED BY <1>0, <1>1, <1>9, <2>1 DEF Mine, ChainTypes
  <1>10. CASE NotMined
    <2>1. NextInPool \in TxIds
      BY <1>10, NextInPoolIs DEF NotMined
    <2> QED BY <1>0, <1>1, <1>10, <2>1 DEF NotMined, ChainTypes
  <1>11. CASE StartClean
    <2>1. ~Recorded /\ pc = "start" /\ pc' = "loop" /\ UNCHANGED <<record, fate>>
      BY <1>11 DEF StartClean, SafeEnvironment
    <2> QED BY <1>2, <1>3, <2>1 DEF Carried, Recorded
  <1>12. CASE StartResolve
    <2>1. Holds(batch', record) /\ UNCHANGED <<record, fate, queue>> /\ pc = "start" /\ pc' = "inflight" /\ record.tx # NoTx
      BY <1>0, <1>12, BatchOf DEF StartResolve, ProcessTypes
    <2>2. Recorded
      BY <1>0, <2>1 DEF RecordAgrees
    <2> QED BY <2>1, <2>2 DEF DeskSafe, Carried, Rec, Recorded, Holds
  <1>13. CASE ReconcileIntent \/ ReconcileFailed
    BY <1>13 DEF ReconcileIntent, ReconcileFailed, DeskSafe
  <1>14. CASE PeriodicSweep \/ ForcedSweep \/ ForcedSweepThrottled \/ CheckProvider
    <2>1. pc \in {"loop", "degraded"} /\ pc' = "loop" /\ UNCHANGED <<record, fate>>
      BY <1>14 DEF PeriodicSweep, ForcedSweep, ForcedSweepThrottled, CheckProvider
    <2> QED BY <1>2, <1>3, <2>1 DEF Carried, Recorded, DeskSafe
  <1>15. CASE BLPop
    <2> DEFINE v == Head(queue)
    <2>1. v \in Vouchers
      BY <1>0, <1>15, PoppedIs DEF BLPop, StoreTypes
    <2>2. batch' = [Idle EXCEPT !.rec.first = v] /\ UNCHANGED <<record, fate>> /\ pc = "loop" /\ pc' = "popped"
      BY <1>15 DEF BLPop
    <2> HIDE DEF v
    <2>3. batch'.rec.consumed = 0
      BY <2>1, <2>2, FirstOf
    <2> QED BY <1>3, <2>2, <2>3 DEF DeskSafe, Carried, Recorded
  <1>16. CASE SignBatch
    <2>1. Holds(batch', record')
      BY <1>16, SignedRecord
    <2>2. pc = "popped" /\ pc' = "intent" /\ UNCHANGED <<fate, queue>>
      BY <1>16 DEF SignBatch
    <2>3. Covers(record', queue')
      BY <1>16, <2>2, SignedCovers
    <2> QED BY <1>3, <2>1, <2>2, <2>3 DEF DeskSafe, Carried, Rec, Holds
  <1>17. CASE SignFailed
    <2>1. pc = "popped" /\ pc' = "loop" /\ UNCHANGED <<record, fate>>
      BY <1>17 DEF SignFailed
    <2> QED BY <1>2, <1>3, <2>1 DEF Carried, Recorded, DeskSafe
  <1>18. CASE SubmitSettleFees
    <2> DEFINE n == NextTx
    <2>1. n \in TxIds
      BY <1>18, NextTxIs DEF SubmitSettleFees, Broadcast
    <2>2. /\ batch' = [batch EXCEPT !.rec.tx = n] /\ UNCHANGED <<queue, record>> /\ pc' = "broadcast" /\ pc = "intent"
          /\ fate' = [fate EXCEPT ![n] = "pool"]
      BY <1>18 DEF SubmitSettleFees, Broadcast
    <2> HIDE DEF n
    <2>3. /\ batch'.rec.tx = n /\ batch'.rec.first = batch.rec.first
          /\ batch'.rec.vouchers = batch.rec.vouchers /\ batch'.rec.consumed = batch.rec.consumed
      BY <1>0, <2>1, <2>2, HashOf DEF ProcessTypes
    <2>4. Covers(batch.rec, queue)
      BY <2>2 DEF DeskSafe, Rec
    <2>5. Covers(batch'.rec, queue')
      BY <2>2, <2>3, <2>4, CoversSame
    <2>6. \A t \in TxIds : fate'[t] = "pool" => t = n
      BY <1>0, <1>3, <2>1, <2>2 DEF ChainTypes, Carried
    <2> QED BY <2>2, <2>3, <2>5, <2>6 DEF DeskSafe, Carried, Rec
  <1>19. CASE SubmitFailed
    <2>1. pc = "intent" /\ pc' = "degraded" /\ UNCHANGED fate /\ record' = NoRecord
      BY <1>19 DEF SubmitFailed, SafeEnvironment
    <2> QED BY <1>2, <1>3, <1>4, <2>1 DEF Carried
  <1>20. CASE SaveTxHash
    <2>1. /\ batch' = [batch EXCEPT !.rec = batch.rec] /\ record' = batch.rec
          /\ pc = "broadcast" /\ pc' = "inflight" /\ UNCHANGED <<fate, queue>>
      BY <1>20 DEF SaveTxHash, BroadcastRecord, SafeEnvironment
    <2>2. Holds(batch', batch.rec)
      BY <1>0, <2>1, Rebatched, BatchFields DEF ProcessTypes
    <2> QED BY <2>1, <2>2 DEF DeskSafe, Carried, Rec, Holds
  <1>21. CASE PollFailed \/ PollDroppedOnce
    BY <1>1, <1>21 DEF PollFailed, PollDroppedOnce
  <1>22. CASE PollMined
    <2>1. UNCHANGED fate /\ pc = "inflight" /\ pc' = "handled" /\ fate[batch.rec.tx] = "mined"
      BY <1>22 DEF PollMined, Polling
    <2>2. \A t \in TxIds : fate[t] # "pool"
      BY <2>1 DEF DeskSafe, Rec
    <2> QED BY <2>1, <2>2 DEF DeskSafe, Carried
  <1>23. CASE PollReverted \/ PollDropped
    <2>1. /\ UNCHANGED fate /\ pc = "inflight" /\ pc' = "loop" /\ record' = NoRecord
          /\ fate[batch.rec.tx] # "pool"
      BY <1>23 DEF PollReverted, PollDropped, Polling, GiveBack, LooksDropped
    <2>2. \A t \in TxIds : fate[t] # "pool"
      BY <2>1 DEF DeskSafe, Rec
    <2> QED BY <1>2, <1>4, <2>1, <2>2
  <1>24. CASE FinishBatch
    <2>1. UNCHANGED fate /\ pc = "handled" /\ pc' = "loop" /\ record' = NoRecord
      BY <1>24 DEF FinishBatch
    <2> QED BY <1>2, <1>3, <1>4, <2>1 DEF Carried
  <1>25. CASE Crash
    <2>1. UNCHANGED <<fate, record, queue>> /\ pc \in {"start", "loop", "inflight", "degraded"} /\ pc' = "start"
      BY <1>0, <1>25 DEF Crash, SafeEnvironment, ProcessTypes
    <2>2. CASE pc = "start"
      BY <2>1, <2>2 DEF DeskSafe, Carried, Rec, Recorded
    <2>3. CASE pc = "inflight"
      <3>1. record = batch.rec /\ Recorded /\ record.tx # NoTx
        BY <1>0, <2>3 DEF DeskSafe, HandAgrees, Recorded
      <3> QED BY <2>1, <2>3, <3>1 DEF DeskSafe, Carried, Rec, Recorded
    <2>4. CASE pc \in {"loop", "degraded"}
      BY <1>2, <1>3, <2>1, <2>4 DEF DeskSafe, Carried, Recorded
    <2> QED BY <2>1, <2>2, <2>3, <2>4
  <1> QED BY <1>5, <1>6, <1>7, <1>8, <1>9, <1>10, <1>11, <1>12, <1>13, <1>14, <1>15, <1>16, <1>17, <1>18, <1>19,
             <1>20, <1>21, <1>22, <1>23, <1>24, <1>25 DEF Next, SettlerStep, Environment

\* Units move between debt and what waits.
LEMMA MoveAccounts ==
    ASSUME Accounted, UNCHANGED <<charged, dlq, discarded, emitted>>,
           \A x \in Usages : \E h, w \in Nat : Debt(x)' = h /\ Waiting(x)' = w /\ h + w = Debt(x) + Waiting(x)
    PROVE  Accounted'
  <1>1. ASSUME NEW x \in Usages PROVE Balanced(charged[x], Off(x), Debt(x), Waiting(x), Due(x))'
    <2> DEFINE c == charged[x]   o == Off(x)   h0 == Debt(x)   w0 == Waiting(x)   e == Due(x)
    <2>1. Balanced(c, o, h0, w0, e)
      BY DEF Accounted
    <2>2. PICK h \in Nat, w \in Nat : Debt(x)' = h /\ Waiting(x)' = w /\ h + w = h0 + w0
      OBVIOUS
    <2>3. charged'[x] = c /\ Off(x)' = o /\ Due(x)' = e
      BY DEF Off, Due
    <2> HIDE DEF c, o, h0, w0, e
    <2>4. Balanced(c, o, h, w, e)
      BY <2>1, <2>2, KeepBalance
    <2> QED BY <2>2, <2>3, <2>4
  <1> QED BY <1>1 DEF Accounted

\* A step that leaves queue, debt and the batch at hand alone keeps the accounts.
LEMMA SameAccounts ==
    ASSUME SettlerTypes, Accounted, UNCHANGED <<queue, charged, dlq, discarded, held, emitted>>,
           Mode' = Mode, Mode = "hand" => Rec'.first = Rec.first,
           Mode = "mined" => /\ Rec'.consumed = Rec.consumed /\ Rec'.tx = Rec.tx
                             /\ txVouchers'[Rec.tx] = txVouchers[Rec.tx] /\ events'[Rec.tx] = events[Rec.tx]
    PROVE  Accounted'
  <1>1. ASSUME NEW x \in Usages PROVE Waiting(x)' = Waiting(x) /\ Debt(x)' = Debt(x)
    BY DEF Waiting, Behind, Unpaid, Debt
  <1>2. ASSUME NEW x \in Usages PROVE Balanced(charged[x], Off(x), Debt(x), Waiting(x), Due(x))'
    <2>1. Balanced(charged[x], Off(x), Debt(x), Waiting(x), Due(x))
      BY DEF Accounted
    <2> QED BY <1>1, <2>1 DEF Off, Due
  <1> QED BY <1>2 DEF Accounted

\* The batch in hand goes back to the head of the queue.
LEMMA GivenBack ==
    ASSUME SettlerTypes, Accounted, UNCHANGED <<charged, dlq, discarded, held, emitted>>,
           Mode = "hand", Mode' = "none", queue' = <<Rec.first>> \o queue
    PROVE  Accounted'
  <1>1. Rec.first \in Vouchers /\ queue \in Seq(Vouchers)
    <2>1. Carried \/ pc \in {"popped", "intent"}
      BY DEF Mode
    <2> QED BY <2>1, RecIs DEF SettlerTypes, StoreTypes
  <1>2. ASSUME NEW x \in Usages
        PROVE  \E h, w \in Nat : Debt(x)' = h /\ Waiting(x)' = w /\ h + w = Debt(x) + Waiting(x)
    <2> DEFINE v == Rec.first   q == Count(queue, x)   a == Times(x, v)   d == Debt(x)
    <2>1. q \in Nat /\ a \in Nat /\ d \in Nat
      BY <1>1, TermsAre
    <2>2. Waiting(x) = q + a
      BY DEF Waiting
    <2>3. Count(<<v>> \o queue, x) = a + q
      BY <1>1, FrontIs
    <2>4. Waiting(x)' = Count(queue', x)
      BY DEF Waiting
    <2>5. Waiting(x)' = a + q /\ Debt(x)' = d
      BY <2>3, <2>4 DEF Debt
    <2> HIDE DEF q, a, d
    <2>6. a + q \in Nat /\ d + (a + q) = d + (q + a)
      BY <2>1
    <2>7. Debt(x) = d
      BY DEF d
    <2> QED BY <2>1, <2>2, <2>5, <2>6, <2>7
  <1> QED BY <1>2, MoveAccounts

\* BLPop takes an entry into hand.
LEMMA PopAccounts ==
    ASSUME SettlerTypes, DeskSafe, Accounted, BLPop PROVE Accounted'
  <1> DEFINE v == Head(queue)   t == Tail(queue)
  <1>1. queue \in Seq(Vouchers) /\ queue # <<>>
    BY DEF BLPop, SettlerTypes, StoreTypes
  <1>2. v \in Vouchers /\ \A x : Count(queue, x) = Times(x, v) + Count(t, x)
    BY <1>1, PoppedIs
  <1>3. /\ batch' = [Idle EXCEPT !.rec.first = v] /\ queue' = t /\ pc = "loop" /\ pc' = "popped"
        /\ UNCHANGED <<held, charged, dlq, discarded, emitted>>
    BY DEF BLPop, histVars
  <1>4. t \in Seq(Vouchers)
    BY <1>1, PoppedIs
  <1> HIDE DEF v, t
  <1>5. batch'.rec.first = v
    BY <1>2, <1>3, FirstOf
  <1>6. Mode = "none" /\ Mode' = "hand" /\ Rec'.first = v
    BY <1>3, <1>5 DEF Mode, Carried, Rec
  <1>7. ASSUME NEW x \in Usages
        PROVE  \E h, w \in Nat : Debt(x)' = h /\ Waiting(x)' = w /\ h + w = Debt(x) + Waiting(x)
    <2> DEFINE q == Count(t, x)   a == Times(x, v)   d == Debt(x)
    <2>1. q \in Nat /\ a \in Nat /\ d \in Nat
      BY <1>2, <1>4, TermsAre, VouchersBill, CountIsNat
    <2>2. Waiting(x) = a + q
      BY <1>2, <1>6 DEF Waiting
    <2>3. Waiting(x)' = Count(queue', x) + Times(x, Rec'.first)
      BY <1>6 DEF Waiting
    <2>4. Waiting(x)' = q + a /\ Debt(x)' = d
      BY <1>3, <1>6, <2>3 DEF Debt
    <2>5. Debt(x) = d
      BY DEF d
    <2> HIDE DEF q, a, d
    <2>6. q + a \in Nat /\ d + (q + a) = d + (a + q)
      BY <2>1
    <2> QED BY <2>1, <2>2, <2>4, <2>5, <2>6
  <1> QED BY <1>3, <1>7, MoveAccounts

\* A sweep moves units between the queue and the debt.
LEMMA SweepAccounts ==
    ASSUME SettlerTypes, Accounted, NEW S \in SUBSET Users, NEW from, NEW memo, SweepUsers(S, from, memo),
           UNCHANGED <<charged, dlq, discarded, emitted>>, Mode = "none", Mode' = "none"
    PROVE  Accounted'
  <1>0. queue \in Seq(Vouchers) /\ held \in HeldLists /\ stops \in SUBSET Sandboxes
    BY DEF SettlerTypes, StoreTypes
  <1>1. PICK q, h : queue' = q /\ held' = h
    OBVIOUS
  <1>2. q \in Seq(Vouchers) /\ h \in HeldLists
        /\ \A x \in Usages : Count(q, x) + Count(h[UserOf[x]], x) = Count(queue, x) + Count(held[UserOf[x]], x)
    BY <1>0, <1>1, SweepUsersKeeps
  <1>3. ASSUME NEW x \in Usages
        PROVE  \E d, w \in Nat : Debt(x)' = d /\ Waiting(x)' = w /\ d + w = Debt(x) + Waiting(x)
    <2> DEFINE w == Count(q, x)   d == Count(h[UserOf[x]], x)   w0 == Count(queue, x)   d0 == Debt(x)
    <2>1. UserOf[x] \in Users
      BY UsageAssumption
    <2>2. h[UserOf[x]] \in Seq(Vouchers)
      BY <1>2, <2>1 DEF HeldLists
    <2>3. w \in Nat /\ d \in Nat /\ w0 \in Nat /\ d0 \in Nat
      BY <1>2, <2>2, TermsAre, VouchersBill, CountIsNat
    <2>4. w + d = w0 + d0
      BY <1>2 DEF Debt
    <2>5. Waiting(x)' = w /\ Debt(x)' = d /\ Waiting(x) = w0
      BY <1>1 DEF Waiting, Debt
    <2>6. Debt(x) = d0
      OBVIOUS
    <2> HIDE DEF w, d, w0, d0
    <2>7. d + w = d0 + w0
      BY <2>3, <2>4
    <2> QED BY <2>3, <2>5, <2>6, <2>7
  <1> QED BY <1>3, MoveAccounts

\* An entry at the tail is behind every batch.
LEMMA BehindAppend ==
    ASSUME NEW q \in Seq(Vouchers), NEW v \in Vouchers, NEW m \in 1..(Len(q) + 1), NEW x
    PROVE  Behind(Append(q, v), m, x) = Behind(q, m, x) + Times(x, v)
  <1> DEFINE s == SubSeq(q, m, Len(q))   z == Append(q, v)
  <1>1. Len(z) = Len(q) + 1 /\ Len(q) \in Nat /\ z \in Seq(Vouchers)
    OBVIOUS
  <1>2. s \in Seq(Vouchers)
    OBVIOUS
  <1>3. SubSeq(z, m, Len(z)) = Append(s, v)
    OBVIOUS
  <1>4. Count(Append(s, v), x) = Count(s, x) + Times(x, v)
    BY <1>2, VouchersBill, CountOfAppend
  <1> QED BY <1>3, <1>4 DEF Behind

\* A new voucher is due and waits at the tail, behind the batch.
LEMMA EnqueueAccounts ==
    ASSUME SettlerTypes, DeskSafe, Accounted, NEW y \in Usages, Enqueue(y) PROVE Accounted'
  <1> DEFINE v == EntryOf(y)
  <1>0. queue \in Seq(Vouchers)
    BY DEF SettlerTypes, StoreTypes
  <1>1. /\ y \notin emitted /\ emitted' = emitted \cup {y} /\ queue' = Append(queue, v)
        /\ UNCHANGED <<pc, record, batch, fate, txVouchers, events, held, charged, dlq, discarded>>
    BY DEF Enqueue, EntryOf, procVars, chainVars
  <1>2. v \in Vouchers /\ \A x : Times(x, v) = IF x = y THEN 1 ELSE 0
    BY EntryIs
  <1> HIDE DEF v
  <1>3. Mode' = Mode /\ Rec' = Rec
    BY <1>1 DEF Mode, Carried, Rec, Recorded
  <1>4. ASSUME NEW x \in Usages PROVE Balanced(charged[x], Off(x), Debt(x), Waiting(x), Due(x))'
    <2> DEFINE c == charged[x]   o == Off(x)   h == Debt(x)   w == Waiting(x)   e == Due(x)   k == Times(x, v)
               q == Count(queue, x)   a == Times(x, Rec.first)   b == Behind(queue, Rec.consumed, x)   l == Unpaid(Rec.tx, x)
    <2>1. Balanced(c, o, h, w, e)
      BY DEF Accounted
    <2>2. charged'[x] = c /\ Off(x)' = o /\ Debt(x)' = h /\ w \in Nat /\ k \in Nat
      <3>1. charged'[x] = c /\ Off(x)' = o /\ Debt(x)' = h
        BY <1>1 DEF Off, Debt
      <3>2. k \in Nat
        BY <1>2
      <3> HIDE DEF c, o, h, w, e, k
      <3>3. w \in Nat
        BY <2>1 DEF Balanced
      <3> QED BY <3>1, <3>2, <3>3
    <2>3. Count(Append(queue, v), x) = q + k /\ q \in Nat
      BY <1>0, <1>2, VouchersBill, CountOfAppend, CountIsNat
    <2>4. Waiting(x)' = w + k
      <3>1. CASE Mode = "none"
        <4>1. Waiting(x)' = Count(queue', x) /\ w = q
          BY <1>3, <3>1 DEF Waiting
        <4> QED BY <1>1, <2>3, <4>1
      <3>2. CASE Mode = "hand"
        <4>1. Waiting(x)' = Count(queue', x) + a /\ w = q + a
          BY <1>3, <3>2 DEF Waiting
        <4>2. Rec.first \in Vouchers
          BY <3>2, RecIs DEF Mode
        <4>3. a \in Nat
          BY <4>2, TermsAre
        <4>4. Waiting(x)' = (q + k) + a
          BY <1>1, <2>3, <4>1
        <4> HIDE DEF q, k, a, w
        <4>5. (q + k) + a = w + k
          BY <2>2, <2>3, <4>1, <4>3
        <4> QED BY <4>4, <4>5
      <3>3. CASE Mode = "mined"
        <4>1. Carried
          BY <3>3 DEF Mode
        <4>2. Rec.consumed \in 1..(Len(queue) + 1) /\ Rec.tx \in TxIds
          BY <4>1, RecIs DEF DeskSafe, Covers
        <4>3. Waiting(x)' = Behind(queue', Rec.consumed, x) + l /\ w = b + l
          BY <1>1, <1>3, <3>3 DEF Waiting, Unpaid
        <4>4. Behind(Append(queue, v), Rec.consumed, x) = b + k
          BY <1>0, <1>2, <4>2, BehindAppend
        <4>5. b \in Nat /\ l \in Nat
          <5>1. Rec.consumed \in Nat \ {0}
            BY <1>0, <4>2
          <5> QED BY <4>2, <5>1, TermsAre
        <4>6. Waiting(x)' = (b + k) + l
          BY <1>1, <4>3, <4>4
        <4> HIDE DEF b, k, l, w
        <4>7. (b + k) + l = w + k
          BY <2>2, <4>3, <4>5
        <4> QED BY <4>6, <4>7
      <3> QED BY <3>1, <3>2, <3>3 DEF Mode
    <2>5. CASE x = y
      <3>1. e = 0 /\ Due(x)' = 1 /\ k = 1
        BY <1>1, <1>2, <2>5 DEF Due
      <3> HIDE DEF c, o, h, w, e
      <3>2. Balanced(c, o, h, w + 1, 1)
        BY <2>1, <3>1, EmitBalance
      <3> QED BY <2>2, <2>4, <3>1, <3>2
    <2>6. CASE x # y
      <3>1. Due(x)' = e /\ k = 0
        BY <1>1, <1>2, <2>6 DEF Due
      <3> HIDE DEF c, o, h, w, e
      <3>2. w + k = w
        BY <2>2, <3>1
      <3> QED BY <2>1, <2>2, <2>4, <3>1, <3>2
    <2> QED BY <2>5, <2>6
  <1> QED BY <1>4 DEF Accounted

\* The transaction of the batch at hand is mined.
LEMMA MineAccounts ==
    ASSUME SettlerTypes, DeskSafe, Accounted, Mine PROVE Accounted'
  <1>0. ChainTypes /\ queue \in Seq(Vouchers)
    BY DEF SettlerTypes, StoreTypes
  <1>1. PICK t, r :
            /\ t \in TxIds
              /\ fate[t] = "pool" /\ fate' = [fate EXCEPT ![t] = "mined"]
              /\ AllSettled(r, txVouchers[t])
              /\ events' = [events EXCEPT ![t] = r.events]
              /\ charged' = r.charged /\ UNCHANGED txVouchers
    BY <1>0, MinedIs
  <1> t \in TxIds
    BY <1>1
  <1>2. Carried /\ Rec.tx = t /\ Covers(Rec, queue) /\ Rec.vouchers = txVouchers[t]
    BY <1>1, RecIs DEF DeskSafe
  <1>3. UNCHANGED <<pc, record, batch, queue, held, dlq, discarded, emitted>>
    BY DEF Mine, redisVars, procVars
  <1> DEFINE m == Rec.consumed   f == Rec.first   vs == txVouchers[t]   ev == r.events   ch == r.charged
  <1>4. fate'[t] = "mined" /\ events'[t] = ev /\ charged' = ch /\ txVouchers'[t] = vs
    BY <1>0, <1>1 DEF ChainTypes
  <1>5. Mode = "hand" /\ Mode' = "mined" /\ Rec' = Rec
    BY <1>1, <1>2, <1>3, <1>4 DEF Mode, Carried, Rec, Recorded
  <1>6. f \in Vouchers /\ vs \in Seq(Signed)
    BY <1>0, <1>2, RecIs DEF ChainTypes
  <1>7. /\ m \in 1..(Len(queue) + 1)
        /\ \A x \in Usages : Count(vs, x) = Times(x, f) + Count(SubSeq(queue, 1, m - 1), x)
    BY <1>2 DEF Covers
  <1>8. /\ ch \in [Usages -> Nat]
        /\ \A x \in Usages : /\ Weights(LeftIn(vs, ev, x), Len(vs))
                             /\ ch[x] + Total(LeftIn(vs, ev, x), Len(vs)) = charged[x] + Count(vs, x)
    BY <1>1 DEF AllSettled, Accounts
  <1>9. ASSUME NEW x \in Usages PROVE Balanced(charged[x], Off(x), Debt(x), Waiting(x), Due(x))'
    <2> DEFINE c == charged[x]   o == Off(x)   h == Debt(x)   w == Waiting(x)   e == Due(x)   a == Times(x, f)
               c1 == ch[x]   l == Total(LeftIn(vs, ev, x), Len(vs))   k == m - 1
               p == Count(SubSeq(queue, 1, k), x)   b == Count(SubSeq(queue, k + 1, Len(queue)), x)
    <2>1. Balanced(c, o, h, w, e)
      BY DEF Accounted
    <2>2. k \in 0..Len(queue) /\ k + 1 = m
      BY <1>0, <1>7
    <2>3. Len(vs) \in Nat /\ l \in Nat
      BY <1>6, <1>8, TotalIsNat
    <2>4. c1 + l = c + (a + p)
      BY <1>7, <1>8
    <2> HIDE DEF k
    <2>5. /\ Count(queue, x) = p + b
          /\ SubSeq(queue, 1, k) \in Seq(Vouchers) /\ SubSeq(queue, k + 1, Len(queue)) \in Seq(Vouchers)
      BY <1>0, <2>2, VouchersBill, CountOfParts
    <2>6. p \in Nat /\ b \in Nat /\ a \in Nat /\ c1 \in Nat /\ c \in Nat
      BY <1>6, <1>8, <2>5, VouchersBill, CountIsNat, TermsAre
    <2>7. w = (p + b) + a
      BY <1>5, <2>5 DEF Waiting
    <2>8. Waiting(x)' = b + l
      <3>1. Waiting(x)' = Behind(queue', m, x) + Unpaid(t, x)'
        BY <1>2, <1>5 DEF Waiting
      <3>2. Behind(queue', m, x) = b
        BY <1>3, <2>2 DEF Behind
      <3>3. Unpaid(t, x)' = l
        BY <1>4 DEF Unpaid
      <3> QED BY <3>1, <3>2, <3>3
    <2>9. charged'[x] = c1 /\ Off(x)' = o /\ Debt(x)' = h /\ Due(x)' = e
      BY <1>3, <1>4 DEF Off, Debt, Due
    <2> HIDE DEF c, o, h, w, e, a, c1, l, p, b
    <2>10. b + l \in Nat /\ c1 + (b + l) = c + w
      BY <2>3, <2>4, <2>6, <2>7
    <2>11. Balanced(c1, o, h, b + l, e)
      BY <2>1, <2>6, <2>10, ChargeBalance
    <2> QED BY <2>8, <2>9, <2>11
  <1> QED BY <1>9 DEF Accounted

\* The statuses of a mined transaction park or write off what left no event, and
\* in steady times all of it.
LEMMA StatusesCover ==
    ASSUME SettlerTypes, Refusals, NEW t \in TxIds, fate[t] = "mined", NEW u, NEW x \in Usages
    PROVE  /\ Within(Pushes(txVouchers[t], Statuses(t), u, x), WrittenOff(txVouchers[t], Statuses(t), x),
                     LeftIn(txVouchers[t], events[t], x), Len(txVouchers[t]))
           /\ Steady => Together(Pushes(txVouchers[t], Statuses(t), u, x), WrittenOff(txVouchers[t], Statuses(t), x),
                                 LeftIn(txVouchers[t], events[t], x), Len(txVouchers[t]))
  <1> DEFINE vs == txVouchers[t]   ev == events[t]   st == Statuses(t)   n == Len(vs)
             p == Pushes(vs, st, u, x)   f == WrittenOff(vs, st, x)   l == LeftIn(vs, ev, x)
  <1>0. ChainTypes
    BY DEF SettlerTypes
  <1>1. vs \in Seq(Signed)
    BY <1>0 DEF ChainTypes
  <1>2. n \in Nat /\ DOMAIN vs = 1..n /\ \A i \in 1..n : vs[i].uses \in Seq(Usages)
    BY <1>1 DEF Signed
  <1>3. \A i \in 1..n : Times(x, vs[i]) \in Nat
    BY <1>2, TimesIsNat
  <1>4. \A i \in 1..n : st[i] = IF ev[i] \in WithEvent THEN ev[i] ELSE StatusIn(Now, vs[i])
    BY <1>2 DEF Statuses
  <1>5. \A i \in 1..n :
           /\ p[i] = IF st[i] = "NOT_ACKNOWLEDGED" /\ vs[i].user = u THEN Times(x, vs[i]) ELSE 0
           /\ f[i] = IF st[i] \in {"INVALID_SIGNATURE", "INVALID_NONCE"} THEN Times(x, vs[i]) ELSE 0
           /\ l[i] = IF ev[i] \in WithEvent THEN 0 ELSE Times(x, vs[i])
    BY <1>2 DEF Pushes, WrittenOff, LeftIn
  <1>6. ASSUME Steady, NEW i \in 1..n, ev[i] \notin WithEvent PROVE st[i] \in {"INVALID_SIGNATURE", "INVALID_NONCE"}
    <2>1. acked = Users /\ Refused(t, i)
      BY <1>2, <1>6 DEF Refusals
    <2>2. ~active \/ vs[i].nonce <= lastNonce[vs[i].user]
      BY <1>6, <2>1 DEF Refused, NonceIn, UserIn
    <2>3. vs[i].user \in Users
      BY <1>1, <1>2 DEF Signed
    <2>4. st[i] = StatusIn(Now, vs[i])
      BY <1>4, <1>6
    <2> QED BY <2>1, <2>2, <2>3, <2>4 DEF StatusIn, Now
  <1> HIDE DEF vs, ev, st, n, p, f, l
  <1>7. \A i \in 1..n : ev[i] \in WithEvent => st[i] \notin {"NOT_ACKNOWLEDGED", "INVALID_SIGNATURE", "INVALID_NONCE"}
    BY <1>4 DEF WithEvent
  <1>8. Within(p, f, l, n)
    <2>1. ASSUME NEW i \in 1..n PROVE p[i] + f[i] <= l[i]
      <3> DEFINE k == Times(x, vs[i])
      <3>1. k \in Nat
        BY <1>3
      <3>2. p[i] \in {0, k} /\ f[i] \in {0, k} /\ (p[i] = 0 \/ f[i] = 0)
        BY <1>5
      <3>3. CASE ev[i] \in WithEvent
        <4>1. p[i] = 0 /\ f[i] = 0 /\ l[i] = 0
          BY <1>5, <1>7, <3>3
        <4> QED BY <4>1
      <3>4. CASE ev[i] \notin WithEvent
        <4>1. l[i] = k
          BY <1>5, <3>4
        <4> HIDE DEF k
        <4> QED BY <3>1, <3>2, <4>1
      <3> QED BY <3>3, <3>4
    <2> QED BY <2>1 DEF Within
  <1>9. ASSUME Steady PROVE Together(p, f, l, n)
    <2>1. ASSUME NEW i \in 1..n PROVE p[i] + f[i] = l[i]
      <3> DEFINE k == Times(x, vs[i])
      <3>1. k \in Nat
        BY <1>3
      <3>3. CASE ev[i] \in WithEvent
        <4>1. p[i] = 0 /\ f[i] = 0 /\ l[i] = 0
          BY <1>5, <1>7, <3>3
        <4> QED BY <4>1
      <3>4. CASE ev[i] \notin WithEvent
        <4>1. l[i] = k /\ f[i] = k /\ p[i] = 0
          BY <1>5, <1>6, <1>9, <3>4
        <4> HIDE DEF k
        <4> QED BY <3>1, <4>1
      <3> QED BY <3>3, <3>4
    <2> QED BY <2>1 DEF Together
  <1> QED BY <1>8, <1>9 DEF vs, ev, st, n, p, f, l

\* HandleStatuses pops what the batch covers, and parks or writes off what left no event.
LEMMA PollAccounts ==
    ASSUME SettlerTypes, DeskSafe, Accounted, Refusals, PollMined PROVE Accounted'
  <1>0. StoreTypes /\ ChainTypes
    BY DEF SettlerTypes
  <1>1. pc = "inflight" /\ fate[batch.rec.tx] = "mined" /\ pc' = "handled" /\ UNCHANGED <<charged, emitted, txVouchers, events>>
        /\ HandleStatuses(batch.rec.vouchers, Statuses(batch.rec.tx), batch.rec.consumed)
    BY DEF PollMined, Polling, chainVars
  <1>2. Rec = batch.rec /\ Carried
    BY <1>1 DEF Rec, Carried
  <1>3. Rec.tx \in TxIds /\ Rec.vouchers = txVouchers[Rec.tx] /\ Rec.consumed \in 1..(Len(queue) + 1)
    BY <1>2, RecIs DEF DeskSafe, Covers
  <1>4. Mode = "mined" /\ Mode' = "none"
    BY <1>1, <1>2 DEF Mode, Carried
  <1>5. PICK t \in TxIds : t = Rec.tx /\ fate[t] = "mined"
    BY <1>1, <1>2, <1>3
  <1> DEFINE vs == txVouchers[t]   st == Statuses(t)   m == Rec.consumed   n == Len(vs)
  <1>6. vs \in Seq(Signed) /\ m \in Nat \ {0} /\ n \in Nat /\ DOMAIN vs = 1..n
    BY <1>0, <1>3 DEF StoreTypes, ChainTypes
  <1>7. HandleStatuses(vs, st, m)
    BY <1>1, <1>2, <1>3, <1>5
  <1> HIDE DEF vs, st, m, n
  <1>8. queue' = SubSeq(queue, m, Len(queue)) /\ \A u \in Users : held'[u] = PushHeld(held[u], vs, st, u)
    BY <1>0, <1>1, <1>6, <1>7, HandledTypes
  <1>9. ASSUME NEW x \in Usages PROVE Balanced(charged[x], Off(x), Debt(x), Waiting(x), Due(x))'
    <2> DEFINE u == UserOf[x]   P == Pushes(vs, st, u, x)   F == WrittenOff(vs, st, x)   L == LeftIn(vs, events[t], x)
               c == charged[x]   o == Off(x)   h == Debt(x)   e == Due(x)
               p == Total(P, n)   f == Total(F, n)   l == Total(L, n)   b == Behind(queue, m, x)
    <2>1. Balanced(c, o, h, Waiting(x), e)
      BY DEF Accounted
    <2>2. Waiting(x) = b + l
      BY <1>4, <1>5 DEF Waiting, Unpaid, vs, n, m
    <2>3. b \in Nat
      BY <1>6, TermsAre
    <2>4. u \in Users
      BY UsageAssumption
    <2>5. held[u] \in Seq(OfUsers({u}))
      BY <1>0, <2>4 DEF StoreTypes, HeldLists
    <2>6. Weights(P, n) /\ Count(PushHeld(held[u], vs, st, u), x) = Count(held[u], x) + p
      <3> DEFINE debt == held[u]
      <3>1. debt \in Seq(OfUsers({u}))
        BY <2>5
      <3> HIDE DEF debt, u
      <3>2. vs \in Seq(Signed)
        BY <1>6
      <3> HIDE DEF P, F, L, c, o, h, e, p, f, l, b
      <3>3. \A y : /\ Weights(Pushes(vs, st, u, y), Len(vs))
                   /\ Count(PushHeld(debt, vs, st, u), y) = Count(debt, y) + Total(Pushes(vs, st, u, y), Len(vs))
        BY <3>1, <3>2, PushKeeps
      <3> QED BY <3>3 DEF debt, n, p, P
    <2>7. /\ Weights(F, n)
          /\ (\E i \in DOMAIN vs : st[i] \in {"INVALID_SIGNATURE", "INVALID_NONCE"} /\ x \in ToSet(vs[i].uses)) <=> f >= 1
      BY <1>6, WrittenOffCounted DEF n
    <2>8. Weights(L, n)
      <3>1. \A i \in 1..n : vs[i].uses \in Seq(Usages)
        BY <1>6 DEF Signed
      <3>2. \A i \in 1..n : L[i] \in Nat
        BY <1>6, <3>1, TimesIsNat DEF LeftIn
      <3> QED BY <3>2 DEF Weights
    <2>9. Within(P, F, L, n) /\ (Steady => Together(P, F, L, n))
      BY <1>5, StatusesCover DEF vs, st, n
    <2> HIDE DEF P, F, L
    <2>10. p \in Nat /\ f \in Nat /\ l \in Nat
      BY <1>6, <2>6, <2>7, <2>8, TotalIsNat
    <2>11. p + f <= l /\ (Steady => p + f = l)
      BY <1>6, <2>6, <2>7, <2>8, <2>9, TotalsCompare
    <2>12. Waiting(x)' = b
      <3>1. Waiting(x)' = Count(queue', x)
        BY <1>4 DEF Waiting
      <3> QED BY <1>8, <3>1 DEF Behind
    <2>13. Debt(x)' = h + p
      <3>1. held'[u] = PushHeld(held[u], vs, st, u)
        BY <1>8, <2>4
      <3> QED BY <2>6, <3>1 DEF Debt
    <2>14. PICK o1 \in 0..1 : Off(x)' = o1 /\ (f >= 1 => o1 = 1) /\ (~(f >= 1) => o1 = o)
      <3> DEFINE hit == \E i \in DOMAIN vs : st[i] \in {"INVALID_SIGNATURE", "INVALID_NONCE"} /\ x \in ToSet(vs[i].uses)
      <3>1. x \in dlq' \cup discarded' <=> x \in dlq \cup discarded \/ hit
        BY <1>7 DEF HandleStatuses
      <3>2. hit <=> f >= 1
        BY <2>7
      <3> HIDE DEF hit, f
      <3>3. Off(x)' = IF hit THEN 1 ELSE o
        BY <3>1 DEF Off
      <3>4. o \in 0..1
        BY DEF Off
      <3> QED BY <3>2, <3>3, <3>4
    <2>15. charged'[x] = c /\ Due(x)' = e
      BY <1>1 DEF Due
    <2>16. Balanced(c, o, h, b + l, e)
      BY <2>1, <2>2
    <2> HIDE DEF c, o, h, e, p, f, l, b
    <2>17. f = 0 => o1 = o
      BY <2>10, <2>14
    <2>18. Resolved(l, p, f, o, o1)
      BY <2>10, <2>11, <2>14, <2>17 DEF Resolved
    <2>19. Balanced(c, o1, h + p, b, e)
      BY <2>3, <2>16, <2>18, ResolveBalance
    <2> QED BY <2>12, <2>13, <2>14, <2>15, <2>19
  <1> QED BY <1>9 DEF Accounted

\* A key that was invalidated stays so.
LEMMA StaysInactive ==
    ASSUME Steady, [Next]_vars, ~active PROVE ~active'
  <1>1. CASE UNCHANGED active
    BY <1>1
  <1>2. CASE Rotate
    BY <1>2 DEF Rotate, Steady
  <1>3. UNCHANGED active \/ Rotate
    BY DEF Next, SettlerStep, Environment, vars, redisVars, procVars, chainVars, histVars, boundVars,
          StartClean, StartResolve, ReconcileIntent, ReconcileFailed, ForcedSweepThrottled, CheckProvider, BLPop,
          SignBatch, SignFailed, SaveTxHash, PollFailed, PollReverted, PollDroppedOnce, PollDropped, GiveBack,
          SubmitSettleFees, SubmitFailed, Broadcast, PollMined, Enqueue, AdminAggregate, Mine, NotMined, Deposit,
          Withdraw, ChangeAck, Compete, PeriodicSweep, ForcedSweep, FinishBatch, Crash
  <1> QED BY <1>1, <1>2, <1>3

\* What was turned down is still turned down after every step.
LEMMA StepRefusals ==
    ASSUME SettlerTypes, Refusals, [Next]_vars PROVE Refusals'
  <1> USE DEF redisVars, procVars, chainVars, histVars, boundVars
  <1> SUFFICES ASSUME Steady
               PROVE  acked' = Users /\ \A t \in TxIds : fate'[t] = "mined" => \A i \in DOMAIN txVouchers'[t] : Refused(t, i)'
    BY DEF Refusals
  <1>0. ChainTypes
    BY DEF SettlerTypes
  <1>1. acked = Users /\ \A t \in TxIds : fate[t] = "mined" => \A i \in DOMAIN txVouchers[t] : Refused(t, i)
    BY DEF Refusals
  <1>2. acked' = Users
    BY <1>1, StepAcked DEF Steady
  <1>3. ASSUME NEW l \in [Users -> Nat], lastNonce' = l, \A u \in Users : lastNonce[u] <= l[u],
               NEW t \in TxIds, fate[t] = "mined", txVouchers'[t] = txVouchers[t], events'[t] = events[t],
               NEW i \in DOMAIN txVouchers[t]
        PROVE  Refused(t, i)'
    <2> DEFINE u == UserIn(t, i)   n == NonceIn(t, i)   a == lastNonce[u]   b == l[u]
    <2>1. u \in Users /\ n \in Nat /\ UserIn(t, i)' = u /\ NonceIn(t, i)' = n
      BY <1>0, <1>3, NonceTypes DEF UserIn, NonceIn
    <2>2. a \in Nat /\ b \in Nat /\ a <= b
      BY <1>0, <1>3, <2>1 DEF ChainTypes
    <2>3. events[t][i] \notin WithEvent => ~active \/ n <= a
      BY <1>1, <1>3 DEF Refused
    <2>4. lastNonce'[UserIn(t, i)'] = b
      BY <1>3, <2>1
    <2> HIDE DEF u, n, a, b
    <2>5. n <= a => n <= b
      BY <2>1, <2>2
    <2>6. events[t][i] \notin WithEvent => ~active' \/ n <= b
      BY <2>3, <2>5, StaysInactive
    <2> QED BY <1>3, <2>1, <2>4, <2>6 DEF Refused
  <1>4. CASE UNCHANGED lastNonce /\ \A t \in TxIds : fate'[t] = "mined" => fate[t] = "mined"
    <2>1. ASSUME NEW t \in TxIds, fate'[t] = "mined" PROVE \A i \in DOMAIN txVouchers'[t] : Refused(t, i)'
      <3>1. fate[t] = "mined"
        BY <1>4, <2>1
      <3>2. txVouchers'[t] = txVouchers[t] /\ events'[t] = events[t]
        BY <3>1, FatesMove DEF Moved
      <3>3. lastNonce \in [Users -> Nat] /\ \A u \in Users : lastNonce[u] <= lastNonce[u]
        BY <1>0 DEF ChainTypes
      <3> QED BY <1>3, <1>4, <3>1, <3>2, <3>3
    <2> QED BY <1>2, <2>1
  <1>5. CASE UNCHANGED vars
    BY <1>4, <1>5 DEF vars
  <1>6. CASE Crash \/ (SettlerStep /\ UNCHANGED <<lastNonce, fate>>)
    BY <1>4, <1>6 DEF Crash
  <1>7. CASE SubmitSettleFees \/ SubmitFailed
    <2>1. UNCHANGED lastNonce /\ (UNCHANGED fate \/ Broadcast)
      BY <1>7 DEF SubmitSettleFees, SubmitFailed, Broadcast
    <2>2. CASE Broadcast
      <3>1. NextTx \in TxIds /\ fate' = [fate EXCEPT ![NextTx] = "pool"]
        BY <2>2, NextTxIs DEF Broadcast
      <3>2. \A t \in TxIds : fate'[t] = "mined" => fate[t] = "mined"
        BY <1>0, <3>1 DEF ChainTypes
      <3> QED BY <1>4, <2>1, <3>2
    <2> QED BY <1>4, <2>1, <2>2
  <1>8. SettlerStep => UNCHANGED <<lastNonce, fate>> \/ SubmitSettleFees \/ SubmitFailed
    BY DEF SettlerStep, StartClean, StartResolve, ReconcileIntent, ReconcileFailed, ForcedSweepThrottled, CheckProvider, BLPop,
          SignBatch, SignFailed, SaveTxHash, PollFailed, PollReverted, PollDroppedOnce, PollDropped, GiveBack,
          PollMined, PeriodicSweep, ForcedSweep, FinishBatch
  <1>9. CASE Mine
    <2>1. PICK s, r :
              /\ s \in TxIds
              /\ fate[s] = "pool" /\ fate' = [fate EXCEPT ![s] = "mined"]
              /\ AllSettled(r, txVouchers[s])
              /\ events' = [events EXCEPT ![s] = r.events]
              /\ lastNonce' = r.lastNonce
              /\ UNCHANGED <<active, txVouchers>>
      BY <1>0, <1>9, MinedIs
    <2> s \in TxIds
      BY <2>1
    <2> DEFINE l == r.lastNonce   ev == r.events   vs == txVouchers[s]
    <2>2. DOMAIN vs = 1..Len(vs) /\ \A i \in DOMAIN vs : vs[i].user \in Users
      <3>1. vs \in Seq(Signed)
        BY <1>0 DEF ChainTypes
      <3> QED BY <3>1 DEF Signed
    <2>3. /\ l \in [Users -> Nat] /\ \A u \in Users : lastNonce[u] <= l[u]
          /\ \A i \in DOMAIN vs : ev[i] \notin WithEvent => ~active \/ vs[i].nonce <= l[vs[i].user]
      <3>1. r \in Accounts /\ \A u \in Users : lastNonce[u] <= l[u]
        BY <2>1 DEF AllSettled
      <3>2. \A i \in 1..Len(vs) : ev[i] \notin WithEvent /\ vs[i].user \in acked => ~active \/ vs[i].nonce <= l[vs[i].user]
        BY <2>1 DEF AllSettled
      <3>3. l \in [Users -> Nat]
        BY <3>1 DEF Accounts
      <3> QED BY <1>1, <2>2, <3>1, <3>2, <3>3
    <2>4. lastNonce' = l /\ events'[s] = ev /\ txVouchers'[s] = vs /\ active' = active
      BY <1>0, <2>1 DEF ChainTypes
    <2>5. \A t \in TxIds : t # s => fate'[t] = fate[t] /\ events'[t] = events[t] /\ txVouchers'[t] = txVouchers[t]
      BY <1>0, <2>1 DEF ChainTypes
    <2> HIDE DEF l, ev, vs
    <2>6. ASSUME NEW i \in DOMAIN vs PROVE Refused(s, i)'
      BY <2>3, <2>4 DEF Refused, NonceIn, UserIn
    <2>7. ASSUME NEW t \in TxIds, fate'[t] = "mined", t # s, NEW i \in DOMAIN txVouchers'[t] PROVE Refused(t, i)'
      BY <1>3, <2>3, <2>4, <2>5, <2>7
    <2> QED BY <1>2, <2>4, <2>6, <2>7
  <1>10. CASE NotMined
    <2>1. NextInPool \in TxIds
      BY <1>10, NextInPoolIs DEF NotMined
    <2>2. UNCHANGED lastNonce /\ \A t \in TxIds : fate'[t] = "mined" => fate[t] = "mined"
      BY <1>0, <1>10, <2>1 DEF NotMined, ChainTypes
    <2> QED BY <1>4, <2>2
  <1>11. CASE Rotate \/ (\E x \in Usages : Enqueue(x))
             \/ \E u \in Users : Deposit(u) \/ Withdraw(u) \/ ChangeAck(u) \/ AdminAggregate(u)
    <2>1. UNCHANGED <<lastNonce, fate>>
      BY <1>11 DEF Rotate, Enqueue, Deposit, Withdraw, ChangeAck, AdminAggregate
    <2> QED BY <1>4, <2>1
  <1>12. ASSUME NEW v \in Users, Compete(v)
         PROVE  acked' = Users /\ \A t \in TxIds : fate'[t] = "mined" => \A i \in DOMAIN txVouchers'[t] : Refused(t, i)'
    <2> DEFINE n == lastNonce[v] + 1   l == [lastNonce EXCEPT ![v] = n]
    <2>1. n \in Nat /\ lastNonce[v] <= n /\ \A u \in Users : lastNonce[u] <= lastNonce[u]
      BY <1>0 DEF ChainTypes
    <2>2. lastNonce' = l /\ UNCHANGED <<fate, txVouchers, events>>
      BY <1>12 DEF Compete
    <2> HIDE DEF n
    <2>3. l \in [Users -> Nat] /\ \A u \in Users : lastNonce[u] <= l[u]
      BY <1>0, <2>1 DEF ChainTypes
    <2> HIDE DEF l
    <2>4. ASSUME NEW t \in TxIds, fate'[t] = "mined", NEW i \in DOMAIN txVouchers'[t] PROVE Refused(t, i)'
      BY <1>3, <2>2, <2>3, <2>4
    <2> QED BY <1>2, <2>4
  <1> QED BY <1>5, <1>6, <1>7, <1>8, <1>9, <1>10, <1>11, <1>12 DEF Next, Environment

\* Every step keeps the accounts.
LEMMA StepAccounts ==
    ASSUME SafeEnvironment, SettlerTypes, DeskSafe, Accounted, Refusals, [Next]_vars PROVE Accounted'
  <1> USE DEF redisVars, procVars, chainVars, histVars, boundVars
  <1>0. StoreTypes /\ ChainTypes /\ ProcessTypes /\ RecordAgrees /\ HandAgrees
    BY DEF SettlerTypes, DeskAgrees
  <1>1. Carried => Rec.tx \in TxIds
    BY RecIs
  <1>2. ASSUME UNCHANGED <<pc, record, batch, queue, charged, dlq, discarded, held, emitted, txVouchers, events>>,
               \A t \in TxIds : fate'[t] = "mined" <=> fate[t] = "mined"
        PROVE  Accounted'
    <2>1. Rec' = Rec /\ (Carried' <=> Carried)
      BY <1>2 DEF Rec, Carried, Recorded
    <2>2. Mode' = Mode
      BY <1>1, <1>2, <2>1 DEF Mode
    <2> QED BY <1>2, <2>1, <2>2, SameAccounts
  <1>3. ASSUME UNCHANGED <<queue, charged, dlq, discarded, held, emitted, txVouchers, events, fate>>,
               Mode' = Mode, Mode # "none" => Rec' = Rec
        PROVE  Accounted'
    BY <1>3, SameAccounts
  <1>4. CASE UNCHANGED vars
    BY <1>2, <1>4 DEF vars
  <1>5. CASE Rotate \/ \E u \in Users : Deposit(u) \/ Withdraw(u) \/ ChangeAck(u) \/ Compete(u)
    BY <1>2, <1>5 DEF Rotate, Deposit, Withdraw, ChangeAck, Compete
  <1>6. CASE \E x \in Usages : Enqueue(x)
    BY <1>6, EnqueueAccounts
  <1>7. CASE \E u \in Users : AdminAggregate(u)
    BY <1>7 DEF AdminAggregate, SafeEnvironment
  <1>8. CASE Mine
    BY <1>8, MineAccounts
  <1>9. CASE NotMined
    <2>1. NextInPool \in TxIds /\ fate[NextInPool] = "pool"
      BY <1>9, NextInPoolIs DEF NotMined
    <2>2. \A t \in TxIds : fate'[t] = "mined" <=> fate[t] = "mined"
      BY <1>0, <1>9, <2>1 DEF NotMined, ChainTypes
    <2> QED BY <1>2, <1>9, <2>2 DEF NotMined
  <1>10. CASE StartClean
    <2>1. ~Recorded /\ pc = "start" /\ pc' = "loop"
      BY <1>10 DEF StartClean, SafeEnvironment
    <2>2. Mode = "none" /\ Mode' = "none"
      BY <2>1 DEF Mode, Carried
    <2> QED BY <1>3, <1>10, <2>2 DEF StartClean
  <1>11. CASE StartResolve
    <2>1. Holds(batch', record) /\ pc = "start" /\ pc' = "inflight" /\ record.tx # NoTx /\ UNCHANGED fate
      BY <1>0, <1>11, BatchOf DEF StartResolve, ProcessTypes
    <2>2. Recorded
      BY <1>0, <2>1 DEF RecordAgrees
    <2>3. Rec' = Rec /\ Carried /\ Carried'
      BY <2>1, <2>2 DEF Rec, Carried, Holds
    <2>4. Mode' = Mode
      BY <2>1, <2>3 DEF Mode
    <2> QED BY <1>3, <1>11, <2>3, <2>4 DEF StartResolve
  <1>12. CASE ReconcileIntent \/ ReconcileFailed
    BY <1>12 DEF ReconcileIntent, ReconcileFailed, DeskSafe
  <1>13. CASE PeriodicSweep \/ ForcedSweep \/ FinishBatch
    <2>1. PICK S, from, memo : S \in SUBSET Users /\ SweepUsers(S, from, memo)
      <3>1. QueuedUsers(queue) \in SUBSET Users /\ HeldUsers \in SUBSET Users
        BY <1>0 DEF QueuedUsers, HeldUsers, Vouchers, StoreTypes
      <3>2. batch.broke \in SUBSET Users
        BY <1>0, BatchFields DEF ProcessTypes
      <3>3. CASE PeriodicSweep \/ ForcedSweep
        BY <3>1, <3>3 DEF PeriodicSweep, ForcedSweep, MaybeSweep
      <3>4. CASE FinishBatch
        BY <3>2, <3>4 DEF FinishBatch
      <3> QED BY <1>13, <3>3, <3>4
    <2> S \in SUBSET Users
      BY <2>1
    <2>2. pc \in {"loop", "degraded", "handled"} /\ pc' = "loop" /\ UNCHANGED <<charged, dlq, discarded, emitted>>
      BY <1>13 DEF PeriodicSweep, ForcedSweep, FinishBatch
    <2>3. Mode = "none" /\ Mode' = "none"
      BY <2>2 DEF Mode, Carried
    <2> QED BY <2>1, <2>2, <2>3, SweepAccounts
  <1>14. CASE ForcedSweepThrottled \/ CheckProvider
    <2>1. pc \in {"loop", "degraded"} /\ pc' = "loop"
      BY <1>14 DEF ForcedSweepThrottled, CheckProvider
    <2>2. Mode = "none" /\ Mode' = "none"
      BY <2>1 DEF Mode, Carried
    <2> QED BY <1>3, <1>14, <2>2 DEF ForcedSweepThrottled, CheckProvider
  <1>15. CASE BLPop
    BY <1>15, PopAccounts
  <1>16. CASE SignBatch
    <2>1. Holds(batch', record') /\ record'.first = batch.rec.first
      BY <1>16, SignedRecord
    <2>2. pc = "popped" /\ pc' = "intent"
      BY <1>16 DEF SignBatch
    <2>3. Mode = "hand" /\ Mode' = "hand" /\ Rec'.first = Rec.first
      BY <2>1, <2>2 DEF Mode, Carried, Rec, Holds
    <2> QED BY <1>16, <2>3, SameAccounts DEF SignBatch
  <1>17. CASE SubmitSettleFees
    <2> DEFINE n == NextTx
    <2>1. n \in TxIds
      BY <1>17, NextTxIs DEF SubmitSettleFees, Broadcast
    <2>2. /\ batch' = [batch EXCEPT !.rec.tx = n] /\ pc' = "broadcast" /\ pc = "intent"
          /\ fate' = [fate EXCEPT ![n] = "pool"]
      BY <1>17 DEF SubmitSettleFees, Broadcast
    <2> HIDE DEF n
    <2>3. batch'.rec.tx = n /\ batch'.rec.first = batch.rec.first
      BY <1>0, <2>1, <2>2, HashOf DEF ProcessTypes
    <2>4. fate'[n] = "pool"
      BY <1>0, <2>1, <2>2 DEF ChainTypes
    <2>5. Mode = "hand" /\ Mode' = "hand" /\ Rec'.first = Rec.first
      BY <2>2, <2>3, <2>4 DEF Mode, Carried, Rec
    <2> QED BY <1>17, <2>5, SameAccounts DEF SubmitSettleFees
  <1>18. CASE SignFailed \/ SubmitFailed \/ PollReverted \/ PollDropped
    <2>1. /\ queue' = <<batch.rec.first>> \o queue /\ UNCHANGED <<charged, dlq, discarded, held, emitted>>
          /\ pc \in {"popped", "intent", "inflight"} /\ pc' \in {"loop", "degraded"}
      BY <1>18 DEF SignFailed, SubmitFailed, PollReverted, PollDropped, Polling, GiveBack, PushFront
    <2>2. pc = "inflight" => fate[batch.rec.tx] \in {"reverted", "replaced"}
      BY <1>18 DEF SignFailed, SubmitFailed, PollReverted, PollDropped, Polling, LooksDropped
    <2>3. Mode = "hand" /\ Mode' = "none" /\ Rec.first = batch.rec.first
      BY <2>1, <2>2 DEF Mode, Carried, Rec
    <2> QED BY <2>1, <2>3, GivenBack
  <1>19. CASE SaveTxHash
    <2>1. batch' = [batch EXCEPT !.rec = batch.rec] /\ pc = "broadcast" /\ pc' = "inflight" /\ UNCHANGED fate
      BY <1>19 DEF SaveTxHash, BroadcastRecord
    <2>2. Holds(batch', batch.rec)
      BY <1>0, <2>1, Rebatched, BatchFields DEF ProcessTypes
    <2>3. Rec' = Rec /\ Carried /\ Carried'
      BY <2>1, <2>2 DEF Rec, Carried, Holds
    <2>4. Mode' = Mode
      BY <2>1, <2>3 DEF Mode
    <2> QED BY <1>3, <1>19, <2>3, <2>4 DEF SaveTxHash
  <1>20. CASE PollFailed \/ PollDroppedOnce
    BY <1>2, <1>20 DEF PollFailed, PollDroppedOnce
  <1>21. CASE PollMined
    BY <1>21, PollAccounts
  <1>22. CASE Crash
    <2>1. UNCHANGED <<record, fate>> /\ pc \in {"start", "loop", "inflight", "degraded"} /\ pc' = "start"
      BY <1>0, <1>22 DEF Crash, SafeEnvironment, ProcessTypes
    <2>2. (Carried' <=> Carried) /\ (Carried => Rec' = Rec)
      BY <1>0, <2>1 DEF Carried, Rec, Recorded, DeskSafe, HandAgrees
    <2>3. Mode' = Mode /\ (Mode # "none" => Rec' = Rec)
      BY <2>1, <2>2 DEF Mode
    <2> QED BY <1>3, <1>22, <2>3 DEF Crash
  <1> QED BY <1>4, <1>5, <1>6, <1>7, <1>8, <1>9, <1>10, <1>11, <1>12, <1>13, <1>14, <1>15, <1>16, <1>17, <1>18, <1>19,
             <1>20, <1>21, <1>22 DEF Next, SettlerStep, Environment

\* The inductive invariant.
SettlerInv == SettlerTypes /\ DeskSafe /\ Accounted /\ Refusals

\* The inductive invariant of the accounts holds in every state.
LEMMA AccountsHold ==
    ASSUME SafeEnvironment PROVE Spec => []SettlerInv
  <1>1. Init => SettlerInv
    BY InitTypes, InitAccounts DEF SettlerInv
  <1>2. SettlerInv /\ [Next]_vars => SettlerInv'
    BY StepTypes, StepDesk, StepAccounts, StepRefusals DEF SettlerInv
  <1> QED BY <1>1, <1>2, PTL DEF Spec

\* No usage is settled twice: not by a restart that resolves the in-flight transaction,
\* nor by a batch that fails, reverts, is replaced or is signed again, nor by a sweep,
\* a collapse or an entry pushed back (Run, resolvePendingTx, requeueRaw).
THEOREM ChargedOnce ==
    ASSUME SafeEnvironment PROVE Spec => []NoDoubleCharge
  <1>1. SettlerInv => NoDoubleCharge
    BY NoneTwice DEF SettlerInv
  <1> QED BY <1>1, AccountsHold, PTL

\* The entries HandleStatuses pops by count are the ones its batch was built from, for
\* nothing rewrites the queue while a batch waits for its transaction.
THEOREM HeadKept ==
    ASSUME SafeEnvironment PROVE Spec => []BatchAtHead
  <1>1. SettlerInv => BatchAtHead
    BY HeadIsBatch DEF SettlerInv
  <1> QED BY <1>1, AccountsHold, PTL

\* Every usage that billing emitted is settled, written off on purpose, parked as debt,
\* queued or in the batch at hand: when no verdict on a voucher turns around between the
\* mining and the preview of HandleStatuses, a batch that fails, reverts, is dropped or
\* survives a restart loses none.
THEOREM NoUnitLost ==
    ASSUME SafeEnvironment, Steady PROVE Spec => []NothingLost
  <1>1. SettlerInv => NothingLost
    BY NoneLost DEF SettlerInv
  <1> QED BY <1>1, AccountsHold, PTL

-----------------------------------------------------------------------------
(* What a transaction takes from the balances. *)

\* b, as far as it goes.
Less(b, f) == IF f <= b THEN b - f ELSE 0

\* A voucher that bills its units once costs what they cost.
LEMMA FeeOfUnits ==
    ASSUME NEW v, v.uses \in Seq(Usages), \A x \in Usages : Times(x, v) <= 1
    PROVE  IsFiniteSet(ToSet(v.uses)) /\ TotalFee(v) = SumFunctionOnSet(FeeOf, ToSet(v.uses))
  <1> DEFINE s == v.uses   n == Len(s)   U(k) == {s[i] : i \in 1..k}
  <1>1. n \in Nat /\ DOMAIN s = 1..n /\ \A i \in 1..n : s[i] \in Usages /\ FeeOf[s[i]] \in Nat
    BY UsageAssumption
  <1>2. PICK h \in [0..n -> Nat] : /\ h[0] = 0
                                   /\ \A k \in 1..n : h[k] = (h[k - 1] + FeeOf[s[k]])
                                   /\ TotalFee(v) = h[n]
    BY FeeLoop
  <1>3. ASSUME NEW i \in 1..n, NEW j \in 1..n, s[i] = s[j] PROVE i = j
    <2> DEFINE S == Spots(s, s[i])
    <2>1. IsFiniteSet(S) /\ Cardinality(S) \in Nat
      BY SpotsFinite
    <2>2. Cardinality(S) <= 1
      BY <1>1 DEF Times, Spots
    <2>3. i \in S /\ j \in S
      BY <1>1, <1>3 DEF Spots
    <2> HIDE DEF S
    <2>4. Cardinality(S) # 0
      BY <2>1, <2>3, FS_EmptySet
    <2>5. Cardinality(S) = 1
      BY <2>1, <2>2, <2>4
    <2>6. \E x : S = {x}
      BY <2>1, <2>5, FS_Singleton
    <2> QED BY <2>3, <2>6
  <1>4. U(n) = ToSet(s)
    BY <1>1 DEF ToSet
  <1>5. \A k \in 0..n : \A x \in U(k) : x \in Usages /\ FeeOf[x] \in Nat
    BY <1>1
  <1> DEFINE T == {k \in 0..n : IsFiniteSet(U(k)) /\ h[k] = SumFunctionOnSet(FeeOf, U(k))}
  <1>6. 0 \in T
    <2>1. U(0) = {} /\ 0 \in 0..n
      BY <1>1
    <2>2. SumFunctionOnSet(FeeOf, {}) = 0 /\ IsFiniteSet({})
      BY SumOfZeros, FS_EmptySet
    <2> QED BY <1>2, <2>1, <2>2
  <1>7. ASSUME NEW k \in 0..(n - 1), k \in T PROVE k + 1 \in T
    <2> DEFINE j == k + 1   A == U(k)   B == U(j)   a == s[j]
    <2>1. j \in 1..n /\ j - 1 = k /\ j \in 0..n /\ k \in 0..n
      BY <1>1
    <2>2. B = A \cup {a}
      <3>1. \A i : i \in 1..j <=> i \in 1..k \/ i = j
        BY <1>1
      <3> HIDE DEF j
      <3> QED BY <3>1
    <2>3. a \notin A
      <3>1. \A i \in 1..k : i \in 1..n /\ i # j
        BY <1>1
      <3> QED BY <1>3, <2>1, <3>1
    <2>4. IsFiniteSet(A) /\ h[k] = SumFunctionOnSet(FeeOf, A)
      BY <1>7
    <2>5. \A x \in B : FeeOf[x] \in Nat
      BY <1>5, <2>1
    <2>6. h[j] = h[k] + FeeOf[a]
      BY <1>2, <2>1
    <2> HIDE DEF A, B, a, j
    <2>7. IsFiniteSet(B) /\ a \in B /\ B \ {a} = A
      BY <2>2, <2>3, <2>4, FS_AddElement
    <2>8. SumFunctionOnSet(FeeOf, B) = SumFunctionOnSet(FeeOf, B \ {a}) + FeeOf[a]
      BY <2>5, <2>7, SumSplits
    <2>9. SumFunctionOnSet(FeeOf, B) = h[j]
      BY <2>4, <2>6, <2>7, <2>8, Zenon
    <2>10. j \in T
      BY <2>1, <2>7, <2>9 DEF B
    <2> QED BY <2>10 DEF j
  <1> HIDE DEF T, n
  <1>8. n \in T
    BY <1>1, <1>6, <1>7, CountingUp
  <1> QED BY <1>2, <1>4, <1>8 DEF T

\* What one voucher does to the balances.
MoneyTaken(b, r, status, v) ==
    /\ r \in [Users -> Nat]
    /\ \A u \in Users : r[u] = IF status \in WithEvent /\ u = v.user THEN Less(b[u], TotalFee(v)) ELSE b[u]

\* _settleOne takes the fee, or what there is.
LEMMA SettleOneTakes ==
    ASSUME NEW st \in Accounts, NEW v \in Signed
    PROVE  MoneyTaken(st.balance, SettleOne(st, v).balance, StatusIn(st, v), v)
  <1> DEFINE s == StatusIn(st, v)   u == v.user   fee == TotalFee(v)   r == SettleOne(st, v)
             B == st.balance
  <1>1. u \in Users /\ v.uses \in Seq(Usages)
    BY DEF Signed
  <1>2. fee \in Nat
    BY <1>1, FeeIsNat
  <1>3. B \in [Users -> Nat]
    BY DEF Accounts
  <1>4. (s = "SUCCESS" => B[u] >= fee) /\ (s = "INSUFFICIENT_BALANCE" => ~(B[u] >= fee))
    BY DEF StatusIn
  <1>5. CASE s \notin WithEvent
    <2>1. r.balance = B
      BY <1>5 DEF SettleOne, Accounts
    <2> HIDE DEF r, s, B
    <2>2. MoneyTaken(B, r.balance, s, v)
      BY <1>3, <1>5, <2>1 DEF MoneyTaken
    <2> QED BY <2>2 DEF r, s, B
  <1>6. CASE s \in WithEvent
    <2> DEFINE b == [B EXCEPT ![u] = IF s = "SUCCESS" THEN B[u] - fee ELSE 0]
    <2>1. r.balance = b
      BY <1>6 DEF SettleOne
    <2>2. s = "SUCCESS" \/ s = "INSUFFICIENT_BALANCE"
      BY <1>6 DEF WithEvent
    <2> HIDE DEF r, s, B, fee
    <2>3. b[u] = Less(B[u], fee) /\ b[u] \in Nat
      BY <1>1, <1>2, <1>3, <1>4, <2>2 DEF Less
    <2>4. b \in [Users -> Nat] /\ \A w \in Users : w # u => b[w] = B[w]
      BY <1>1, <1>2, <1>3, <1>4, <2>3
    <2> HIDE DEF b
    <2>5. MoneyTaken(B, b, s, v)
      BY <1>6, <2>3, <2>4 DEF MoneyTaken, fee
    <2> QED BY <2>1, <2>5 DEF r, s, B
  <1> QED BY <1>5, <1>6

\* The units of u that were charged since the charges were c0.
Since(c0, c, u) == {x \in Usages : c[x] > c0[x] /\ UserOf[x] = u}

\* Since then the fees of these units were taken from the balance b of u.
TakenFrom(b, c0, r, c, u) ==
    /\ \A x \in Usages : c0[x] <= c[x]
    /\ IsFiniteSet(Since(c0, c, u))
    /\ r[u] = Less(b, SumFunctionOnSet(FeeOf, Since(c0, c, u)))

\* What a voucher does to the charges.
ChargedBy(c, d, status, v) ==
    \A x \in Usages : d[x] = IF status \in WithEvent THEN c[x] + Times(x, v) ELSE c[x]

\* One voucher more, of units that are charged once.
LEMMA OneMoreTaken ==
    ASSUME NEW v \in Signed, NEW status, NEW u \in Users, NEW b \in Nat,
           NEW c0 \in [Usages -> Nat], NEW c \in [Usages -> Nat], NEW d \in [Usages -> Nat],
           NEW r \in [Users -> Nat], NEW q \in [Users -> Nat],
           TakenFrom(b, c0, r, c, u), MoneyTaken(r, q, status, v), ChargedBy(c, d, status, v),
           \A x \in Usages : d[x] <= 1
    PROVE  TakenFrom(b, c0, q, d, u)
  <1>1. v.user \in Users /\ v.uses \in Seq(Usages) /\ BillsOwn(v)
    BY DEF Signed
  <1>2. \A x \in Usages : Times(x, v) \in Nat /\ (x \in ToSet(v.uses) <=> Times(x, v) >= 1)
    BY <1>1, TimesIsNat, UnitIsCounted, SMTT(20)
  <1>3. ToSet(v.uses) \subseteq Usages /\ \A x \in ToSet(v.uses) : UserOf[x] = v.user
    BY <1>1 DEF ToSet, BillsOwn
  <1>4. \A x \in Usages : c0[x] <= c[x]
    BY DEF TakenFrom
  <1> DEFINE A == Since(c0, c, u)   D == Since(c0, d, u)   W == ToSet(v.uses)
  <1>5. IsFiniteSet(A) /\ r[u] = Less(b, SumFunctionOnSet(FeeOf, A))
    BY DEF TakenFrom
  <1>6. CASE ~(status \in WithEvent /\ u = v.user)
    <2>1. q[u] = r[u]
      BY <1>6 DEF MoneyTaken
    <2>2. \A x \in Usages : c0[x] <= d[x]
      <3>1. \A x \in Usages : d[x] = c[x] \/ d[x] = c[x] + Times(x, v)
        BY DEF ChargedBy
      <3> QED BY <1>2, <1>4, <3>1
    <2>3. \A x \in Usages : UserOf[x] = u => d[x] = c[x]
      <3>1. ASSUME NEW x \in Usages, UserOf[x] = u PROVE d[x] = c[x]
        <4>1. CASE status \notin WithEvent
          BY <4>1 DEF ChargedBy
        <4>2. CASE status \in WithEvent
          <5>1. x \notin ToSet(v.uses)
            BY <1>3, <1>6, <3>1, <4>2
          <5>2. Times(x, v) = 0
            BY <1>2, <5>1
          <5>3. d[x] = c[x] + Times(x, v)
            BY <4>2 DEF ChargedBy
          <5> QED BY <5>2, <5>3
        <4> QED BY <4>1, <4>2
      <3> QED BY <3>1
    <2>4. D = A
      BY <2>3 DEF Since
    <2> HIDE DEF A, D
    <2> QED BY <1>5, <2>1, <2>2, <2>4 DEF TakenFrom, A, D
  <1>7. CASE status \in WithEvent /\ u = v.user
    <2>1. q[u] = Less(r[u], TotalFee(v))
      BY <1>7 DEF MoneyTaken
    <2>2. \A x \in Usages : d[x] = c[x] + Times(x, v)
      BY <1>7 DEF ChargedBy
    <2>3. \A x \in Usages : Times(x, v) <= 1 /\ c0[x] <= d[x] /\ (Times(x, v) >= 1 => c[x] = 0)
      <3>1. ASSUME NEW x \in Usages
            PROVE  Times(x, v) <= 1 /\ c0[x] <= d[x] /\ (Times(x, v) >= 1 => c[x] = 0)
        <4> DEFINE m == Times(x, v)   y == c[x]   z == d[x]   y0 == c0[x]
        <4>1. m \in Nat /\ y \in Nat /\ y0 \in Nat /\ y0 <= y /\ z = y + m /\ z <= 1
          BY <1>2, <1>4, <2>2
        <4> HIDE DEF m, y, z, y0
        <4>2. m <= 1 /\ y0 <= z /\ (m >= 1 => y = 0)
          BY <4>1
        <4> QED BY <4>2 DEF m, y, z, y0
      <3> QED BY <3>1
    <2>4. IsFiniteSet(W) /\ TotalFee(v) = SumFunctionOnSet(FeeOf, W)
      BY <1>1, <2>3, FeeOfUnits
    <2>5. ASSUME NEW x \in Usages PROVE x \in D <=> x \in A \cup W
      <3>1. CASE x \in W
        <4>1. Times(x, v) >= 1 /\ UserOf[x] = u
          BY <1>2, <1>3, <1>7, <3>1
        <4>2. d[x] > c0[x]
          BY <1>2, <1>4, <2>2, <4>1
        <4> QED BY <3>1, <4>1, <4>2 DEF Since
      <3>2. CASE x \notin W
        <4>1. Times(x, v) = 0
          BY <1>2, <3>2
        <4>2. d[x] = c[x]
          BY <2>2, <4>1
        <4> QED BY <3>2, <4>2 DEF Since
      <3> QED BY <3>1, <3>2
    <2>6. D = A \cup W
      BY <1>3, <2>5 DEF Since
    <2>7. A \cap W = {}
      <3>1. ASSUME NEW x \in A, x \in W PROVE FALSE
        <4>1. x \in Usages /\ c[x] > c0[x] /\ Times(x, v) >= 1
          BY <1>2, <1>3, <3>1 DEF Since
        <4>2. c[x] = 0 /\ c0[x] \in Nat
          BY <2>3, <4>1
        <4> QED BY <4>1, <4>2
      <3> QED BY <3>1
    <2>8. \A x \in A \cup W : FeeOf[x] \in Nat
      BY <1>3, UsageAssumption DEF Since
    <2> HIDE DEF A, D, W
    <2>9. SumFunctionOnSet(FeeOf, A \cup W) = SumFunctionOnSet(FeeOf, A) + SumFunctionOnSet(FeeOf, W)
      BY <1>5, <2>4, <2>7, <2>8, SumOfUnion
    <2>10. SumFunctionOnSet(FeeOf, A) \in Nat /\ SumFunctionOnSet(FeeOf, W) \in Nat
      <3>1. (\A x \in A : FeeOf[x] \in Nat) /\ (\A x \in W : FeeOf[x] \in Nat)
        BY <2>8
      <3> QED BY <1>5, <2>4, <3>1, SumIsNat
    <2>11. IsFiniteSet(D)
      BY <1>5, <2>4, <2>6, FS_Union
    <2> DEFINE a == SumFunctionOnSet(FeeOf, A)   w == SumFunctionOnSet(FeeOf, W)
    <2>12. SumFunctionOnSet(FeeOf, D) = a + w /\ a \in Nat /\ w \in Nat /\ q[u] = Less(Less(b, a), w)
      BY <1>5, <2>1, <2>4, <2>6, <2>9, <2>10, Zenon
    <2> HIDE DEF a, w
    <2>13. Less(Less(b, a), w) = Less(b, a + w)
      BY <2>12 DEF Less
    <2>14. q[u] = Less(b, SumFunctionOnSet(FeeOf, D))
      BY <2>12, <2>13, Zenon
    <2> QED BY <2>3, <2>11, <2>14 DEF TakenFrom, D
  <1> QED BY <1>6, <1>7

\* settleFeesWithTEE takes from each user the fees of the units it charges, as far
\* as the balance goes.
LEMMA SettledTakes ==
    ASSUME NEW vs \in Seq(Signed), Unsettled \in Accounts, \A x \in Usages : Settled(vs).charged[x] <= 1,
           NEW u \in Users
    PROVE  TakenFrom(balance[u], charged, Settled(vs).balance, Settled(vs).charged, u)
  <1> DEFINE n == Len(vs)   r == Settled(vs)
  <1>1. n \in Nat /\ \A k \in 1..n : vs[k] \in Signed
    OBVIOUS
  <1>2. PICK h : IsSettling(h, vs)
    BY SettledLoop
  <1>3. h[0] = Unsettled /\ r = h[n] /\ \A k \in 0..n : h[k] \in Accounts
    BY <1>2 DEF IsSettling
  <1> DEFINE C == [k \in 0..n |-> h[k].charged]   B == [k \in 0..n |-> h[k].balance]
             s == [k \in 1..n |-> StatusIn(h[k - 1], vs[k])]
  <1>4. \A k \in 0..n : C[k] \in [Usages -> Nat] /\ B[k] \in [Users -> Nat]
    BY <1>3 DEF Accounts
  <1>5. C[0] = charged /\ B[0] = balance /\ C[n] = r.charged /\ B[n] = r.balance
    BY <1>1, <1>3 DEF Unsettled
  <1>6. ASSUME NEW k \in 1..n
        PROVE  MoneyTaken(B[k - 1], B[k], s[k], vs[k]) /\ ChargedBy(C[k - 1], C[k], s[k], vs[k])
    <2> DEFINE a == h[k - 1]   v == vs[k]   e == h[k]
    <2>0. k \in 0..n /\ k - 1 \in 0..n
      BY <1>1
    <2>1. a \in Accounts /\ v \in Signed /\ e = SettleOne(a, v)
      BY <1>1, <1>2, <1>3, <2>0 DEF IsSettling
    <2>2. B[k - 1] = a.balance /\ B[k] = e.balance /\ C[k - 1] = a.charged /\ C[k] = e.charged /\ s[k] = StatusIn(a, v)
      BY <2>0
    <2> HIDE DEF a, v, e, B, C, s
    <2>3. MoneyTaken(a.balance, e.balance, StatusIn(a, v), v)
      BY <2>1, SettleOneTakes
    <2>4. OneSettled(a, e, v)
      BY <2>1, SettleOneIs
    <2>5. ChargedBy(a.charged, e.charged, StatusIn(a, v), v)
      BY <2>4 DEF OneSettled, ChargedBy
    <2> QED BY <2>2, <2>3, <2>5, Zenon DEF v
  <1>7. charged \in [Usages -> Nat] /\ balance[u] \in Nat
    BY DEF Unsettled, Accounts
  <1>8. \A x \in Usages : C[n][x] <= 1
    BY <1>5
  <1> HIDE DEF n, r, C, B, s
  <1>9. ASSUME NEW k \in 1..n, NEW x \in Usages PROVE C[k - 1][x] <= C[k][x]
    <2>1. Times(x, vs[k]) \in Nat
      BY <1>1, SignedBill, TimesIsNat DEF Bill
    <2>2. k - 1 \in 0..n /\ C[k - 1][x] \in Nat
      BY <1>1, <1>4
    <2>3. C[k][x] = C[k - 1][x] + Times(x, vs[k]) \/ C[k][x] = C[k - 1][x]
      BY <1>6 DEF ChargedBy
    <2> QED BY <2>1, <2>2, <2>3
  <1>10. \A k \in 0..n : \A x \in Usages : C[k][x] <= 1
    <2> DEFINE T == {i \in 0..n : \A x \in Usages : C[n - i][x] <= 1}
    <2>1. 0 \in T
      <3>1. n - 0 = n /\ 0 \in 0..n
        BY <1>1
      <3> QED BY <1>8, <3>1
    <2>2. ASSUME NEW i \in 0..(n - 1), i \in T PROVE i + 1 \in T
      <3> DEFINE k == n - i
      <3>1. k \in 1..n /\ n - (i + 1) = k - 1 /\ i + 1 \in 0..n /\ k \in 0..n /\ k - 1 \in 0..n
        BY <1>1
      <3>2. \A x \in Usages : C[k][x] <= 1
        BY <2>2
      <3> HIDE DEF k
      <3>3. \A x \in Usages : C[k - 1][x] <= 1
        <4>1. ASSUME NEW x \in Usages PROVE C[k - 1][x] <= 1
          <5>1. C[k - 1][x] \in Nat /\ C[k][x] \in Nat
            BY <1>4, <3>1
          <5>2. C[k - 1][x] <= C[k][x] /\ C[k][x] <= 1
            BY <1>9, <3>1, <3>2
          <5> QED BY <5>1, <5>2
        <4> QED BY <4>1
      <3> QED BY <3>1, <3>3
    <2>3. ASSUME NEW j \in 0..n PROVE j \in T
      <3>1. j \in Nat /\ \A i \in 0..(j - 1) : i \in 0..(n - 1)
        BY <1>1
      <3> HIDE DEF T
      <3> QED BY <2>1, <2>2, <3>1, CountingUp
    <2>4. ASSUME NEW k \in 0..n PROVE \A x \in Usages : C[k][x] <= 1
      <3>1. n - k \in 0..n /\ n - (n - k) = k
        BY <1>1
      <3> QED BY <2>3, <3>1
    <2> QED BY <2>4
  <1> DEFINE T == {k \in 0..n : TakenFrom(balance[u], charged, B[k], C[k], u)}
  <1>11. 0 \in T
    <2>1. 0 \in 0..n /\ \A x \in Usages : charged[x] \in Nat
      BY <1>1, <1>7
    <2>2. Since(charged, charged, u) = {}
      BY <2>1 DEF Since
    <2>3. SumFunctionOnSet(FeeOf, {}) = 0 /\ IsFiniteSet({})
      BY SumOfZeros, FS_EmptySet
    <2>4. balance[u] = Less(balance[u], 0)
      BY <1>7 DEF Less
    <2>5. TakenFrom(balance[u], charged, balance, charged, u)
      BY <2>1, <2>2, <2>3, <2>4 DEF TakenFrom
    <2> QED BY <1>5, <2>1, <2>5
  <1>12. ASSUME NEW k \in 0..(n - 1), k \in T PROVE k + 1 \in T
    <2> DEFINE j == k + 1
    <2>1. j \in 1..n /\ j - 1 = k /\ j \in 0..n /\ k \in 0..n
      BY <1>1
    <2>2. TakenFrom(balance[u], charged, B[k], C[k], u)
      BY <1>12
    <2> HIDE DEF j, T
    <2>3. MoneyTaken(B[k], B[j], s[j], vs[j]) /\ ChargedBy(C[k], C[j], s[j], vs[j])
      BY <1>6, <2>1
    <2>4. vs[j] \in Signed /\ C[k] \in [Usages -> Nat] /\ C[j] \in [Usages -> Nat]
          /\ B[k] \in [Users -> Nat] /\ B[j] \in [Users -> Nat] /\ \A x \in Usages : C[j][x] <= 1
      BY <1>1, <1>4, <1>10, <2>1
    <2>5. TakenFrom(balance[u], charged, B[j], C[j], u)
      BY <1>7, <2>2, <2>3, <2>4, OneMoreTaken
    <2> QED BY <2>1, <2>5 DEF T, j
  <1> HIDE DEF T
  <1>13. n \in T
    BY <1>1, <1>11, <1>12, CountingUp
  <1>14. TakenFrom(balance[u], charged, r.balance, r.charged, u)
    BY <1>5, <1>13 DEF T
  <1> QED BY <1>14 DEF r

-----------------------------------------------------------------------------
(* The pipeline implements the ledger. *)

\* Where a unit stands that e, c and w tell the emission, charge and writing off of.
Stage(e, c, w, x) ==
    IF x \notin e THEN "unbilled"
    ELSE IF c[x] > 0 THEN "settled"
    ELSE IF x \in w THEN "writtenOff"
    ELSE "owed"
Gone == dlq \cup discarded

\* A unit is emitted before it is charged or written off, and never both.
Placed(e, c, w) ==
    \A x \in Usages : /\ c[x] \in Nat /\ c[x] <= 1
                      /\ c[x] > 0 => x \in e /\ x \notin w
                      /\ x \in w => x \in e
EachPlaced == Placed(emitted, charged, Gone)

\* The accounts place every unit.
LEMMA AccountsPlace ==
    ASSUME Accounted PROVE EachPlaced
  <1>1. ASSUME NEW x \in Usages
        PROVE  /\ charged[x] \in Nat /\ charged[x] <= 1
               /\ charged[x] > 0 => x \in emitted /\ x \notin Gone
               /\ x \in Gone => x \in emitted
    <2> DEFINE c == charged[x]   o == Off(x)   h == Debt(x)   w == Waiting(x)   e == Due(x)
    <2>1. Balanced(c, o, h, w, e)
      BY DEF Accounted
    <2>2. (x \in emitted <=> e = 1) /\ (x \in Gone <=> o = 1)
      BY DEF Due, Off, Gone
    <2> HIDE DEF c, o, h, w, e
    <2>3. c \in Nat /\ c <= 1 /\ (c > 0 => e = 1 /\ o # 1) /\ (o = 1 => e = 1)
      BY <2>1 DEF Balanced
    <2> QED BY <2>2, <2>3 DEF c
  <1> QED BY <1>1 DEF EachPlaced, Placed

\* The stage of a unit, before and after a step.
LEMMA StageIs ==
    ASSUME NEW x
    PROVE  /\ StageOf(x) = Stage(emitted, charged, Gone, x)
           /\ StageOf(x)' = Stage(emitted', charged', Gone', x)
  BY DEF StageOf, Stage, Gone

\* What the ledger sees of a step that moves the units of S to stage s.
LEMMA StagesBecome ==
    ASSUME NEW S, NEW s,
           \A x \in Usages : Stage(emitted', charged', Gone', x)
                                = IF x \in S THEN s ELSE Stage(emitted, charged, Gone, x)
    PROVE  Ledger!Become(S, s)
  <1> DEFINE new == [x \in Usages |-> Stage(emitted', charged', Gone', x)]
             old == [x \in Usages |-> Stage(emitted, charged, Gone, x)]
  <1>1. [x \in Usages |-> StageOf(x)] = old /\ [x \in Usages |-> StageOf(x)]' = new
    BY StageIs
  <1>2. new = [x \in Usages |-> IF x \in S THEN s ELSE old[x]]
    OBVIOUS
  <1> HIDE DEF new, old
  <1> QED BY <1>1, <1>2 DEF Ledger!Become

\* The units that are owed.
LEMMA OwedIs ==
    ASSUME NEW x \in Usages, Stage(emitted, charged, Gone, x) = "owed" PROVE x \in Ledger!Owed
  BY StageIs DEF Ledger!Owed

\* What a mined transaction does to the accounts of every user.
LEMMA MinedTakes ==
    ASSUME ChainTypes, Mine, EachPlaced'
    PROVE  \E b, c : /\ balance' = b /\ charged' = c
                     /\ b \in [Users -> Nat] /\ c \in [Usages -> Nat]
                     /\ \A x \in Usages : charged[x] <= c[x]
                     /\ \A u \in Users : TakenFrom(balance[u], charged, b, c, u)
  <1> DEFINE t == NextInPool   vs == txVouchers[t]   r == Settled(vs)
  <1>1. t \in TxIds /\ fate[t] = "pool"
    BY NextInPoolIs DEF Mine
  <1>2. vs \in Seq(Signed)
    BY <1>1 DEF ChainTypes
  <1>3. Unsettled \in Accounts
    BY DEF Unsettled, Accounts, ChainTypes
  <1> HIDE DEF t
  <1>4. balance' = r.balance /\ charged' = r.charged
    BY DEF Mine, t
  <1> HIDE DEF vs
  <1>5. AllSettled(r, vs)
    BY <1>2, <1>3, SettledIs
  <1>6. \A x \in Usages : charged'[x] <= 1
    BY DEF EachPlaced, Placed
  <1>7. \A x \in Usages : r.charged[x] <= 1
    BY <1>4, <1>6, Zenon
  <1>8. ASSUME NEW u \in Users PROVE TakenFrom(balance[u], charged, r.balance, r.charged, u)
    BY <1>2, <1>3, <1>7, SettledTakes
  <1> HIDE DEF r
  <1>9. r.balance \in [Users -> Nat] /\ r.charged \in [Usages -> Nat]
    BY <1>5 DEF AllSettled, Accounts
  <1>10. \A x \in Usages : charged[x] <= r.charged[x]
    <2>1. ASSUME NEW x \in Usages PROVE charged[x] <= r.charged[x]
      <3>1. UserOf[x] \in Users
        BY UsageAssumption
      <3> QED BY <1>8, <3>1 DEF TakenFrom
    <2> QED BY <2>1
  <1> QED BY <1>4, <1>8, <1>9, <1>10

\* A mined transaction settles the owed units it charges.
LEMMA MineSettles ==
    ASSUME SettlerTypes, EachPlaced, EachPlaced', Mine
    PROVE  \E S \in SUBSET Ledger!Owed : Ledger!Settle(S)
  <1>0. ChainTypes
    BY DEF SettlerTypes
  <1>1. PICK b, c : /\ balance' = b /\ charged' = c
                    /\ b \in [Users -> Nat] /\ c \in [Usages -> Nat]
                    /\ \A x \in Usages : charged[x] <= c[x]
                    /\ \A u \in Users : TakenFrom(balance[u], charged, b, c, u)
    BY <1>0, MinedTakes
  <1>2. UNCHANGED <<emitted, dlq, discarded>>
    BY DEF Mine, redisVars
  <1>3. emitted' = emitted /\ Gone' = Gone
    BY <1>2 DEF Gone
  <1>4. Placed(emitted, charged, Gone) /\ Placed(emitted, c, Gone)
    <2>1. Placed(emitted', charged', Gone')
      BY DEF EachPlaced
    <2>2. Placed(emitted, c, Gone)
      BY <1>1, <1>3, <2>1, Zenon
    <2> QED BY <2>2 DEF EachPlaced
  <1> DEFINE S == {x \in Usages : c[x] > charged[x]}
  <1>5. ASSUME NEW x \in Usages
        PROVE  /\ Stage(emitted, c, Gone, x) = IF x \in S THEN "settled" ELSE Stage(emitted, charged, Gone, x)
               /\ x \in S => Stage(emitted, charged, Gone, x) = "owed"
    <2>1. charged[x] <= c[x] /\ charged[x] \in Nat /\ c[x] \in Nat
      BY <1>1, <1>4 DEF Placed
    <2>2. CASE x \in S
      <3>1. c[x] > 0 /\ charged[x] = 0
        BY <1>4, <2>1, <2>2 DEF Placed
      <3>2. x \in emitted /\ x \notin Gone
        BY <1>4, <3>1 DEF Placed
      <3> QED BY <2>2, <3>1, <3>2 DEF Stage
    <2>3. CASE x \notin S
      <3>1. c[x] = charged[x]
        BY <2>1, <2>3
      <3> QED BY <2>3, <3>1 DEF Stage
    <2> QED BY <2>2, <2>3
  <1>6. \A u \in Users : {x \in S : UserOf[x] = u} = Since(charged, c, u)
    BY DEF Since
  <1>7. S \in SUBSET Usages
    OBVIOUS
  <1> HIDE DEF S
  <1>8. S \in SUBSET Ledger!Owed
    BY <1>5, <1>7, OwedIs
  <1>9. Ledger!Become(S, "settled")
    <2>1. \A x \in Usages : Stage(emitted', charged', Gone', x)
                                = IF x \in S THEN "settled" ELSE Stage(emitted, charged, Gone, x)
      BY <1>1, <1>3, <1>5, Zenon
    <2> QED BY <2>1, StagesBecome
  <1>10. ASSUME NEW u \in Users
         PROVE  b[u] = IF Ledger!Fee(u, S) <= balance[u] THEN balance[u] - Ledger!Fee(u, S) ELSE 0
    <2>1. Ledger!Fee(u, S) = SumFunctionOnSet(FeeOf, Since(charged, c, u))
      <3>1. Ledger!Fee(u, S) = SumFunctionOnSet(FeeOf, {x \in S : UserOf[x] = u})
        BY DEF Ledger!Fee, Ledger!SumFunctionOnSet, Ledger!FoldFunctionOnSet, Ledger!MapThenFoldSet,
               SumFunctionOnSet, FoldFunctionOnSet, MapThenFoldSet
      <3> QED BY <1>6, <3>1
    <2>2. b[u] = Less(balance[u], SumFunctionOnSet(FeeOf, Since(charged, c, u)))
      BY <1>1 DEF TakenFrom
    <2> QED BY <2>1, <2>2 DEF Less
  <1>11. b = [u \in Users |-> IF Ledger!Fee(u, S) <= balance[u] THEN balance[u] - Ledger!Fee(u, S) ELSE 0]
    BY <1>1, <1>10
  <1>12. Ledger!Settle(S)
    BY <1>1, <1>9, <1>11, Zenon DEF Ledger!Settle
  <1> QED BY <1>8, <1>12

\* A batch whose statuses are applied writes off owed units.
LEMMA PollWritesOff ==
    ASSUME SettlerTypes, EachPlaced, EachPlaced', PollMined
    PROVE  \E S \in SUBSET Ledger!Owed : Ledger!WriteOff(S)
  <1>1. UNCHANGED <<emitted, charged, balance>>
    BY DEF PollMined, chainVars
  <1>2. dlq \subseteq dlq' /\ discarded \subseteq discarded'
    BY DEF PollMined, HandleStatuses
  <1>3. PICK g : Gone' = g
    OBVIOUS
  <1>4. Gone \subseteq g
    BY <1>2, <1>3 DEF Gone
  <1>5. Placed(emitted, charged, Gone) /\ Placed(emitted, charged, g)
    <2>1. Placed(emitted', charged', Gone')
      BY DEF EachPlaced
    <2>2. Placed(emitted, charged, g)
      BY <1>1, <1>3, <2>1, Zenon
    <2> QED BY <2>2 DEF EachPlaced
  <1> DEFINE S == {x \in Usages : x \in g /\ x \notin Gone}
  <1>6. ASSUME NEW x \in Usages
        PROVE  /\ Stage(emitted, charged, g, x) = IF x \in S THEN "writtenOff" ELSE Stage(emitted, charged, Gone, x)
               /\ x \in S => Stage(emitted, charged, Gone, x) = "owed"
    <2>1. CASE x \in S
      <3>1. x \in emitted /\ ~(charged[x] > 0) /\ x \in g /\ x \notin Gone
        BY <1>5, <2>1 DEF Placed
      <3> QED BY <2>1, <3>1 DEF Stage
    <2>2. CASE x \notin S
      <3>1. x \in g <=> x \in Gone
        BY <1>4, <2>2
      <3> QED BY <2>2, <3>1 DEF Stage
    <2> QED BY <2>1, <2>2
  <1>7. S \in SUBSET Usages
    OBVIOUS
  <1> HIDE DEF S
  <1>8. S \in SUBSET Ledger!Owed
    BY <1>6, <1>7, OwedIs
  <1>9. Ledger!Become(S, "writtenOff")
    <2>1. \A x \in Usages : Stage(emitted', charged', Gone', x)
                                = IF x \in S THEN "writtenOff" ELSE Stage(emitted, charged, Gone, x)
      BY <1>1, <1>3, <1>6, Zenon
    <2> QED BY <2>1, StagesBecome
  <1>10. Ledger!WriteOff(S)
    BY <1>1, <1>9 DEF Ledger!WriteOff
  <1> QED BY <1>8, <1>10

\* An emitted period is billed.
LEMMA EnqueueBills ==
    ASSUME EachPlaced, NEW x \in Usages, Enqueue(x) PROVE Ledger!Bill(x)
  <1>1. x \notin emitted /\ emitted' = emitted \cup {x} /\ UNCHANGED <<charged, dlq, discarded, balance>>
    BY DEF Enqueue, chainVars
  <1>2. charged' = charged /\ Gone' = Gone /\ ~(charged[x] > 0) /\ x \notin Gone
    BY <1>1 DEF Gone, EachPlaced, Placed
  <1>3. \A y \in Usages : Stage(emitted \cup {x}, charged, Gone, y)
                              = IF y \in {x} THEN "owed" ELSE Stage(emitted, charged, Gone, y)
    BY <1>2 DEF Stage
  <1>4. Ledger!Become({x}, "owed")
    <2>1. \A y \in Usages : Stage(emitted', charged', Gone', y)
                                = IF y \in {x} THEN "owed" ELSE Stage(emitted, charged, Gone, y)
      BY <1>1, <1>2, <1>3, Zenon
    <2> QED BY <2>1, StagesBecome
  <1>5. StageOf(x) = "unbilled"
    BY <1>1 DEF StageOf
  <1> QED BY <1>1, <1>4, <1>5 DEF Ledger!Bill

\* Every step is one of the ledger's, or none.
LEMMA StepLedger ==
    ASSUME SettlerTypes, EachPlaced, EachPlaced', [Next]_vars PROVE [Ledger!Next]_(Ledger!vars)
  <1> USE DEF redisVars, procVars, chainVars, histVars, boundVars
  <1>0. StoreTypes /\ ChainTypes
    BY DEF SettlerTypes
  <1>1. ASSUME UNCHANGED <<emitted, charged, dlq, discarded, balance>> PROVE UNCHANGED Ledger!vars
    BY <1>1 DEF Ledger!vars, StageOf
  <1>2. CASE UNCHANGED vars
    BY <1>1, <1>2 DEF vars
  <1>3. CASE StartClean \/ StartResolve \/ ReconcileIntent \/ ReconcileFailed \/ PeriodicSweep \/ ForcedSweep
             \/ ForcedSweepThrottled \/ CheckProvider \/ BLPop \/ SignBatch \/ SignFailed \/ SubmitSettleFees
             \/ SubmitFailed \/ SaveTxHash \/ PollFailed \/ PollReverted \/ PollDroppedOnce \/ PollDropped
             \/ FinishBatch \/ Crash
    <2>1. UNCHANGED <<emitted, charged, dlq, discarded, balance>>
      BY <1>3 DEF StartClean, StartResolve, ReconcileIntent, ReconcileFailed, PeriodicSweep, ForcedSweep,
                ForcedSweepThrottled, CheckProvider, BLPop, SignBatch, SignFailed, SubmitSettleFees, SubmitFailed,
                Broadcast, SaveTxHash, PollFailed, PollReverted, PollDroppedOnce, PollDropped, GiveBack, FinishBatch,
                Crash
    <2> QED BY <1>1, <2>1
  <1>4. CASE NotMined \/ Rotate \/ \E u \in Users : ChangeAck(u) \/ Compete(u) \/ AdminAggregate(u)
    <2>1. UNCHANGED <<emitted, charged, dlq, discarded, balance>>
      BY <1>4 DEF NotMined, Rotate, ChangeAck, Compete, AdminAggregate
    <2> QED BY <1>1, <2>1
  <1>5. CASE \E x \in Usages : Enqueue(x)
    BY <1>5, EnqueueBills DEF Ledger!Next
  <1>6. CASE Mine
    BY <1>6, MineSettles DEF Ledger!Next
  <1>7. CASE PollMined
    BY <1>7, PollWritesOff DEF Ledger!Next
  <1>8. ASSUME NEW u \in Users, Deposit(u) \/ Withdraw(u) PROVE Ledger!Next
    <2>1. PICK b \in Nat : balance' = [balance EXCEPT ![u] = b]
      <3> DEFINE c == balance[u]
      <3>1. c \in Nat
        BY <1>0 DEF ChainTypes
      <3>2. \/ balance' = [balance EXCEPT ![u] = c + 1]
            \/ c > 0 /\ balance' = [balance EXCEPT ![u] = c - 1]
        BY <1>8 DEF Deposit, Withdraw
      <3> HIDE DEF c
      <3>3. c + 1 \in Nat /\ (c > 0 => c - 1 \in Nat)
        BY <3>1
      <3> QED BY <3>2, <3>3
    <2>2. balance' \in [Users -> Nat] /\ \A w \in Users \ {u} : balance'[w] = balance[w]
      BY <1>0, <2>1 DEF ChainTypes
    <2>3. UNCHANGED <<emitted, charged, dlq, discarded>>
      BY <1>8 DEF Deposit, Withdraw
    <2>4. [x \in Usages |-> StageOf(x)]' = [x \in Usages |-> StageOf(x)]
      BY <2>3 DEF StageOf
    <2>5. Ledger!MoveMoney(u)
      BY <2>2, <2>4 DEF Ledger!MoveMoney
    <2> QED BY <2>5 DEF Ledger!Next
  <1> QED BY <1>2, <1>3, <1>4, <1>5, <1>6, <1>7, <1>8 DEF Next, SettlerStep, Environment

\* The pipeline keeps the ledger's promise: whatever the producers, the settler, the
\* chain and a restart do, the accounts see units billed, settled once for exactly
\* their fees as far as the balance goes, or written off and then never charged (Run,
\* HandleStatuses, _settleOne).
THEOREM SettlerImplementsLedger ==
    ASSUME SafeEnvironment PROVE Spec => ImplementsLedger
  <1>1. Init => Ledger!Init
    BY TuningAssumption DEF Init, Ledger!Init, StageOf
  <1>2. SettlerInv => SettlerTypes /\ EachPlaced
    BY AccountsPlace DEF SettlerInv
  <1>3. SettlerTypes /\ EachPlaced /\ EachPlaced' /\ [Next]_vars => [Ledger!Next]_(Ledger!vars)
    BY StepLedger
  <1> QED BY <1>1, <1>2, <1>3, AccountsHold, PTL DEF Spec, ImplementsLedger, Ledger!Spec
=============================================================================
