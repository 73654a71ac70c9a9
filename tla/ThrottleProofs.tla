--------------------------- MODULE ThrottleProofs ---------------------------
(***************************************************************************)
(* Proofs about Throttle, for any addresses, ips, threads, thresholds,     *)
(* windows and locks.  The idea: without a new failure of an ip its locks  *)
(* only shrink, whatever else is written, deleted or slides out of the     *)
(* window.                                                                 *)
(***************************************************************************)
EXTENDS LoginForm, FiniteSetTheorems, WellFoundedInduction, TLAPS

-----------------------------------------------------------------------------
(* Maxima.                                                                  *)

LEMMA LeastNat ==
  ASSUME NEW T \in SUBSET Nat, T # {}
  PROVE  \E m \in T : \A y \in T : m <= y
<1>1. \E m \in T : \A y \in T : ~ (<<y, m>> \in OpToRel(<, Nat))
  BY WFMin, NatLessThanWellFounded
<1>2. PICK m \in T : \A y \in T : ~ (<<y, m>> \in OpToRel(<, Nat))
  BY ONLY <1>1, Zenon
<1>3. ASSUME NEW y \in T  PROVE m <= y
  <2>1. ~ (<<y, m>> \in OpToRel(<, Nat))
    BY <1>2, Zenon
  <2>2. <<y, m>> \in Nat \X Nat
    OBVIOUS
  <2>3. ~ (<<y, m>>[1] < <<y, m>>[2])
    BY <2>1, <2>2, Zenon DEF OpToRel
  <2>. QED  BY <2>3
<1>. QED  BY <1>3

LEMMA MaxIsLargest ==
  ASSUME NEW S \in SUBSET Nat, S # {}, NEW n \in Nat, \A x \in S : x <= n
  PROVE  Max(S) \in S /\ \A x \in S : x <= Max(S)
<1>. DEFINE T == {n - x : x \in S}
<1>a. \A x \in S : n - x \in Nat
  OBVIOUS
<1>b. T # {}
  OBVIOUS
<1>1. T \in SUBSET Nat
  BY <1>a
<1>2. PICK m \in T : \A y \in T : m <= y
  BY <1>1, <1>b, LeastNat
<1>3. PICK x \in S : m = n - x
  OBVIOUS
<1>4. \A y \in S : n - x <= n - y
  BY <1>2, <1>3
<1>5. \A y \in S : x >= y
  BY <1>4
<1>. QED  BY <1>5 DEF Max

-----------------------------------------------------------------------------
(* Locks as functions of the rows.                                          *)

RowsUpTo(f, n) ==
    /\ IsFiniteSet(DOMAIN f)
    /\ \A i \in DOMAIN f : f[i] \in Attempt /\ f[i].at <= n

Fails(f, ip, addresses, since) ==
    {i \in DOMAIN f : /\ f[i].ip = ip
                      /\ f[i].address \in addresses
                      /\ f[i].at >= since
                      /\ f[i].result = "failure"}

Rung(count, threshold) ==
    IF count - threshold < MaxStep THEN count - threshold ELSE MaxStep
Ends(f, S, threshold) ==
    IF Cardinality(S) < threshold THEN {}
    ELSE {Max({f[i].at : i \in S}) + LockTime(Rung(Cardinality(S), threshold))}

PairEnds(f, c, at) ==
    IF c[1] = NoAddress THEN {}
    ELSE Ends(f, Fails(f, c[2], {c[1]}, Minus(at, Window)), PairThreshold)
WideEnds(f, c, at) ==
    Ends(f, Fails(f, c[2], Everyone, Minus(at, Window)), WideThreshold)

Below(S, T) == \A e \in S : \E d \in T : e <= d
Bounded(S) == \E n \in Nat : \A e \in S : e <= n

LEMMA PairLockIs == \A c, at : PairLock(c, at) = PairEnds(attempts, c, at)
  BY DEF PairLock, PairEnds, LockFor, Ends, Rung, Failures, Fails, Counts, InUse

LEMMA WideLockIs == \A c, at : WideLock(c, at) = WideEnds(attempts, c, at)
  BY DEF WideLock, WideEnds, LockFor, Ends, Rung, Failures, Fails, Counts, InUse

\* A set of numbers that has 0, and with each number the next, has them all.
LEMMA NumbersByInduction ==
  ASSUME NEW G \in SUBSET Nat, 0 \in G, \A n \in G : n + 1 \in G
  PROVE  G = Nat
<1>. SUFFICES ASSUME Nat \ G # {} PROVE FALSE
  OBVIOUS
<1>1. PICK n \in Nat \ G : \A m \in Nat \ G : n <= m
  <2>1. Nat \ G \in SUBSET Nat
    OBVIOUS
  <2>. QED  BY <2>1, LeastNat
<1>2. n - 1 \in Nat /\ n - 1 \in G
  BY <1>1
<1>. QED  BY <1>1, <1>2

\* The recursion of Doubled has a solution, up to each step.
IsDoubled(h) == h = [step \in 0 .. MaxStep |-> IF step = 0 THEN 1 ELSE 2 * h[step - 1]]

LEMMA DoubledExists == \E h \in [0 .. MaxStep -> Nat] : IsDoubled(h)
<1>. DEFINE Rungs == 0 .. MaxStep
            UpTo(h, n) == \A k \in Rungs : k <= n => h[k] = IF k = 0 THEN 1 ELSE 2 * h[k - 1]
            G == {n \in Nat : \E h \in [Rungs -> Nat] : UpTo(h, n)}
<1>0. MaxStep \in Nat
  BY ThrottleAssumption
<1>1. 0 \in G
  <2>. DEFINE h == [k \in Rungs |-> 1]
  <2>1. h \in [Rungs -> Nat] /\ UpTo(h, 0)
    OBVIOUS
  <2>. QED  BY <2>1
<1>2. ASSUME NEW n \in G PROVE n + 1 \in G
  <2>1. n \in Nat
    OBVIOUS
  <2>2. PICK h \in [Rungs -> Nat] : UpTo(h, n)
    OBVIOUS
  <2>. DEFINE g == [k \in Rungs |-> IF k = 0 THEN 1 ELSE 2 * h[k - 1]]
  <2>3. \A k \in Rungs : k # 0 => k - 1 \in Rungs
    BY <1>0
  <2>4. g \in [Rungs -> Nat]
    <3>1. \A k \in Rungs : k # 0 => h[k - 1] \in Nat
      BY <2>3
    <3>2. \A k \in Rungs : k # 0 => 2 * h[k - 1] \in Nat
      BY <3>1
    <3>. QED  BY <3>2
  <2>5. ASSUME NEW k \in Rungs, k <= n + 1, k # 0 PROVE g[k] = 2 * g[k - 1]
    <3>1. k - 1 \in Rungs /\ k - 1 <= n
      BY <1>0, <2>1, <2>5
    <3>2. g[k - 1] = h[k - 1]
      BY <2>2, <3>1
    <3>3. g[k] = 2 * h[k - 1]
      BY <2>5
    <3>. HIDE DEF g
    <3>. QED  BY <3>2, <3>3
  <2>6. \A k \in Rungs : k = 0 => g[k] = 1
    OBVIOUS
  <2>. HIDE DEF g
  <2>7. UpTo(g, n + 1)
    BY <2>5, <2>6
  <2>. HIDE DEF UpTo
  <2>. QED  BY <2>1, <2>4, <2>7
<1>3. MaxStep \in G
  <2>1. G \in SUBSET Nat
    OBVIOUS
  <2>. HIDE DEF G
  <2>2. G = Nat
    BY <1>1, <1>2, <2>1, NumbersByInduction
  <2>. QED  BY <1>0, <2>2
<1>4. PICK h \in [Rungs -> Nat] : UpTo(h, MaxStep)
  BY <1>3
<1>5. IsDoubled(h)
  <2>1. \A k \in Rungs : h[k] = IF k = 0 THEN 1 ELSE 2 * h[k - 1]
    BY <1>0, <1>4
  <2>. QED  BY <2>1 DEF IsDoubled
<1>. QED  BY <1>5

LEMMA DoubledIs ==
  /\ Doubled \in [0 .. MaxStep -> Nat]
  /\ \A k \in 0 .. MaxStep : Doubled[k] = IF k = 0 THEN 1 ELSE 2 * Doubled[k - 1]
<1>1. Doubled = CHOOSE h : IsDoubled(h)
  BY DEF Doubled, IsDoubled
<1>2. IsDoubled(Doubled)
  <2>1. \E h : IsDoubled(h)
    BY DoubledExists
  <2>. QED  BY ONLY <1>1, <2>1, Zenon
<1>. DEFINE Rungs == 0 .. MaxStep
            G == {k \in Nat : k \in Rungs => Doubled[k] \in Nat}
<1>3. /\ Doubled = [k \in Rungs |-> Doubled[k]]
      /\ \A k \in Rungs : Doubled[k] = IF k = 0 THEN 1 ELSE 2 * Doubled[k - 1]
  <2>. DEFINE d == Doubled
  <2>1. d = [k \in Rungs |-> IF k = 0 THEN 1 ELSE 2 * d[k - 1]]
    BY <1>2 DEF IsDoubled
  <2>. HIDE DEF d
  <2>2. d = [k \in Rungs |-> d[k]] /\ \A k \in Rungs : d[k] = IF k = 0 THEN 1 ELSE 2 * d[k - 1]
    BY <2>1
  <2>. QED  BY <2>2 DEF d
<1>4. 0 \in G
  <2>1. 0 \in Rungs => Doubled[0] = 1
    BY <1>3
  <2>. HIDE DEF Rungs
  <2>. QED  BY <2>1
<1>5. ASSUME NEW k \in G PROVE k + 1 \in G
  <2>1. k \in Nat /\ (k \in Rungs => Doubled[k] \in Nat)
    OBVIOUS
  <2>2. ASSUME k + 1 \in Rungs PROVE Doubled[k + 1] \in Nat
    <3>1. k \in Rungs /\ k + 1 # 0 /\ (k + 1) - 1 = k
      BY <2>1, <2>2, ThrottleAssumption
    <3>2. Doubled[k + 1] = 2 * Doubled[k] /\ Doubled[k] \in Nat
      BY <1>3, <2>1, <2>2, <3>1
    <3>. QED  BY <3>2
  <2>. QED  BY <2>1, <2>2
<1>6. \A k \in Rungs : Doubled[k] \in Nat
  <2>1. G \in SUBSET Nat
    OBVIOUS
  <2>. HIDE DEF G
  <2>2. G = Nat
    BY <1>4, <1>5, <2>1, NumbersByInduction
  <2>3. \A k \in Rungs : k \in G
    BY <2>2, ThrottleAssumption
  <2>. QED  BY <2>3 DEF G
<1>. QED  BY <1>3, <1>6

LEMMA LadderRises ==
  ASSUME NEW m \in 0 .. MaxStep, NEW n \in 0 .. MaxStep, m <= n
  PROVE  Doubled[m] <= Doubled[n]
<1>. DEFINE G == {k \in Nat : k \in m .. MaxStep => Doubled[m] <= Doubled[k]}
<1>0. MaxStep \in Nat /\ m \in Nat /\ n \in Nat
  BY ThrottleAssumption
<1>1. 0 \in G
  <2>1. 0 \in m .. MaxStep => m = 0
    BY <1>0
  <2>2. Doubled[m] \in Nat
    BY DoubledIs
  <2>. QED  BY <2>1, <2>2
<1>2. ASSUME NEW k \in G PROVE k + 1 \in G
  <2>1. k \in Nat /\ (k \in m .. MaxStep => Doubled[m] <= Doubled[k])
    OBVIOUS
  <2>2. ASSUME k + 1 \in m .. MaxStep PROVE Doubled[m] <= Doubled[k + 1]
    <3>1. CASE k + 1 = m
      BY <3>1, DoubledIs
    <3>2. CASE k + 1 # m
      <4>1. k \in m .. MaxStep /\ k \in 0 .. MaxStep /\ k + 1 \in 0 .. MaxStep /\ k + 1 # 0
            /\ (k + 1) - 1 = k
        BY <1>0, <2>1, <2>2, <3>2
      <4>2. Doubled[k + 1] = 2 * Doubled[k] /\ Doubled[k] \in Nat /\ Doubled[m] \in Nat
        BY <4>1, DoubledIs
      <4>. QED  BY <2>1, <4>1, <4>2
    <3>. QED  BY <3>1, <3>2
  <2>. QED  BY <2>1, <2>2
<1>3. n \in G
  <2>1. G \in SUBSET Nat
    OBVIOUS
  <2>. HIDE DEF G
  <2>2. G = Nat
    BY <1>1, <1>2, <2>1, NumbersByInduction
  <2>. QED  BY <1>0, <2>2
<1>. QED  BY <1>0, <1>3

LEMMA LockTimeRises ==
  ASSUME NEW m \in 0 .. MaxStep, NEW n \in 0 .. MaxStep, m <= n
  PROVE  LockTime(m) \in Nat /\ LockTime(m) <= LockTime(n)
<1>1. Doubled[m] \in Nat /\ Doubled[n] \in Nat /\ Doubled[m] <= Doubled[n]
  BY LadderRises, DoubledIs
<1>2. ASSUME NEW a \in Nat, NEW b \in Nat, a <= b
      PROVE  BaseLock * a \in Nat /\ BaseLock * a <= BaseLock * b
  BY <1>2, ThrottleAssumption
<1>3. BaseLock * Doubled[m] \in Nat /\ BaseLock * Doubled[n] \in Nat
      /\ BaseLock * Doubled[m] <= BaseLock * Doubled[n]
  BY <1>1, <1>2
<1>. QED  BY <1>3, ThrottleAssumption DEF LockTime

LEMMA RungOK ==
  ASSUME NEW th \in Nat, NEW k \in Nat, NEW l \in Nat, th <= k, k <= l
  PROVE  Rung(k, th) \in 0 .. MaxStep /\ Rung(l, th) \in 0 .. MaxStep
         /\ Rung(k, th) <= Rung(l, th)
  BY ThrottleAssumption DEF Rung

\* The latest failure of a run of them.
LEMMA Latest ==
  ASSUME NEW f, NEW n \in Nat, RowsUpTo(f, n), NEW S \in SUBSET DOMAIN f, S # {}
  PROVE  /\ Max({f[i].at : i \in S}) \in {f[i].at : i \in S}
         /\ \A i \in S : f[i].at <= Max({f[j].at : j \in S})
<1>1. {f[i].at : i \in S} \in SUBSET Nat /\ \A x \in {f[i].at : i \in S} : x <= n
  BY DEF RowsUpTo, Attempt
<1>2. {f[i].at : i \in S} # {}
  OBVIOUS
<1>. QED  BY <1>1, <1>2, MaxIsLargest

LEMMA EndsOK ==
  ASSUME NEW f, NEW n \in Nat, RowsUpTo(f, n), NEW S \in SUBSET DOMAIN f,
         NEW th \in Nat \ {0}
  PROVE  Ends(f, S, th) \in SUBSET Nat /\ Bounded(Ends(f, S, th))
<1>1. IsFiniteSet(S) /\ Cardinality(S) \in Nat
  BY FS_Subset, FS_CardinalityType DEF RowsUpTo
<1>2. CASE Cardinality(S) < th
  BY <1>2 DEF Ends, Bounded
<1>3. CASE ~(Cardinality(S) < th)
  <2>1. S # {}
    BY <1>1, <1>3, FS_EmptySet
  <2>2. Max({f[i].at : i \in S}) \in Nat
    <3>1. \A i \in S : f[i].at \in Nat
      BY DEF RowsUpTo, Attempt
    <3>2. Max({f[i].at : i \in S}) \in {f[i].at : i \in S}
      BY <2>1, Latest
    <3>. QED  BY <3>1, <3>2
  <2>3. LockTime(Rung(Cardinality(S), th)) \in Nat
    BY <1>1, <1>3, RungOK, LockTimeRises
  <2>4. PICK k \in Nat : Ends(f, S, th) = {k}
    <3>1. Max({f[i].at : i \in S}) + LockTime(Rung(Cardinality(S), th)) \in Nat
      BY <2>2, <2>3
    <3>. QED  BY <3>1, <1>3, Zenon DEF Ends
  <2>. QED  BY <2>4 DEF Bounded
<1>. QED  BY <1>2, <1>3

\* Fewer rows make a lock that ends no later.
LEMMA EndsShrink ==
  ASSUME NEW f, NEW n \in Nat, RowsUpTo(f, n), NEW S \in SUBSET DOMAIN f,
         NEW g, NEW T \in SUBSET DOMAIN g, T \subseteq S, \A i \in T : g[i] = f[i],
         NEW th \in Nat \ {0}
  PROVE  Below(Ends(g, T, th), Ends(f, S, th))
<1>1. /\ IsFiniteSet(S) /\ Cardinality(S) \in Nat
      /\ IsFiniteSet(T) /\ Cardinality(T) \in Nat /\ Cardinality(T) <= Cardinality(S)
  BY FS_Subset, FS_CardinalityType DEF RowsUpTo
<1>2. CASE Cardinality(T) < th
  BY <1>2 DEF Ends, Below
<1>3. CASE ~(Cardinality(T) < th)
  <2>1. T # {}
    BY <1>1, <1>3, FS_EmptySet
  <2>2. {g[i].at : i \in T} = {f[i].at : i \in T}
    OBVIOUS
  <2>3. Max({f[i].at : i \in T}) <= Max({f[i].at : i \in S})
        /\ Max({f[i].at : i \in T}) \in Nat /\ Max({f[i].at : i \in S}) \in Nat
    <3>1. T \in SUBSET DOMAIN f /\ S # {}
      BY <2>1
    <3>2. Max({f[i].at : i \in T}) \in {f[i].at : i \in T}
      BY <3>1, <2>1, Latest
    <3>3. /\ Max({f[i].at : i \in S}) \in {f[i].at : i \in S}
          /\ \A i \in S : f[i].at <= Max({f[j].at : j \in S})
      BY <3>1, Latest
    <3>. QED  BY <3>2, <3>3 DEF RowsUpTo, Attempt
  <2>4. /\ LockTime(Rung(Cardinality(T), th)) <= LockTime(Rung(Cardinality(S), th))
        /\ LockTime(Rung(Cardinality(T), th)) \in Nat
        /\ LockTime(Rung(Cardinality(S), th)) \in Nat
    BY <1>1, <1>3, RungOK, LockTimeRises
  <2>5. Ends(g, T, th)
          = {Max({f[i].at : i \in T}) + LockTime(Rung(Cardinality(T), th))}
    BY <1>3, <2>2 DEF Ends
  <2>6. Ends(f, S, th)
          = {Max({f[i].at : i \in S}) + LockTime(Rung(Cardinality(S), th))}
    BY <1>1, <1>3 DEF Ends
  <2>7. Max({f[i].at : i \in T}) + LockTime(Rung(Cardinality(T), th))
          <= Max({f[i].at : i \in S}) + LockTime(Rung(Cardinality(S), th))
    BY <2>3, <2>4
  <2>. QED  BY <2>5, <2>6, <2>7 DEF Below
<1>. QED  BY <1>2, <1>3

\* The failures of this ip that are left are the old ones.
NothingNew(f, g, ip) ==
    \A i \in DOMAIN g : g[i].result = "failure" /\ g[i].ip = ip =>
        i \in DOMAIN f /\ g[i] = f[i]

LEMMA LocksShrink ==
  ASSUME NEW f, NEW n \in Nat, RowsUpTo(f, n), NEW g, NEW m \in Nat, RowsUpTo(g, m),
         NEW c \in Callers, NothingNew(f, g, c[2]),
         NEW a \in Nat, NEW b \in Nat, a <= b
  PROVE  Below(PairEnds(g, c, b), PairEnds(f, c, a))
         /\ Below(WideEnds(g, c, b), WideEnds(f, c, a))
<1>1. Minus(a, Window) \in Nat /\ Minus(b, Window) \in Nat
      /\ Minus(a, Window) <= Minus(b, Window)
  BY ThrottleAssumption DEF Minus
<1>2. ASSUME NEW A
      PROVE  LET S == Fails(f, c[2], A, Minus(a, Window))
                 T == Fails(g, c[2], A, Minus(b, Window))
             IN  /\ S \in SUBSET DOMAIN f /\ T \in SUBSET DOMAIN g
                 /\ T \subseteq S /\ \A i \in T : g[i] = f[i]
  BY <1>1 DEF Fails, NothingNew, RowsUpTo, Attempt
<1>3. Below(Ends(g, Fails(g, c[2], {c[1]}, Minus(b, Window)), PairThreshold),
            Ends(f, Fails(f, c[2], {c[1]}, Minus(a, Window)), PairThreshold))
  BY <1>2, EndsShrink, ThrottleAssumption
<1>4. Below(Ends(g, Fails(g, c[2], Everyone, Minus(b, Window)), WideThreshold),
            Ends(f, Fails(f, c[2], Everyone, Minus(a, Window)), WideThreshold))
  BY <1>2, EndsShrink, ThrottleAssumption
<1>. QED  BY <1>3, <1>4 DEF PairEnds, WideEnds, Below

LEMMA EndsAreNumbers ==
  ASSUME NEW f, NEW n \in Nat, RowsUpTo(f, n), NEW c, NEW a
  PROVE  /\ PairEnds(f, c, a) \in SUBSET Nat /\ Bounded(PairEnds(f, c, a))
         /\ WideEnds(f, c, a) \in SUBSET Nat /\ Bounded(WideEnds(f, c, a))
<1>1. \A A, s : Fails(f, c[2], A, s) \in SUBSET DOMAIN f
  BY DEF Fails
<1>2. Bounded({})
  BY DEF Bounded
<1>. QED  BY <1>1, <1>2, EndsOK, ThrottleAssumption DEF PairEnds, WideEnds

-----------------------------------------------------------------------------
(* The inductive invariant, in named parts.                                 *)

\* Rows and requests were written in the past, and there are finitely many rows.
Timely ==
    /\ IsFiniteSet(InUse)
    /\ \A i \in InUse : attempts[i].at <= now
    /\ \A t \in Threads : req[t].at <= now /\ Bounded(req[t].ends)

TypeInv == TypeOK /\ Timely

\* What a caller was told is at least as late as the locks there are now.
Told ==
    \A c \in Callers : told[c] # 0 =>
        \A e \in PairEnds(attempts, c, now) \cup WideEnds(attempts, c, now) : e <= told[c]

\* A login that nobody overtook saw no lock that ends too early: half way through
\* its check it knows the pair's, and past it there is none.
Checked ==
    \A t \in Threads : req[t].undisturbed =>
        /\ req[t].pc = "paired" => Below(PairEnds(attempts, req[t].caller, now), req[t].ends)
        /\ req[t].pc = "verifying" =>
               \A e \in PairEnds(attempts, req[t].caller, now)
                          \cup WideEnds(attempts, req[t].caller, now) : e <= req[t].at

IInv == TypeInv /\ Told /\ Checked

LEMMA NoLoginOK == NoLogin \in Login /\ Bounded(NoLogin.ends)
<1>1. PICK ip \in Ips : <<NoAddress, ip>> \in Callers
  BY ThrottleAssumption DEF Callers
<1>2. NoCaller \in Callers
  BY <1>1 DEF NoCaller
<1>. QED  BY <1>2 DEF NoLogin, Login, Bounded

LEMMA RowsAre == TypeInv => RowsUpTo(attempts, now) /\ now \in Nat
  BY DEF TypeInv, TypeOK, Timely, RowsUpTo, InUse

LEMMA IInvInit == Init => IInv
<1>. SUFFICES ASSUME Init  PROVE IInv
  OBVIOUS
<1>1. InUse = {} /\ IsFiniteSet(InUse)
  BY FS_EmptySet DEF Init, InUse
<1>2. attempts \in [InUse -> Attempt]
  BY <1>1 DEF Init, InUse
<1>4. NoLogin.at = 0
  BY DEF NoLogin
<1>5. TypeInv
  BY <1>1, <1>2, <1>4, NoLoginOK DEF Init, TypeInv, TypeOK, Timely
<1>3. Told /\ Checked
  BY DEF Init, Told, Checked, NoLogin
<1>. QED  BY <1>5, <1>3 DEF IInv

-----------------------------------------------------------------------------
(* The types.                                                               *)

\* One more row, at the present instant.
LEMMA WriteTyped ==
  ASSUME TypeInv, UNCHANGED now, NEW rows, DOMAIN rows \subseteq InUse,
         \A i \in DOMAIN rows : rows[i] = attempts[i],
         NEW c \in Callers, NEW result \in Results, Write(rows, c, result)
  PROVE  /\ InUse' \subseteq Ids /\ attempts' \in [InUse' -> Attempt]
         /\ IsFiniteSet(InUse') /\ \A i \in InUse' : attempts'[i].at <= now'
         /\ \A i \in InUse' : \/ i \in InUse /\ attempts'[i] = attempts[i]
                              \/ attempts'[i] = Row(c, result)
<1>1. PICK i \in Ids \ DOMAIN rows :
          attempts' = [x \in DOMAIN rows \cup {i} |->
                           IF x = i THEN Row(c, result) ELSE rows[x]]
  BY DEF Write
<1>2. Row(c, result) \in Attempt /\ Row(c, result).at = now
  BY DEF Row, Attempt, Callers, TypeInv, TypeOK
<1>3. IsFiniteSet(DOMAIN rows \cup {i})
  BY FS_Subset, FS_AddElement DEF TypeInv, Timely
<1>. QED  BY <1>1, <1>2, <1>3 DEF TypeInv, TypeOK, Timely, InUse

\* Fewer rows.
LEMMA FewerTyped ==
  ASSUME TypeInv, UNCHANGED now, NEW S, S \subseteq InUse,
         attempts' = [i \in S |-> attempts[i]]
  PROVE  /\ InUse' \subseteq Ids /\ attempts' \in [InUse' -> Attempt]
         /\ IsFiniteSet(InUse') /\ \A i \in InUse' : attempts'[i].at <= now'
  BY FS_Subset DEF TypeInv, TypeOK, Timely, InUse

\* A request that moves.
RequestOK(r) == r \in Login /\ r.at <= now /\ Bounded(r.ends)

LEMMA TurnTyped ==
  ASSUME TypeInv, NEW t \in Threads, NEW r, RequestOK(r), Become(t, r), UNCHANGED now
  PROVE  /\ req' \in [Threads -> Login]
         /\ \A x \in Threads : req'[x].at <= now' /\ Bounded(req'[x].ends)
  BY DEF TypeInv, TypeOK, Timely, Become, RequestOK

LEMMA NoLoginTyped == TypeInv => RequestOK(NoLogin)
<1>1. NoLogin.at = 0
  BY DEF NoLogin
<1>. QED  BY <1>1, NoLoginOK DEF TypeInv, TypeOK, RequestOK

LEMMA PruningTyped == TypeInv => RequestOK([NoLogin EXCEPT !.pc = "pruning"])
<1>1. NoLogin.at = 0 /\ [NoLogin EXCEPT !.pc = "pruning"].at = 0
      /\ [NoLogin EXCEPT !.pc = "pruning"].ends = NoLogin.ends
  BY DEF NoLogin
<1>2. [NoLogin EXCEPT !.pc = "pruning"] \in Login
  BY NoLoginOK DEF Login
<1>. QED  BY <1>1, <1>2, NoLoginOK DEF TypeInv, TypeOK, RequestOK

\* What ReadWide compares with the clock.
Found(r) == InForce(r.ends \cup WideLock(r.caller, r.at), r.at)

LEMMA FoundTyped ==
  ASSUME TypeInv, NEW t \in Threads
  PROVE  /\ Found(req[t]) \in SUBSET Nat
         /\ Found(req[t]) # {} =>
                /\ Max(Found(req[t])) \in Found(req[t])
                /\ \A e \in Found(req[t]) : e <= Max(Found(req[t]))
<1>. DEFINE W == WideEnds(attempts, req[t].caller, req[t].at)
<1>1. W \in SUBSET Nat /\ Bounded(W)
  BY RowsAre, EndsAreNumbers
<1>2. req[t].ends \in SUBSET Nat /\ Bounded(req[t].ends)
  BY DEF TypeInv, TypeOK, Timely, Login
<1>3. Found(req[t]) \subseteq req[t].ends \cup W
  BY WideLockIs DEF Found, InForce
<1>4. PICK m \in Nat, n \in Nat : (\A e \in W : e <= m) /\ (\A e \in req[t].ends : e <= n)
  BY <1>1, <1>2 DEF Bounded
<1>. HIDE DEF W
<1>5. Found(req[t]) \in SUBSET Nat
  BY <1>1, <1>2, <1>3
<1>6. \A e \in Found(req[t]) : e <= m + n
  <2>1. ASSUME NEW e \in W  PROVE e \in Nat /\ e <= m
    BY <1>1, <1>4
  <2>2. ASSUME NEW e \in req[t].ends  PROVE e \in Nat /\ e <= n
    BY <1>2, <1>4
  <2>. QED  BY <2>1, <2>2, <1>3
<1>7. m + n \in Nat
  OBVIOUS
<1>. QED  BY <1>5, <1>6, <1>7, MaxIsLargest

LEMMA ReadTyped ==
  ASSUME TypeInv, NEW t \in Threads, ReadPair(t) \/ ReadWide(t)
  PROVE  TypeInv'
<1>1. CASE ReadPair(t)
  <2>. DEFINE P == PairEnds(attempts, req[t].caller, req[t].at)
              r == [req[t] EXCEPT !.pc = "paired", !.ends = P]
  <2>1. P \in SUBSET Nat /\ Bounded(P)
    BY RowsAre, EndsAreNumbers
  <2>2. Become(t, r)
    BY <1>1, PairLockIs DEF ReadPair
  <2>. HIDE DEF P
  <2>3. RequestOK(r)
    BY <2>1 DEF TypeInv, TypeOK, Timely, RequestOK, Login
  <2>4. /\ req' \in [Threads -> Login]
        /\ \A x \in Threads : req'[x].at <= now' /\ Bounded(req'[x].ends)
    BY <2>2, <2>3, <1>1, TurnTyped DEF ReadPair
  <2>. QED  BY <2>4, <1>1 DEF ReadPair, TypeInv, TypeOK, Timely, InUse
<1>2. CASE ReadWide(t)
  <2>1. \E pc \in {"verifying", "refused"} : Become(t, [req[t] EXCEPT !.pc = pc])
    BY <1>2 DEF ReadWide
  <2>2. PICK pc \in {"verifying", "refused"} : Become(t, [req[t] EXCEPT !.pc = pc])
    BY <2>1
  <2>3. RequestOK([req[t] EXCEPT !.pc = pc])
    BY DEF TypeInv, TypeOK, Timely, RequestOK, Login
  <2>4. /\ req' \in [Threads -> Login]
        /\ \A x \in Threads : req'[x].at <= now' /\ Bounded(req'[x].ends)
    BY <2>2, <2>3, <1>2, TurnTyped DEF ReadWide
  <2>5. \/ /\ told' = [told EXCEPT ![req[t].caller] = Max(Found(req[t]))]
           /\ Found(req[t]) # {}
        \/ told' = told
    BY <1>2 DEF ReadWide, Found
  <2>6. told' \in [Callers -> Nat]
    BY <2>5, FoundTyped DEF TypeInv, TypeOK
  <2>. QED  BY <2>4, <2>6, <1>2 DEF ReadWide, TypeInv, TypeOK, Timely, InUse
<1>. QED  BY <1>1, <1>2

LEMMA RecordTyped ==
  ASSUME TypeInv, NEW t \in Threads,
         RecordBlocked(t) \/ RecordFailure(t) \/ RecordSuccess(t)
  PROVE  TypeInv'
<1>. DEFINE c == req[t].caller
<1>0. c \in Callers /\ Results = {"failure", "blocked", "success"}
  BY DEF TypeInv, TypeOK, Login, Results
<1>1. CASE RecordBlocked(t)
  <2>1. /\ InUse' \subseteq Ids /\ attempts' \in [InUse' -> Attempt]
        /\ IsFiniteSet(InUse') /\ \A i \in InUse' : attempts'[i].at <= now'
    BY <1>0, <1>1, WriteTyped DEF RecordBlocked, InUse
  <2>2. /\ req' \in [Threads -> Login]
        /\ \A x \in Threads : req'[x].at <= now' /\ Bounded(req'[x].ends)
    BY <1>1, NoLoginTyped, TurnTyped DEF RecordBlocked
  <2>. QED  BY <2>1, <2>2, <1>1 DEF RecordBlocked, TypeInv, TypeOK, Timely
<1>2. CASE RecordFailure(t)
  <2>1. /\ InUse' \subseteq Ids /\ attempts' \in [InUse' -> Attempt]
        /\ IsFiniteSet(InUse') /\ \A i \in InUse' : attempts'[i].at <= now'
    BY <1>0, <1>2, WriteTyped DEF RecordFailure, InUse
  <2>2. \A x \in Threads : req'[x] \in {[NoLogin EXCEPT !.pc = "pruning"], req[x],
                                        [req[x] EXCEPT !.undisturbed = FALSE]}
    BY <1>2 DEF RecordFailure
  <2>3. \A x \in Threads : RequestOK(req[x]) /\ RequestOK([req[x] EXCEPT !.undisturbed = FALSE])
    BY DEF TypeInv, TypeOK, Timely, RequestOK, Login
  <2>4. \A x \in Threads : RequestOK(req'[x])
    BY <2>2, <2>3, PruningTyped
  <2>5. req' = [x \in Threads |-> req'[x]] /\ now' = now
    BY <1>2 DEF RecordFailure
  <2>6. /\ req' \in [Threads -> Login]
        /\ \A x \in Threads : req'[x].at <= now' /\ Bounded(req'[x].ends)
    BY <2>4, <2>5 DEF RequestOK
  <2>7. told' \in [Callers -> Nat]
    BY <1>2 DEF RecordFailure, TypeInv, TypeOK
  <2>. QED  BY <2>1, <2>5, <2>6, <2>7 DEF TypeInv, TypeOK, Timely
<1>3. CASE RecordSuccess(t)
  <2>1. /\ InUse' \subseteq Ids /\ attempts' \in [InUse' -> Attempt]
        /\ IsFiniteSet(InUse') /\ \A i \in InUse' : attempts'[i].at <= now'
    <3>. DEFINE rows == [i \in InUse \ Cleared(c) |-> attempts[i]]
    <3>1. DOMAIN rows \subseteq InUse /\ \A i \in DOMAIN rows : rows[i] = attempts[i]
      OBVIOUS
    <3>2. Write(rows, c, "success") /\ UNCHANGED now
      BY <1>3 DEF RecordSuccess
    <3>. HIDE DEF rows
    <3>. QED  BY <3>1, <3>2, <1>0, WriteTyped
  <2>2. /\ req' \in [Threads -> Login]
        /\ \A x \in Threads : req'[x].at <= now' /\ Bounded(req'[x].ends)
    BY <1>3, PruningTyped, TurnTyped DEF RecordSuccess
  <2>. QED  BY <2>1, <2>2, <1>3 DEF RecordSuccess, TypeInv, TypeOK, Timely
<1>. QED  BY <1>1, <1>2, <1>3

LEMMA OtherTyped ==
  ASSUME TypeInv, NEW t \in Threads,
         (\E c \in Callers : Arrive(t, c)) \/ Prune(t) \/ SkipPrune(t) \/ Crash(t)
  PROVE  TypeInv'
<1>1. ASSUME NEW c \in Callers, Arrive(t, c)  PROVE TypeInv'
  <2>. DEFINE r == [pc |-> "arrived", caller |-> c, at |-> now, ends |-> {}, undisturbed |-> TRUE]
  <2>1. RequestOK(r)
    BY DEF TypeInv, TypeOK, RequestOK, Login, Bounded
  <2>2. Become(t, r) /\ UNCHANGED <<attempts, now, told>>
    BY <1>1 DEF Arrive
  <2>. HIDE DEF r
  <2>3. /\ req' \in [Threads -> Login]
        /\ \A x \in Threads : req'[x].at <= now' /\ Bounded(req'[x].ends)
    BY <2>1, <2>2, TurnTyped
  <2>. QED  BY <2>2, <2>3 DEF TypeInv, TypeOK, Timely, InUse
<1>2. CASE SkipPrune(t) \/ Crash(t)
  <2>1. Become(t, NoLogin) /\ UNCHANGED <<attempts, now, told>>
    BY <1>2 DEF SkipPrune, Crash
  <2>2. /\ req' \in [Threads -> Login]
        /\ \A x \in Threads : req'[x].at <= now' /\ Bounded(req'[x].ends)
    BY <2>1, NoLoginTyped, TurnTyped
  <2>. QED  BY <2>1, <2>2 DEF TypeInv, TypeOK, Timely, InUse
<1>3. CASE Prune(t)
  <2>1. /\ InUse' \subseteq Ids /\ attempts' \in [InUse' -> Attempt]
        /\ IsFiniteSet(InUse') /\ \A i \in InUse' : attempts'[i].at <= now'
    BY <1>3, FewerTyped DEF Prune
  <2>2. /\ req' \in [Threads -> Login]
        /\ \A x \in Threads : req'[x].at <= now' /\ Bounded(req'[x].ends)
    BY <1>3, NoLoginTyped, TurnTyped DEF Prune
  <2>. QED  BY <1>3, <2>1, <2>2 DEF Prune, TypeInv, TypeOK, Timely
<1>. QED  BY <1>1, <1>2, <1>3

LEMMA TypeStep == TypeInv /\ [Next]_tvars => TypeInv'
<1>. SUFFICES ASSUME TypeInv, [Next]_tvars  PROVE TypeInv'
  OBVIOUS
<1>1. CASE Tick
  <2>1. now' \in Nat /\ now <= now' /\ \A n \in Nat : n <= now => n <= now'
    BY <1>1 DEF Tick, TypeInv, TypeOK
  <2>2. \A i \in InUse : attempts[i].at \in Nat
    BY DEF TypeInv, TypeOK, Attempt
  <2>3. \A t \in Threads : req[t].at \in Nat
    BY DEF TypeInv, TypeOK, Login
  <2>. QED  BY <2>1, <2>2, <2>3, <1>1 DEF Tick, TypeInv, TypeOK, Timely, InUse
<1>2. CASE UNCHANGED tvars
  BY <1>2 DEF tvars, TypeInv, TypeOK, Timely, InUse
<1>. QED  BY <1>1, <1>2, ReadTyped, RecordTyped, OtherTyped DEF Next, Step

-----------------------------------------------------------------------------
(* Locks only shrink.                                                       *)

LEMMA LocksFall ==
  ASSUME TypeInv, TypeInv', now <= now', NEW c \in Callers,
         NothingNew(attempts, attempts', c[2])
  PROVE  Below(PairEnds(attempts', c, now'), PairEnds(attempts, c, now))
         /\ Below(WideEnds(attempts', c, now'), WideEnds(attempts, c, now))
<1>1. RowsUpTo(attempts', now') /\ now' \in Nat
  BY DEF TypeInv, TypeOK, Timely, RowsUpTo, InUse
<1>. QED  BY <1>1, RowsAre, LocksShrink

\* A lock of the past covers that of the present.
LEMMA LocksAge ==
  ASSUME TypeInv, NEW c \in Callers, NEW a \in Nat, a <= now
  PROVE  Below(PairEnds(attempts, c, now), PairEnds(attempts, c, a))
         /\ Below(WideEnds(attempts, c, now), WideEnds(attempts, c, a))
<1>1. NothingNew(attempts, attempts, c[2])
  BY DEF NothingNew
<1>. QED  BY <1>1, RowsAre, LocksShrink

\* A limit on a set of locks is one on what lies below it.
LEMMA LimitBelow ==
  ASSUME NEW S \in SUBSET Nat, NEW T \in SUBSET Nat, Below(S, T),
         NEW n \in Nat, \A e \in T : e <= n
  PROVE  \A e \in S : e <= n
<1>1. ASSUME NEW e \in S  PROVE e <= n
  <2>1. PICK d \in T : e <= d
    BY DEF Below
  <2>. QED  BY <2>1
<1>. QED  BY <1>1

LEMMA BelowBelow ==
  ASSUME NEW S \in SUBSET Nat, NEW T \in SUBSET Nat, NEW U \in SUBSET Nat,
         Below(S, T), Below(T, U)
  PROVE  Below(S, U)
<1>1. ASSUME NEW e \in S  PROVE \E d \in U : e <= d
  <2>1. PICK d \in T : e <= d
    BY DEF Below
  <2>2. PICK b \in U : d <= b
    BY DEF Below
  <2>. QED  BY <2>1, <2>2
<1>. QED  BY <1>1 DEF Below

\* Only RecordFailure adds a failure, and only to its ip.
LEMMA FailuresCome ==
  ASSUME TypeInv, [Next]_tvars
  PROVE  /\ now <= now'
         /\ \/ \A ip \in Ips : NothingNew(attempts, attempts', ip)
            \/ \E t \in Threads :
                   /\ RecordFailure(t)
                   /\ \A ip \in Ips : ip # req[t].caller[2] => NothingNew(attempts, attempts', ip)
<1>0. now \in Nat /\ \A t \in Threads : req[t].caller \in Callers
  BY DEF TypeInv, TypeOK, Login
<1>1. CASE UNCHANGED attempts
  <2>1. now' = now \/ now' = now + 1
    BY Zenon DEF Next, Step, tvars, Arrive, ReadPair, ReadWide, RecordBlocked, RecordFailure,
       RecordSuccess, Prune, SkipPrune, Crash, Tick
  <2>. QED  BY <1>0, <1>1, <2>1 DEF NothingNew
<1>2. ASSUME NEW t \in Threads, RecordBlocked(t)
      PROVE  now' = now /\ \A ip \in Ips : NothingNew(attempts, attempts', ip)
  <2>1. \A i \in InUse' : \/ i \in InUse /\ attempts'[i] = attempts[i]
                          \/ attempts'[i] = Row(req[t].caller, "blocked")
    BY <1>0, <1>2, WriteTyped DEF RecordBlocked, InUse, Results
  <2>. QED  BY <2>1, <1>2 DEF NothingNew, RecordBlocked, InUse, Row
<1>3. ASSUME NEW t \in Threads, RecordSuccess(t)
      PROVE  now' = now /\ \A ip \in Ips : NothingNew(attempts, attempts', ip)
  <2>. DEFINE rows == [i \in InUse \ Cleared(req[t].caller) |-> attempts[i]]
  <2>1. DOMAIN rows \subseteq InUse /\ \A i \in DOMAIN rows : rows[i] = attempts[i]
    OBVIOUS
  <2>2. Write(rows, req[t].caller, "success") /\ UNCHANGED now
    BY <1>3 DEF RecordSuccess
  <2>. HIDE DEF rows
  <2>3. \A i \in InUse' : \/ i \in InUse /\ attempts'[i] = attempts[i]
                          \/ attempts'[i] = Row(req[t].caller, "success")
    BY <2>1, <2>2, <1>0, WriteTyped DEF Results
  <2>. QED  BY <2>2, <2>3 DEF NothingNew, InUse, Row
<1>4. ASSUME NEW t \in Threads, RecordFailure(t)
      PROVE  now' = now /\ \A ip \in Ips :
                 ip # req[t].caller[2] => NothingNew(attempts, attempts', ip)
  <2>1. \A i \in InUse' : \/ i \in InUse /\ attempts'[i] = attempts[i]
                          \/ attempts'[i] = Row(req[t].caller, "failure")
    BY <1>0, <1>4, WriteTyped DEF RecordFailure, InUse, Results
  <2>. QED  BY <2>1, <1>4 DEF NothingNew, RecordFailure, InUse, Row
<1>5. ASSUME NEW t \in Threads, Prune(t)
      PROVE  now' = now /\ \A ip \in Ips : NothingNew(attempts, attempts', ip)
  BY <1>5 DEF Prune, NothingNew, InUse
<1>6. \/ UNCHANGED attempts
      \/ \E t \in Threads : \/ RecordBlocked(t) \/ RecordSuccess(t)
                            \/ RecordFailure(t) \/ Prune(t)
  BY DEF Next, Step, tvars, Arrive, ReadPair, ReadWide, SkipPrune, Crash, Tick
<1>. QED  BY <1>0, <1>1, <1>2, <1>3, <1>4, <1>5, <1>6

-----------------------------------------------------------------------------
(* The invariant is inductive.                                              *)

LEMMA EndsHere ==
  ASSUME TypeInv, NEW c, NEW a
  PROVE  PairEnds(attempts, c, a) \in SUBSET Nat /\ WideEnds(attempts, c, a) \in SUBSET Nat
  BY RowsAre, EndsAreNumbers

LEMMA EndsThere ==
  ASSUME TypeInv', NEW c, NEW a
  PROVE  PairEnds(attempts', c, a) \in SUBSET Nat /\ WideEnds(attempts', c, a) \in SUBSET Nat
<1>1. RowsUpTo(attempts', now') /\ now' \in Nat
  BY DEF TypeInv, TypeOK, Timely, RowsUpTo, InUse
<1>. QED  BY <1>1, EndsAreNumbers

\* What ReadWide finds is the best answer there is for a login that nobody
\* overtook.
LEMMA FoundIsFinal ==
  ASSUME IInv, NEW t \in Threads, req[t].pc = "paired", req[t].undisturbed,
         NEW e \in PairEnds(attempts, req[t].caller, now)
                     \cup WideEnds(attempts, req[t].caller, now)
  PROVE  /\ Found(req[t]) = {} => e <= req[t].at
         /\ Found(req[t]) # {} => e <= Max(Found(req[t]))
<1>. DEFINE c == req[t].caller
            W == WideEnds(attempts, c, req[t].at)
<1>1. c \in Callers /\ req[t].at \in Nat /\ req[t].at <= now /\ req[t].ends \in SUBSET Nat
  BY DEF IInv, TypeInv, TypeOK, Timely, Login
<1>2. Below(PairEnds(attempts, c, now), req[t].ends)
  BY DEF IInv, Checked
<1>3. Below(WideEnds(attempts, c, now), W)
  BY <1>1, LocksAge DEF IInv
<1>4. W \in SUBSET Nat /\ e \in Nat
  BY EndsHere DEF IInv
<1>5. PICK d \in req[t].ends \cup W : e <= d
  BY <1>2, <1>3 DEF Below
<1>6. d > req[t].at => d \in Found(req[t])
  BY WideLockIs DEF Found, InForce
<1>7. d \in Nat
  BY <1>1, <1>4
<1>. HIDE DEF W, c
<1>8. CASE Found(req[t]) = {}
  BY <1>1, <1>4, <1>5, <1>6, <1>7, <1>8
<1>9. CASE Found(req[t]) # {}
  <2>1. Max(Found(req[t])) \in Found(req[t]) /\ Found(req[t]) \in SUBSET Nat
        /\ \A x \in Found(req[t]) : x <= Max(Found(req[t]))
    BY <1>9, FoundTyped DEF IInv
  <2>2. Max(Found(req[t])) > req[t].at /\ Max(Found(req[t])) \in Nat
    BY <2>1 DEF Found, InForce
  <2>. QED  BY <2>1, <2>2, <1>1, <1>4, <1>5, <1>6, <1>7, <1>9
<1>. QED  BY <1>8, <1>9

LEMMA ToldStep == IInv /\ TypeInv' /\ [Next]_tvars => Told'
<1>. SUFFICES ASSUME IInv, TypeInv', [Next]_tvars,
                     NEW c \in Callers, told'[c] # 0,
                     NEW e \in PairEnds(attempts', c, now') \cup WideEnds(attempts', c, now')
              PROVE  e <= told'[c]
  BY DEF Told
<1>0. TypeInv /\ e \in Nat /\ told'[c] \in Nat /\ c[2] \in Ips
  BY EndsThere DEF IInv, TypeInv, TypeOK, Callers
<1>1. ASSUME NothingNew(attempts, attempts', c[2])
      PROVE  \E d \in PairEnds(attempts, c, now) \cup WideEnds(attempts, c, now) : e <= d
  BY <1>0, <1>1, LocksFall, FailuresCome DEF Below
<1>2. ASSUME told'[c] = told[c], NothingNew(attempts, attempts', c[2])
      PROVE  e <= told'[c]
  <2>1. PICK d \in PairEnds(attempts, c, now) \cup WideEnds(attempts, c, now) : e <= d
    BY <1>1, <1>2
  <2>2. d <= told[c] /\ d \in Nat
    BY <1>0, <1>2, EndsHere DEF IInv, Told
  <2>. QED  BY <2>1, <2>2, <1>0, <1>2
<1>3. ASSUME NEW t \in Threads, RecordFailure(t)  PROVE e <= told'[c]
  <2>1. c[2] # req[t].caller[2] /\ told'[c] = told[c]
    BY <1>3 DEF RecordFailure
  <2>2. ASSUME NEW x \in Threads, RecordFailure(x)
        PROVE  c[2] # req[x].caller[2]
    BY <2>2 DEF RecordFailure
  <2>3. NothingNew(attempts, attempts', c[2])
    BY <2>2, <1>0, FailuresCome
  <2>. QED  BY <1>2, <2>1, <2>3
<1>4. ASSUME \A t \in Threads : ~RecordFailure(t)
      PROVE  NothingNew(attempts, attempts', c[2])
  BY <1>0, <1>4, FailuresCome
<1>5. ASSUME NEW t \in Threads, ReadWide(t), \A x \in Threads : ~RecordFailure(x)
      PROVE  e <= told'[c]
  <2>1. CASE told'[c] = told[c]
    BY <2>1, <1>2, <1>4, <1>5
  <2>2. CASE told'[c] # told[c]
    <3>1. /\ req[t].pc = "paired" /\ req[t].undisturbed /\ c = req[t].caller
          /\ Found(req[t]) # {} /\ told'[c] = Max(Found(req[t]))
      BY <1>5, <2>2 DEF ReadWide, Found, IInv, TypeInv, TypeOK
    <3>2. attempts' = attempts /\ now' = now
      BY <1>5 DEF ReadWide
    <3>3. e \in PairEnds(attempts, c, now) \cup WideEnds(attempts, c, now)
      BY <3>2
    <3>. QED  BY <3>1, <3>3, FoundIsFinal
  <2>. QED  BY <2>1, <2>2
<1>6. \/ \E t \in Threads : RecordFailure(t) \/ ReadWide(t)
      \/ told' = told
  BY DEF Next, Step, tvars, Arrive, ReadPair, RecordBlocked, RecordSuccess, Prune, SkipPrune,
     Crash, Tick
<1>. QED  BY <1>2, <1>3, <1>4, <1>5, <1>6

\* Which steps take a request to where Checked speaks of it.
LEMMA Moves ==
  ASSUME TypeInv, [Next]_tvars, NEW x \in Threads, req'[x].pc \in {"paired", "verifying"}
  PROVE  \/ ReadPair(x)
         \/ ReadWide(x)
         \/ /\ \/ req'[x] = req[x]
               \/ req'[x] = [req[x] EXCEPT !.undisturbed = FALSE]
            /\ \A t \in Threads : RecordFailure(t) /\ req[x].caller[2] = req[t].caller[2] =>
                   ~req'[x].undisturbed
<1>0. req \in [Threads -> Login]
  BY DEF TypeInv, TypeOK
<1>1. CASE \E t \in Threads : RecordFailure(t)
  <2>1. PICK t \in Threads : RecordFailure(t)
    BY <1>1
  <2>2. x # t
    BY <2>1 DEF RecordFailure, NoLogin
  <2>3. req'[x] = req[x] \/ req'[x] = [req[x] EXCEPT !.undisturbed = FALSE]
    BY <2>1, <2>2 DEF RecordFailure
  <2>4. ASSUME NEW s \in Threads, RecordFailure(s), req[x].caller[2] = req[s].caller[2]
        PROVE  ~req'[x].undisturbed
    <3>1. x # s
      BY <2>4 DEF RecordFailure, NoLogin
    <3>2. req'[x] = [req[x] EXCEPT !.undisturbed = FALSE]
      BY <2>4, <3>1 DEF RecordFailure
    <3>. QED  BY <3>2, <1>0 DEF Login
  <2>. QED  BY <2>3, <2>4
<1>2. CASE ~ \E t \in Threads : RecordFailure(t)
  <2>1. CASE req' = req
    BY <2>1, <1>2
  <2>2. ASSUME NEW t \in Threads, x # t, \E r : Become(t, r)
        PROVE  req'[x] = req[x]
    BY <2>2, <1>0 DEF Become
  <2>3. ASSUME NEW t \in Threads,
               \/ \E c \in Callers : Arrive(t, c)
               \/ RecordBlocked(t) \/ RecordSuccess(t) \/ Prune(t) \/ SkipPrune(t) \/ Crash(t)
        PROVE  x # t /\ \E r : Become(t, r)
    BY <2>3, <1>0 DEF Arrive, RecordBlocked, RecordSuccess, Prune, SkipPrune, Crash, Become, NoLogin
  <2>4. ASSUME NEW t \in Threads, ReadPair(t) \/ ReadWide(t)
        PROVE  \E r : Become(t, r)
    BY <2>4 DEF ReadPair, ReadWide
  <2>5. \/ req' = req
        \/ \E t \in Threads :
               \/ \E c \in Callers : Arrive(t, c)
               \/ RecordBlocked(t) \/ RecordSuccess(t) \/ Prune(t) \/ SkipPrune(t) \/ Crash(t)
               \/ ReadPair(t) \/ ReadWide(t)
    BY <1>2 DEF Next, Step, tvars, Tick
  <2>. QED  BY <1>2, <2>1, <2>2, <2>3, <2>4, <2>5
<1>. QED  BY <1>1, <1>2

LEMMA CheckedStep == IInv /\ TypeInv' /\ [Next]_tvars => Checked'
<1>. SUFFICES ASSUME IInv, TypeInv', [Next]_tvars, NEW x \in Threads,
                     req'[x].undisturbed, req'[x].pc \in {"paired", "verifying"}
              PROVE
       /\ req'[x].pc = "paired" =>
              Below(PairEnds(attempts', req'[x].caller, now'), req'[x].ends)
       /\ req'[x].pc = "verifying" =>
              \A e \in PairEnds(attempts', req'[x].caller, now')
                         \cup WideEnds(attempts', req'[x].caller, now') : e <= req'[x].at
  BY DEF Checked
<1>0. /\ TypeInv
      /\ req[x].caller \in Callers /\ req[x].caller[2] \in Ips
      /\ req[x].at \in Nat /\ req[x].at <= now /\ req[x].ends \in SUBSET Nat
      /\ req \in [Threads -> Login]
  BY DEF IInv, TypeInv, TypeOK, Timely, Login, Callers
<1>1. CASE ReadPair(x)
  <2>1. /\ attempts' = attempts /\ now' = now
        /\ req'[x] = [req[x] EXCEPT !.pc = "paired",
                                    !.ends = PairEnds(attempts, req[x].caller, req[x].at)]
    BY <1>0, <1>1, PairLockIs DEF ReadPair, Become
  <2>2. Below(PairEnds(attempts, req[x].caller, now),
              PairEnds(attempts, req[x].caller, req[x].at))
    BY <1>0, LocksAge
  <2>3. /\ req'[x].pc = "paired" /\ req'[x].caller = req[x].caller
        /\ req'[x].ends = PairEnds(attempts, req[x].caller, req[x].at)
    BY <2>1, <1>0 DEF Login
  <2>. QED  BY <2>1, <2>2, <2>3
<1>2. CASE ReadWide(x)
  <2>1. /\ req[x].pc = "paired" /\ attempts' = attempts /\ now' = now
        /\ req'[x] = [req[x] EXCEPT !.pc = IF Found(req[x]) = {} THEN "verifying" ELSE "refused"]
    BY <1>0, <1>2 DEF ReadWide, Become, Found
  <2>2. /\ req'[x].caller = req[x].caller /\ req'[x].at = req[x].at
        /\ req[x].undisturbed /\ req'[x].pc = "verifying" /\ Found(req[x]) = {}
    BY <2>1, <1>0 DEF Login
  <2>3. \A e \in PairEnds(attempts, req[x].caller, now)
                   \cup WideEnds(attempts, req[x].caller, now) : e <= req[x].at
    BY <2>1, <2>2, FoundIsFinal
  <2>. QED  BY <2>1, <2>2, <2>3
<1>3. CASE /\ \/ req'[x] = req[x]
              \/ req'[x] = [req[x] EXCEPT !.undisturbed = FALSE]
           /\ \A t \in Threads : RecordFailure(t) /\ req[x].caller[2] = req[t].caller[2] =>
                  ~req'[x].undisturbed
  <2>1. req'[x] = req[x]
    BY <1>0, <1>3 DEF Login
  <2>2. NothingNew(attempts, attempts', req[x].caller[2])
    BY <1>0, <1>3, FailuresCome
  <2>. DEFINE c == req[x].caller
              P == PairEnds(attempts, c, now)
              W == WideEnds(attempts, c, now)
  <2>3. Below(PairEnds(attempts', c, now'), P) /\ Below(WideEnds(attempts', c, now'), W)
    BY <1>0, <2>2, LocksFall, FailuresCome
  <2>4. /\ P \in SUBSET Nat /\ W \in SUBSET Nat
        /\ PairEnds(attempts', c, now') \in SUBSET Nat
        /\ WideEnds(attempts', c, now') \in SUBSET Nat
    BY <1>0, EndsHere, EndsThere
  <2>5. /\ req[x].pc = "paired" => Below(P, req[x].ends)
        /\ req[x].pc = "verifying" => \A e \in P \cup W : e <= req[x].at
    BY <2>1 DEF IInv, Checked
  <2>. HIDE DEF P, W
  <2>6. ASSUME req[x].pc = "paired"
        PROVE  Below(PairEnds(attempts', c, now'), req[x].ends)
    BY ONLY <2>3, <2>4, <2>5, <2>6, <1>0, BelowBelow
  <2>7. ASSUME req[x].pc = "verifying"
        PROVE  \A e \in PairEnds(attempts', c, now')
                          \cup WideEnds(attempts', c, now') : e <= req[x].at
    <3>1. \A e \in P : e <= req[x].at
      BY ONLY <2>5, <2>7
    <3>2. \A e \in W : e <= req[x].at
      BY ONLY <2>5, <2>7
    <3>3. req[x].at \in Nat
      BY ONLY <1>0
    <3>4. \A e \in PairEnds(attempts', c, now') : e <= req[x].at
      BY ONLY <2>3, <2>4, <3>1, <3>3, LimitBelow
    <3>5. \A e \in WideEnds(attempts', c, now') : e <= req[x].at
      BY ONLY <2>3, <2>4, <3>2, <3>3, LimitBelow
    <3>. QED  BY ONLY <3>4, <3>5
  <2>. QED  BY <2>1, <2>6, <2>7
<1>. QED  BY <1>0, <1>1, <1>2, <1>3, Moves

LEMMA IInvariant == Spec => []IInv
<1>1. IInv /\ [Next]_tvars => IInv'
  BY TypeStep, ToldStep, CheckedStep DEF IInv
<1>. QED  BY <1>1, IInvInit, PTL DEF Spec

-----------------------------------------------------------------------------
(* The promises.                                                            *)

\* Every variable stays in its domain.
THEOREM ThrottleTypes == Spec => []TypeOK
<1>1. IInv => TypeOK
  BY DEF IInv, TypeInv
<1>. QED  BY <1>1, IInvariant, PTL

LEMMA LocksAre ==
  \A c : Locks(c) = {e \in PairEnds(attempts, c, now) \cup WideEnds(attempts, c, now) : e > now}
  BY PairLockIs, WideLockIs DEF Locks, InForce

\* Whoever comes back when it was told to is not refused, unless its ip failed
\* meanwhile.
THEOREM RetryAfterHolds == Spec => []RetryAfterIsHonest
<1>1. ASSUME IInv, NEW c \in Callers, told[c] # 0, now >= told[c]
      PROVE  Locks(c) = {}
  <2>1. \A e \in PairEnds(attempts, c, now) \cup WideEnds(attempts, c, now) :
            e \in Nat /\ e <= told[c]
    BY <1>1, EndsHere DEF IInv, Told
  <2>2. now \in Nat /\ told[c] \in Nat
    BY <1>1 DEF IInv, TypeInv, TypeOK
  <2>. QED  BY <2>1, <2>2, <1>1, LocksAre
<1>2. IInv => RetryAfterIsHonest
  BY <1>1 DEF RetryAfterIsHonest
<1>. QED  BY <1>2, IInvariant, PTL

\* A password is verified against a lock only after another failure of its ip.
THEOREM TheCheckHolds == Spec => []OnlyOvertakenGuessesSlipThrough
<1>1. ASSUME IInv, NEW t \in Threads, req[t].pc = "verifying", req[t].undisturbed
      PROVE  Locks(req[t].caller) = {}
  <2>1. \A e \in PairEnds(attempts, req[t].caller, now)
                   \cup WideEnds(attempts, req[t].caller, now) : e \in Nat /\ e <= req[t].at
    BY <1>1, EndsHere DEF IInv, Checked
  <2>2. now \in Nat /\ req[t].at \in Nat /\ req[t].at <= now
    BY <1>1 DEF IInv, TypeInv, TypeOK, Timely, Login
  <2>. QED  BY <2>1, <2>2, LocksAre
<1>2. IInv => OnlyOvertakenGuessesSlipThrough
  BY <1>1 DEF OnlyOvertakenGuessesSlipThrough
<1>. QED  BY <1>2, IInvariant, PTL

\* Pruning starts no lock and ends none.
THEOREM PruningIsHarmless == Spec => PruneChangesNoLock
<1>1. ASSUME IInv, IInv', NEW t \in Threads, Prune(t), NEW c \in Callers
      PROVE  Locks(c)' = Locks(c)
  <2>1. /\ attempts' = [i \in {x \in InUse : Kept(attempts[x])} |-> attempts[i]]
        /\ now' = now
    BY <1>1 DEF Prune
  <2>2. \A i \in InUse : attempts[i].at >= Minus(now, Window) => Kept(attempts[i])
    BY <1>1, ThrottleAssumption DEF Kept, Minus, IInv, TypeInv, TypeOK, Attempt
  <2>3. \A A : Fails(attempts', c[2], A, Minus(now, Window))
                 = Fails(attempts, c[2], A, Minus(now, Window))
    BY <2>1, <2>2 DEF Fails, InUse
  <2>4. \A S : S \subseteq DOMAIN attempts' =>
            \A th : Ends(attempts', S, th) = Ends(attempts, S, th)
    <3>1. ASSUME NEW S, S \subseteq DOMAIN attempts'
          PROVE  {attempts'[i].at : i \in S} = {attempts[i].at : i \in S}
      BY <2>1, <3>1 DEF InUse
    <3>. QED  BY <3>1 DEF Ends
  <2>5. \A A : Fails(attempts', c[2], A, Minus(now, Window)) \subseteq DOMAIN attempts'
    BY DEF Fails
  <2>6. /\ PairEnds(attempts', c, now') = PairEnds(attempts, c, now)
        /\ WideEnds(attempts', c, now') = WideEnds(attempts, c, now)
    BY <2>1, <2>3, <2>4, <2>5 DEF PairEnds, WideEnds
  <2>7. Locks(c)' = {e \in PairEnds(attempts', c, now') \cup WideEnds(attempts', c, now') : e > now'}
    BY DEF Locks, InForce, PairLock, PairEnds, WideLock, WideEnds, LockFor, Ends, Rung,
       Failures, Fails, Counts, InUse
  <2>. QED  BY <2>1, <2>6, <2>7, LocksAre
<1>2. IInv /\ IInv' => (\A t \in Threads : Prune(t) => \A c \in Callers : Locks(c)' = Locks(c))
  BY <1>1
<1>. QED  BY <1>2, IInvariant, PTL DEF PruneChangesNoLock

-----------------------------------------------------------------------------
(* The form.  Its requests are logins like all others, so what holds of them *)
(* holds with it too.                                                        *)

\* The steps of the form are steps of the throttle, whatever the client makes of
\* the answers (sendWithSession): asking a second and a third time gets nobody
\* past a lock, though it brings the lock closer.
THEOREM TheFormIsALogin == FormSpec => Spec
<1>. DEFINE Form == [caller: Callers, sent: {"nothing", "first", "again", "third"},
                     answer: {"none", "ok", "wrong", "refused", "lost"},
                     mistyped: Nat, refused: BOOLEAN]
            FormOK == form \in Form
<1>1. FormInit => Init /\ FormOK
  <2>1. NoCaller \in Callers
    <3>1. PICK ip \in Ips : <<NoAddress, ip>> \in Callers
      BY ThrottleAssumption DEF Callers
    <3>. QED  BY <3>1 DEF NoCaller
  <2>. QED  BY <2>1 DEF FormInit
<1>2. FormOK /\ [FormNext]_fvars => [Next]_tvars /\ FormOK'
  <2>. SUFFICES ASSUME form \in Form, [FormNext]_fvars
                PROVE  [Next]_tvars /\ form' \in Form
    OBVIOUS
  <2>1. ASSUME NEW which \in {"first", "again", "third"}, NEW t \in Threads,
               NEW c \in Callers, Send(which, t, c)
        PROVE  Next /\ form' \in Form
    BY <2>1 DEF Send, Next
  <2>2. CASE \E t \in Threads, c \in Callers : Submit(t, c)
    BY <2>1, <2>2 DEF Submit
  <2>3. CASE \E t \in Threads : SendAgain(t) \/ SendThird(t)
    BY <2>1, <2>3 DEF SendAgain, SendThird
  <2>4. ASSUME NEW t \in Threads, Handled(t)
        PROVE  Next /\ form' \in Form
    <3>1. Step(t) \/ Crash(t)
      BY <2>4 DEF Handled, Step
    <3>2. \/ form' = form
          \/ \E a \in {"ok", "wrong", "refused", "lost"} : form' = [form EXCEPT !.answer = a]
      BY <2>4 DEF Handled
    <3>. QED  BY <3>1, <3>2 DEF Next
  <2>5. CASE ShowAnswer
    <3>1. UNCHANGED tvars /\ \E a : Shown(a)
      BY <2>5 DEF ShowAnswer, Shown
    <3>2. ASSUME NEW n \in Nat, NEW r \in BOOLEAN
          PROVE  [form EXCEPT !.sent = "nothing", !.mistyped = n, !.refused = r] \in Form
      OBVIOUS
    <3>3. form.mistyped + 1 \in Nat /\ form.refused \in BOOLEAN
      OBVIOUS
    <3>4. ASSUME NEW a, Shown(a) PROVE form' \in Form
      <4>1. form' = [form EXCEPT !.sent = "nothing",
                                 !.mistyped = IF a = "ok" THEN 0 ELSE form.mistyped + 1,
                                 !.refused = form.refused \/ a = "refused"]
        BY <3>4 DEF Shown
      <4>2. (IF a = "ok" THEN 0 ELSE form.mistyped + 1) \in Nat
            /\ (form.refused \/ a = "refused") \in BOOLEAN
        BY <3>3
      <4>. HIDE DEF Form
      <4>. QED  BY <3>2, <4>1, <4>2
    <3>. QED  BY <3>1, <3>4
  <2>6. CASE Tick /\ UNCHANGED form
    BY <2>6 DEF Next
  <2>7. CASE UNCHANGED fvars
    BY <2>7 DEF fvars
  <2>. QED  BY <2>2, <2>3, <2>4, <2>5, <2>6, <2>7 DEF FormNext
<1>. HIDE DEF FormOK
<1>. QED  BY <1>1, <1>2, PTL DEF FormSpec, Spec

=============================================================================
