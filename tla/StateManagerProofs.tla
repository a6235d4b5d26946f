-------------------------- MODULE StateManagerProofs --------------------------
(***************************************************************************)
(* Proofs about StateManager for any states, pops and numbers of requests  *)
(* between two updates.                                                    *)
(*                                                                         *)
(* applyPendingChanges is a loop: what it leaves behind is a function of   *)
(* the number of changes it has looked at.  That this function exists, and *)
(* what holds of every value of it, is shown by the least number for which *)
(* it would not.                                                           *)
(***************************************************************************)
EXTENDS StateManager, FiniteSetTheorems, SequenceTheorems, WellFoundedInduction, TLAPS

\* What holds of 0, and of n + 1 when it holds of n, holds up to any number.
LEMMA Ascent ==
  ASSUME NEW L \in Nat, NEW T, 0 \in T, \A n \in 0 .. L - 1 : n \in T => n + 1 \in T
  PROVE  0 .. L \subseteq T
<1> SUFFICES ASSUME ~(0 .. L \subseteq T) PROVE FALSE
  OBVIOUS
<1> DEFINE B == (0 .. L) \ T
<1>1. B \subseteq Nat /\ B # {}
  OBVIOUS
<1>2. \E x \in B : \A y \in B : ~(y < x)
  <2>1. \E x \in B : \A y \in B : ~(<<y, x>> \in OpToRel(<, Nat))
    BY <1>1, NatLessThanWellFounded, WFMin
  <2>2. \A x, y \in B : <<y, x>> \in OpToRel(<, Nat) <=> y < x
    BY <1>1 DEF OpToRel
  <2> QED BY <2>1, <2>2
<1>3. PICK x \in B : \A y \in B : ~(y < x)
  BY <1>2
<1>4. x \in 1 .. L /\ x \notin T
  BY <1>3
<1>5. x - 1 \in 0 .. L - 1 /\ x - 1 \in 0 .. L /\ x - 1 < x /\ (x - 1) + 1 = x
  BY <1>4
<1>6. x - 1 \in T
  BY <1>3, <1>5
<1> QED BY <1>4, <1>5, <1>6

\* A loop of L iterations over S from s0, the n-th of which does F[n].
LoopRuns(L, S, s0, F) ==
  \E f \in [0 .. L -> S] : f[0] = s0 /\ \A n \in 1 .. L : f[n] = F[n][f[n - 1]]

\* Such a loop is defined after each number of iterations.
LEMMA Iteration ==
  ASSUME NEW L \in Nat, NEW S, NEW s0 \in S, NEW F \in [1 .. L -> [S -> S]]
  PROVE  LoopRuns(L, S, s0, F)
<1> DEFINE Runs(n, f) == f[0] = s0 /\ \A k \in 1 .. n : f[k] = F[k][f[k - 1]]
           T == {n \in 0 .. L : \E f \in [0 .. n -> S] : Runs(n, f)}
<1>1. 0 \in T
  <2>1. [k \in 0 .. 0 |-> s0] \in [0 .. 0 -> S] /\ Runs(0, [k \in 0 .. 0 |-> s0])
    OBVIOUS
  <2>2. 0 \in 0 .. L
    OBVIOUS
  <2> HIDE DEF Runs
  <2> QED BY <2>1, <2>2
<1>2. ASSUME NEW n \in 0 .. L - 1, n \in T PROVE n + 1 \in T
  <2>1. PICK f \in [0 .. n -> S] : Runs(n, f)
    BY <1>2
  <2> DEFINE v == F[n + 1][f[n]]
             g == [k \in 0 .. n + 1 |-> IF k = n + 1 THEN v ELSE f[k]]
  <2>2. v \in S
    BY <1>2
  <2>3. g \in [0 .. n + 1 -> S]
    BY <2>2
  <2>4. g[0] = s0 /\ g[n + 1] = v /\ \A k \in 0 .. n : g[k] = f[k]
    BY <2>1
  <2>5. ASSUME NEW k \in 1 .. n + 1 PROVE g[k] = F[k][g[k - 1]]
    <3> HIDE DEF g
    <3>1. CASE k = n + 1
      BY <2>4, <3>1
    <3>2. CASE k # n + 1
      <4>1. k \in 1 .. n /\ k - 1 \in 0 .. n /\ k \in 0 .. n
        BY <3>2
      <4> QED BY <2>1, <2>4, <4>1
    <3> QED BY <3>1, <3>2
  <2> HIDE DEF g
  <2>6. Runs(n + 1, g)
    BY <2>4, <2>5
  <2> QED BY <2>3, <2>6
<1>3. L \in T
  <2> HIDE DEF T
  <2>1. 0 .. L \subseteq T
    BY <1>1, <1>2, Ascent
  <2>2. L \in 0 .. L
    OBVIOUS
  <2> QED BY <2>1, <2>2
<1> QED BY <1>3 DEF LoopRuns

-------------------------------------------------------------------------------

\* All but the last element.
LEMMA FrontOf ==
  ASSUME NEW S, NEW s \in Seq(S)
  PROVE  /\ Front(s) \in Seq(S)
         /\ s # <<>> => /\ Len(s) \in Nat \ {0} /\ Len(Front(s)) = Len(s) - 1
                        /\ \A i \in 1 .. Len(s) - 1 : Front(s)[i] = s[i]
                        /\ \A i \in 1 .. Len(s) : s[i] \in S
                        /\ TopOf(s) = s[Len(s)] /\ TopOf(s) \in S
<1>1. Len(s) \in Nat /\ \A i \in 1 .. Len(s) : s[i] \in S
  BY LenProperties, ElementOfSeq
<1> DEFINE k == Len(s) - 1
<1>2. Front(s) = SubSeq(s, 1, k) /\ TopOf(s) = s[Len(s)]
  BY DEF Front, TopOf
<1>3. 1 \in Int /\ k \in Int /\ \A i \in 1 .. k : s[i] \in S
  BY <1>1
<1> HIDE DEF k
<1>4. /\ SubSeq(s, 1, k) \in Seq(S)
      /\ Len(SubSeq(s, 1, k)) = IF 1 <= k THEN k - 1 + 1 ELSE 0
      /\ \A i \in 1 .. k - 1 + 1 : SubSeq(s, 1, k)[i] = s[1 + i - 1]
  BY <1>3, SubSeqProperties
<1>5. ASSUME s # <<>>
      PROVE  /\ Len(s) \in Nat \ {0} /\ Len(Front(s)) = k /\ TopOf(s) \in S
             /\ \A i \in 1 .. k : Front(s)[i] = s[i]
  <2>1. Len(s) \in Nat \ {0} /\ k \in Nat /\ Len(s) \in 1 .. Len(s)
    BY <1>1, <1>5, EmptySeq DEF k
  <2>2. (~(1 <= k) => k = 0) /\ k - 1 + 1 = k /\ \A i \in 1 .. k : 1 + i - 1 = i
    BY <2>1
  <2>3. Len(SubSeq(s, 1, k)) = k /\ \A i \in 1 .. k : SubSeq(s, 1, k)[i] = s[i]
    BY <1>4, <2>2, Zenon
  <2>4. TopOf(s) \in S
    BY <1>1, <1>2, <2>1
  <2> QED BY <1>2, <2>1, <2>3, <2>4, Zenon
<1> QED BY <1>1, <1>2, <1>4, <1>5, Zenon DEF k

\* One change keeps the stack a sequence of states.
LEMMA SettleType ==
  ASSUME NEW s \in Seq(States), NEW change \in Changes
  PROVE  Settle(s, change) \in Seq(States)
<1>1. Front(s) \in Seq(States)
  BY FrontOf
<1>2. change.state \in States
  BY DEF Changes
<1>3. Append(s, change.state) \in Seq(States) /\ <<change.state>> \in Seq(States)
  BY <1>2
<1> QED BY <1>1, <1>3, Zenon DEF Settle

\* The specified effect of a number of changes exists and grows by one change at a time.
LEMMA SettledSteps ==
  ASSUME NEW s \in Seq(States), NEW cs \in Seq(Changes)
  PROVE  /\ Settled(s, cs) \in [0 .. Len(cs) -> Seq(States)]
         /\ Settled(s, cs)[0] = s
         /\ \A n \in 1 .. Len(cs) : Settled(s, cs)[n] = Settle(Settled(s, cs)[n - 1], cs[n])
<1> DEFINE L == Len(cs)
           S == Seq(States)
           F == [n \in 1 .. L |-> [x \in S |-> Settle(x, cs[n])]]
           After(f) == [n \in 0 .. L |-> IF n = 0 THEN s ELSE Settle(f[n - 1], cs[n])]
<1>1. L \in Nat /\ \A n \in 1 .. L : cs[n] \in Changes
  BY LenProperties, ElementOfSeq
<1>2. F \in [1 .. L -> [S -> S]]
  BY <1>1, SettleType
<1>3. PICK f \in [0 .. L -> S] : f[0] = s /\ \A n \in 1 .. L : f[n] = F[n][f[n - 1]]
  <2>1. s \in S
    OBVIOUS
  <2>2. L \in Nat
    BY <1>1
  <2> HIDE DEF F, L, S
  <2>3. LoopRuns(L, S, s, F)
    BY <1>2, <2>1, <2>2, Iteration
  <2> QED BY <2>3 DEF LoopRuns
<1>4. \A n \in 1 .. L : n \in 0 .. L /\ n - 1 \in 0 .. L /\ n # 0
  BY <1>1
<1>5. \A n \in 1 .. L : f[n] = Settle(f[n - 1], cs[n])
  BY <1>3, <1>4
<1>6. f = After(f)
  <2>1. \A n \in 0 .. L : n = 0 \/ n \in 1 .. L
    BY <1>1
  <2>2. \A n \in 0 .. L : f[n] = After(f)[n]
    BY <1>3, <1>5, <2>1
  <2> QED BY <1>3, <2>2
<1>7. Settled(s, cs) = After(Settled(s, cs))
  BY <1>6 DEF Settled
<1> DEFINE g == Settled(s, cs)
<1> HIDE DEF g
<1>8. 0 \in 0 .. L /\ g[0] = s /\ DOMAIN g = 0 .. L
      /\ \A n \in 1 .. L : g[n] = Settle(g[n - 1], cs[n])
  BY <1>1, <1>4, <1>7 DEF g
<1>9. 0 .. L \subseteq {n \in 0 .. L : g[n] \in S}
  <2> DEFINE T == {n \in 0 .. L : g[n] \in S}
  <2>1. 0 \in T
    BY <1>8
  <2>2. ASSUME NEW n \in 0 .. L - 1, n \in T PROVE n + 1 \in T
    <3>1. n + 1 \in 1 .. L /\ n + 1 \in 0 .. L /\ (n + 1) - 1 = n
      BY <1>1
    <3>2. g[n + 1] = Settle(g[n], cs[n + 1])
      BY <1>8, <3>1
    <3> QED BY <1>1, <2>2, <3>1, <3>2, SettleType
  <2> HIDE DEF T
  <2> QED BY <1>1, <2>1, <2>2, Ascent DEF T
<1>10. g \in [0 .. L -> S]
  BY <1>7, <1>8, <1>9 DEF g
<1> QED BY <1>8, <1>10 DEF g

-------------------------------------------------------------------------------

\* What the loop of applyPendingChanges works on.
Machines == [stack : Seq(States), mounted : SUBSET States, left : Seq(Changes),
             refused : BOOLEAN]

\* The four ways a change can go (StateManager.cpp:89-111).
LEMMA ApplyCases ==
  ASSUME NEW m \in Machines, NEW change \in Changes
  PROVE  LET r == Apply(m, change) IN
    /\ r \in Machines
    /\ m.refused =>
         /\ r.stack = m.stack /\ r.mounted = m.mounted /\ r.refused
         /\ r.left = Append(m.left, change)
    /\ ~m.refused => r.left = m.left
    /\ ~m.refused /\ change.kind = "Push" =>
         /\ r.stack = Append(m.stack, change.state) /\ ~r.refused
         /\ r.mounted = m.mounted \cup {change.state}
    /\ ~m.refused /\ change.kind = "ResetTo" =>
         /\ r.stack = <<change.state>> /\ ~r.refused
         /\ r.mounted = (m.mounted \cup {change.state}) \ Elements(m.stack)
    /\ ~m.refused /\ change.kind = "Pop" /\ Len(m.stack) = 1 =>
         r.stack = m.stack /\ r.mounted = m.mounted /\ r.refused
    /\ ~m.refused /\ change.kind = "Pop" /\ Len(m.stack) # 1 =>
         /\ r.stack = Front(m.stack) /\ ~r.refused
         /\ (m.stack # <<>> => r.mounted = m.mounted \ {TopOf(m.stack)})
<1>1. /\ m.stack \in Seq(States) /\ m.mounted \subseteq States /\ m.left \in Seq(Changes)
      /\ m.refused \in BOOLEAN
      /\ m = [stack |-> m.stack, mounted |-> m.mounted, left |-> m.left, refused |-> m.refused]
  BY DEF Machines
<1>2. change.state \in States /\ change.kind \in {"Push", "ResetTo", "Pop"}
  BY DEF Changes
<1>3. Front(m.stack) \in Seq(States)
  BY <1>1, FrontOf
<1>4. Append(m.left, change) \in Seq(Changes) /\ Append(m.stack, change.state) \in Seq(States)
      /\ <<change.state>> \in Seq(States)
  BY <1>1, <1>2
<1>5. CASE m.refused
  <2>1. Apply(m, change) = [m EXCEPT !.left = Append(@, change)]
    BY <1>5 DEF Apply
  <2> QED BY <1>1, <1>4, <1>5, <2>1 DEF Machines
<1>6. CASE ~m.refused /\ change.kind = "Push"
  <2>1. Apply(m, change) = ApplyPush(m, change)
    BY <1>6 DEF Apply
  <2>2. Apply(m, change) = [stack |-> Append(m.stack, change.state), mounted |-> m.mounted \cup {change.state},
                           left |-> m.left, refused |-> m.refused]
    BY <1>1, <2>1 DEF ApplyPush
  <2>3. m.mounted \cup {change.state} \subseteq States
    BY <1>1, <1>2
  <2>4. Apply(m, change) \in Machines
    BY <1>1, <1>3, <1>4, <2>2, <2>3 DEF Machines
  <2> QED BY <1>6, <2>2, <2>4
<1>7. CASE ~m.refused /\ change.kind = "ResetTo"
  <2>1. Apply(m, change) = ApplyReset(m, change)
    BY <1>7 DEF Apply
  <2>2. Apply(m, change) = [stack |-> <<change.state>>, mounted |-> (m.mounted \cup {change.state}) \ Elements(m.stack),
                           left |-> m.left, refused |-> m.refused]
    BY <1>1, <2>1 DEF ApplyReset
  <2>3. (m.mounted \cup {change.state}) \ Elements(m.stack) \subseteq States
    BY <1>1, <1>2
  <2>4. Apply(m, change) \in Machines
    BY <1>1, <1>3, <1>4, <2>2, <2>3 DEF Machines
  <2> QED BY <1>7, <2>2, <2>4
<1>8. CASE ~m.refused /\ change.kind = "Pop" /\ Len(m.stack) = 1
  <2>1. Apply(m, change) = [m EXCEPT !.refused = TRUE]
    BY <1>8 DEF Apply
  <2> QED BY <1>1, <1>8, <2>1 DEF Machines
<1>9. CASE ~m.refused /\ change.kind = "Pop" /\ Len(m.stack) # 1
  <2>1. Apply(m, change) = ApplyPop(m)
    BY <1>9 DEF Apply
  <2>2. Apply(m, change) = [stack |-> Front(m.stack), mounted |-> m.mounted \ {TopOf(m.stack)},
                           left |-> m.left, refused |-> m.refused]
    BY <1>1, <2>1 DEF ApplyPop
  <2>3. m.mounted \ {TopOf(m.stack)} \subseteq States
    BY <1>1, <1>2
  <2>4. Apply(m, change) \in Machines
    BY <1>1, <1>3, <1>4, <2>2, <2>3 DEF Machines
  <2> QED BY <1>9, <2>2, <2>4
<1> QED BY <1>1, <1>2, <1>5, <1>6, <1>7, <1>8, <1>9

\* The effect of the loop exists and grows by one change at a time.
LEMMA AppliedSteps ==
  ASSUME NEW m \in Machines, NEW cs \in Seq(Changes)
  PROVE  /\ Applied(m, cs) \in [0 .. Len(cs) -> Machines]
         /\ Applied(m, cs)[0] = m
         /\ \A n \in 1 .. Len(cs) : Applied(m, cs)[n] = Apply(Applied(m, cs)[n - 1], cs[n])
<1> DEFINE L == Len(cs)
           S == Machines
           F == [n \in 1 .. L |-> [x \in S |-> Apply(x, cs[n])]]
           After(f) == [n \in 0 .. L |-> IF n = 0 THEN m ELSE Apply(f[n - 1], cs[n])]
<1>1. L \in Nat /\ \A n \in 1 .. L : cs[n] \in Changes
  BY LenProperties, ElementOfSeq
<1>2. F \in [1 .. L -> [S -> S]]
  BY <1>1, ApplyCases
<1>3. PICK f \in [0 .. L -> S] : f[0] = m /\ \A n \in 1 .. L : f[n] = F[n][f[n - 1]]
  <2>1. m \in S
    OBVIOUS
  <2>2. L \in Nat
    BY <1>1
  <2> HIDE DEF F, L, S
  <2>3. LoopRuns(L, S, m, F)
    BY <1>2, <2>1, <2>2, Iteration
  <2> QED BY <2>3 DEF LoopRuns
<1>4. \A n \in 1 .. L : n \in 0 .. L /\ n - 1 \in 0 .. L /\ n # 0
  BY <1>1
<1>5. \A n \in 1 .. L : f[n] = Apply(f[n - 1], cs[n])
  BY <1>3, <1>4
<1>6. f = After(f)
  <2>1. \A n \in 0 .. L : n = 0 \/ n \in 1 .. L
    BY <1>1
  <2>2. \A n \in 0 .. L : f[n] = After(f)[n]
    BY <1>3, <1>5, <2>1
  <2> QED BY <1>3, <2>2
<1>7. Applied(m, cs) = After(Applied(m, cs))
  BY <1>6 DEF Applied
<1> DEFINE g == Applied(m, cs)
<1> HIDE DEF g
<1>8. 0 \in 0 .. L /\ g[0] = m /\ DOMAIN g = 0 .. L
      /\ \A n \in 1 .. L : g[n] = Apply(g[n - 1], cs[n])
  BY <1>1, <1>4, <1>7 DEF g
<1>9. 0 .. L \subseteq {n \in 0 .. L : g[n] \in S}
  <2> DEFINE T == {n \in 0 .. L : g[n] \in S}
  <2>1. 0 \in T
    BY <1>8
  <2>2. ASSUME NEW n \in 0 .. L - 1, n \in T PROVE n + 1 \in T
    <3>1. n + 1 \in 1 .. L /\ n + 1 \in 0 .. L /\ (n + 1) - 1 = n
      BY <1>1
    <3>2. g[n + 1] = Apply(g[n], cs[n + 1])
      BY <1>8, <3>1
    <3> QED BY <1>1, <2>2, <3>1, <3>2, ApplyCases
  <2> HIDE DEF T
  <2> QED BY <1>1, <2>1, <2>2, Ascent DEF T
<1>10. g \in [0 .. L -> S]
  BY <1>7, <1>8, <1>9 DEF g
<1> QED BY <1>8, <1>10 DEF g

-------------------------------------------------------------------------------

\* The changes of one stack are the same wherever one starts to count them.
LEMMA SettledFrom ==
  ASSUME NEW s \in Seq(States), NEW cs \in Seq(Changes), NEW ds \in Seq(Changes),
         NEW p \in 0 .. Len(cs), p + Len(ds) <= Len(cs),
         \A i \in 1 .. Len(ds) : ds[i] = cs[p + i]
  PROVE  \A n \in 0 .. Len(ds) : Settled(Settled(s, cs)[p], ds)[n] = Settled(s, cs)[p + n]
<1> DEFINE g == Settled(s, cs)
           h == Settled(g[p], ds)
           L == Len(cs)
           M == Len(ds)
           T == {n \in 0 .. M : h[n] = g[p + n]}
<1>1. L \in Nat /\ M \in Nat /\ p \in 0 .. L /\ p + M <= L
  BY LenProperties
<1>2. g \in [0 .. L -> Seq(States)] /\ \A n \in 1 .. L : g[n] = Settle(g[n - 1], cs[n])
  BY SettledSteps
<1>3. g[p] \in Seq(States)
  BY <1>1, <1>2
<1>4. h[0] = g[p] /\ \A n \in 1 .. M : h[n] = Settle(h[n - 1], ds[n])
  BY <1>3, SettledSteps
<1>5. \A i \in 1 .. M : ds[i] = cs[p + i]
  OBVIOUS
<1> HIDE DEF g, h, L, M
<1>6. 0 \in T
  BY <1>1, <1>4
<1>7. ASSUME NEW n \in 0 .. M - 1, n \in T PROVE n + 1 \in T
  <2>1. /\ n + 1 \in 1 .. M /\ n + 1 \in 0 .. M /\ (n + 1) - 1 = n
        /\ p + (n + 1) \in 1 .. L /\ (p + (n + 1)) - 1 = p + n
    BY <1>1
  <2>2. h[n + 1] = Settle(h[n], ds[n + 1])
    BY <1>4, <2>1
  <2>3. g[p + (n + 1)] = Settle(g[p + n], cs[p + (n + 1)])
    BY <1>2, <2>1
  <2>4. ds[n + 1] = cs[p + (n + 1)] /\ h[n] = g[p + n]
    BY <1>5, <1>7, <2>1
  <2>5. h[n + 1] = g[p + (n + 1)]
    BY <2>2, <2>3, <2>4, Zenon
  <2> QED BY <2>1, <2>5
<1>8. 0 .. M \subseteq T
  <2> HIDE DEF T
  <2> QED BY <1>1, <1>6, <1>7, Ascent
<1>9. \A n \in 0 .. M : h[n] = g[p + n]
  BY <1>8
<1> QED BY <1>9 DEF g, h, M

\* One more request, and the stack that is due changes by this one.
LEMMA OneMoreChange ==
  ASSUME NEW s \in Seq(States), NEW cs \in Seq(Changes), NEW change \in Changes
  PROVE  Settled(s, Append(cs, change))[Len(Append(cs, change))]
           = Settle(Settled(s, cs)[Len(cs)], change)
<1> DEFINE L == Len(cs)
           ds == Append(cs, change)
<1>1. L \in Nat /\ ds \in Seq(Changes) /\ Len(ds) = L + 1 /\ ds[L + 1] = change
      /\ \A i \in 1 .. L : ds[i] = cs[i]
  BY LenProperties, AppendProperties
<1> HIDE DEF ds
<1>2. 0 \in 0 .. Len(ds) /\ 0 + L <= Len(ds) /\ \A i \in 1 .. L : cs[i] = ds[0 + i]
  BY <1>1
<1>3. Settled(s, ds)[0] = s
  BY <1>1, SettledSteps
<1>4. \A n \in 0 .. L : Settled(s, cs)[n] = Settled(s, ds)[0 + n]
  <2>1. \A n \in 0 .. L : Settled(Settled(s, ds)[0], cs)[n] = Settled(s, ds)[0 + n]
    BY <1>1, <1>2, SettledFrom
  <2> QED BY <1>3, <2>1
<1>5. L \in 0 .. L /\ 0 + L = L /\ L + 1 \in 1 .. Len(ds) /\ (L + 1) - 1 = L
  BY <1>1
<1>6. Settled(s, ds)[L + 1] = Settle(Settled(s, ds)[L], ds[L + 1])
  <2>1. \A n \in 1 .. Len(ds) : Settled(s, ds)[n] = Settle(Settled(s, ds)[n - 1], ds[n])
    BY <1>1, SettledSteps
  <2> HIDE DEF L
  <2> QED BY <1>5, <2>1
<1>7. Settled(s, cs)[L] = Settled(s, ds)[L]
  BY <1>4, <1>5
<1> QED BY <1>1, <1>6, <1>7 DEF ds

-------------------------------------------------------------------------------
(* Why the GUI follows the stack.  A state is given to the manager once, so *)
(* the stack and the changes never hold it twice: removing the widget of a *)
(* popped state removes no other one's.                                    *)

Distinct(s) == \A i, j \in DOMAIN s : s[i] = s[j] => i = j

\* The changes that bring a state of their own.
Brings(change) == change.kind # "Pop"

\* The states of the changes are neither on the stack nor brought twice.
FreshChanges(s, cs) ==
  /\ s # <<>> /\ Distinct(s)
  /\ \A k \in DOMAIN cs : Brings(cs[k]) =>
       /\ cs[k].state \notin Elements(s)
       /\ \A j \in DOMAIN cs : Brings(cs[j]) /\ cs[j].state = cs[k].state => j = k

\* The states on the stack were there before, or came with one of the first p changes.
FromStackOr(s, cs, p, after) ==
  \A x \in Elements(after) :
    x \in Elements(s) \/ \E k \in DOMAIN cs : k <= p /\ Brings(cs[k]) /\ cs[k].state = x

\* The loop over the changes cs of a stack s, after n of them.
Halfway(s, cs, n, m) ==
  /\ Len(m.left) <= n
  /\ ~m.refused => m.left = <<>>
  /\ \A i \in DOMAIN m.left : m.left[i] = cs[(n - Len(m.left)) + i]
  /\ m.stack = Settled(s, cs)[n - Len(m.left)]
  /\ m.stack # <<>> /\ Distinct(m.stack)
  /\ m.mounted = Elements(m.stack)
  /\ FromStackOr(s, cs, n - Len(m.left), m.stack)

\* A state has not been given away while it is unused.
UnusedAreNowhere ==
  /\ unused \cap Elements(stack) = {}
  /\ \A k \in DOMAIN changes : Brings(changes[k]) => changes[k].state \notin unused

StackInv ==
  /\ TypeOK
  /\ FreshChanges(stack, changes)
  /\ UnusedAreNowhere
  /\ IsFiniteSet(States \ unused)
  /\ ScreenIsStack
  /\ HandlerOwnerLives

\* A push, a pop and a reset keep a stack of distinct states, with one more or one less.
LEMMA PushedStack ==
  ASSUME NEW S, NEW s \in Seq(S), NEW x \in S
  PROVE  /\ Append(s, x) # <<>> /\ Elements(Append(s, x)) = Elements(s) \cup {x}
         /\ Distinct(s) /\ x \notin Elements(s) => Distinct(Append(s, x))
<1> DEFINE t == Append(s, x)
           L == Len(s)
<1>1. L \in Nat /\ DOMAIN s = 1 .. L
  BY LenProperties
<1>2. /\ t \in Seq(S) /\ Len(t) = L + 1 /\ DOMAIN t = 1 .. L + 1 /\ t[L + 1] = x
      /\ \A i \in 1 .. L : t[i] = s[i]
  BY AppendProperties, LenProperties
<1> HIDE DEF t, L
<1>3. t # <<>>
  BY <1>1, <1>2, EmptySeq
<1>4. \A i \in 1 .. L + 1 : i \in 1 .. L \/ i = L + 1
  BY <1>1
<1>5. L + 1 \in 1 .. L + 1 /\ \A i \in 1 .. L : i \in 1 .. L + 1
  BY <1>1
<1>6. Elements(t) = Elements(s) \cup {x}
  BY <1>1, <1>2, <1>4, <1>5, Zenon DEF Elements
<1>7. ASSUME Distinct(s), x \notin Elements(s) PROVE Distinct(t)
  <2> SUFFICES ASSUME NEW i \in 1 .. L + 1, NEW j \in 1 .. L + 1, t[i] = t[j] PROVE i = j
    BY <1>2 DEF Distinct
  <2>1. \A k \in 1 .. L : s[k] # x
    BY <1>1, <1>7 DEF Elements
  <2> QED BY <1>1, <1>2, <1>4, <1>7, <2>1 DEF Distinct
<1> QED BY <1>3, <1>6, <1>7 DEF t

LEMMA PoppedStack ==
  ASSUME NEW S, NEW s \in Seq(S), s # <<>>, Distinct(s)
  PROVE  /\ Distinct(Front(s)) /\ Elements(Front(s)) = Elements(s) \ {TopOf(s)}
         /\ TopOf(s) \in Elements(s)
         /\ Len(s) # 1 => Front(s) # <<>>
<1> DEFINE t == Front(s)
           L == Len(s)
<1>1. L \in Nat \ {0} /\ DOMAIN s = 1 .. L
  BY FrontOf, LenProperties
<1>2. /\ t \in Seq(S) /\ Len(t) = L - 1 /\ DOMAIN t = 1 .. L - 1 /\ TopOf(s) = s[L]
      /\ \A i \in 1 .. L - 1 : t[i] = s[i]
  BY FrontOf, LenProperties
<1> HIDE DEF t, L
<1>3. L # 1 => t # <<>>
  BY <1>1, <1>2, EmptySeq
<1>4. /\ \A i \in 1 .. L : (i \in 1 .. L - 1 \/ i = L) /\ ~(i \in 1 .. L - 1 /\ i = L)
      /\ \A i \in 1 .. L - 1 : i \in 1 .. L
      /\ L \in 1 .. L
  BY <1>1
<1>5. Distinct(t)
  BY <1>1, <1>2, <1>4 DEF Distinct
<1>6. \A i \in 1 .. L - 1 : s[i] # s[L]
  BY <1>1, <1>4 DEF Distinct
<1>7. Elements(t) = Elements(s) \ {s[L]}
  BY <1>1, <1>2, <1>4, <1>6, Zenon DEF Elements
<1>8. s[L] \in Elements(s)
  BY <1>1, <1>4 DEF Elements
<1> QED BY <1>2, <1>3, <1>5, <1>7, <1>8 DEF t, L

LEMMA ResetStack ==
  ASSUME NEW x
  PROVE  <<x>> # <<>> /\ Elements(<<x>>) = {x} /\ Distinct(<<x>>)
<1>1. DOMAIN <<x>> = {1} /\ <<x>>[1] = x
  OBVIOUS
<1>2. <<x>> # <<>>
  OBVIOUS
<1>3. Elements(<<x>>) = {x}
  BY <1>1, Zenon DEF Elements
<1> QED BY <1>1, <1>2, <1>3 DEF Distinct

\* Each turn of the loop leaves it half-way, one change further.
LEMMA HalfwayStep ==
  ASSUME NEW s \in Seq(States), NEW cs \in Seq(Changes), FreshChanges(s, cs),
         NEW n \in 0 .. Len(cs) - 1, NEW m \in Machines, Halfway(s, cs, n, m)
  PROVE  Halfway(s, cs, n + 1, Apply(m, cs[n + 1]))
<1> DEFINE L == Len(cs)
           c == cs[n + 1]
           r == Apply(m, c)
           g == Settled(s, cs)
           p == n - Len(m.left)
<1>1. /\ L \in Nat /\ n \in Nat /\ n + 1 \in 1 .. L /\ (n + 1) - 1 = n
      /\ DOMAIN cs = 1 .. L /\ c \in Changes
  BY LenProperties, ElementOfSeq
<1>2. /\ m.stack \in Seq(States) /\ m.left \in Seq(Changes) /\ Len(m.left) \in Nat
      /\ m.refused \in BOOLEAN /\ DOMAIN m.left = 1 .. Len(m.left)
  BY LenProperties DEF Machines
<1>3. p \in Nat /\ p <= n
  BY <1>1, <1>2 DEF Halfway
<1>4. g[n + 1] = Settle(g[n], c)
  <2>1. \A k \in 1 .. L : g[k] = Settle(g[k - 1], cs[k])
    BY SettledSteps
  <2> HIDE DEF g, c, L
  <2>2. g[n + 1] = Settle(g[n], cs[n + 1])
    BY <1>1, <2>1
  <2> QED BY <2>2 DEF c
<1>5. CASE m.refused
  <2>1. /\ r.stack = m.stack /\ r.mounted = m.mounted /\ r.refused
        /\ r.left = Append(m.left, c)
    BY <1>1, <1>5, ApplyCases
  <2>2. /\ Len(r.left) = Len(m.left) + 1 /\ DOMAIN r.left = 1 .. Len(m.left) + 1
        /\ r.left[Len(m.left) + 1] = c
        /\ \A i \in 1 .. Len(m.left) : r.left[i] = m.left[i]
    <3> DEFINE l == m.left
    <3>1. /\ Append(l, c) \in Seq(Changes) /\ Len(Append(l, c)) = Len(l) + 1
          /\ \A i \in 1 .. Len(l) : Append(l, c)[i] = l[i]
          /\ Append(l, c)[Len(l) + 1] = c
      <4> HIDE DEF l, c
      <4> QED BY <1>1, <1>2, AppendProperties DEF l
    <3>2. DOMAIN Append(l, c) = 1 .. Len(Append(l, c))
      <4> HIDE DEF l, c
      <4> QED BY <3>1, LenProperties
    <3> QED BY <2>1, <3>1, <3>2, Zenon
  <2>3. /\ (n + 1) - Len(r.left) = p /\ Len(r.left) <= n + 1
    BY <1>1, <1>2, <1>3, <2>2
  <2>4. ASSUME NEW i \in 1 .. Len(m.left) + 1 PROVE r.left[i] = cs[p + i]
    <3>1. CASE i = Len(m.left) + 1
      <4>1. \A a, b \in Nat : (a - b) + (b + 1) = a + 1
        OBVIOUS
      <4>2. p + i = n + 1
        <5> HIDE DEF r, c, g, L
        <5> QED BY <1>1, <1>2, <3>1, <4>1
      <4> QED BY <2>2, <3>1, <4>2
    <3>2. CASE i # Len(m.left) + 1
      <4>1. i \in 1 .. Len(m.left)
        BY <1>2, <3>2
      <4>2. m.left[i] = cs[p + i]
        BY <1>2, <4>1 DEF Halfway
      <4> QED BY <2>2, <4>1, <4>2
    <3> QED BY <3>1, <3>2
  <2> HIDE DEF r, p, g
  <2>5. /\ m.stack = g[p] /\ m.stack # <<>> /\ Distinct(m.stack)
        /\ m.mounted = Elements(m.stack) /\ FromStackOr(s, cs, p, m.stack)
    BY DEF Halfway, p, g
  <2>6. Halfway(s, cs, n + 1, r)
    BY <2>1, <2>2, <2>3, <2>4, <2>5, Zenon DEF Halfway, g
  <2> QED BY <2>6 DEF r
<1>6. CASE ~m.refused
  <2>1. m.left = <<>> /\ Len(m.left) = 0 /\ p = n
    BY <1>1, <1>2, <1>6, EmptySeq DEF Halfway
  <2>2. r.left = <<>> /\ Len(r.left) = 0 /\ DOMAIN r.left = {}
    <3>1. r.left = m.left
      BY <1>1, <1>6, ApplyCases
    <3> QED BY <2>1, <3>1
  <2>3. /\ m.stack = g[n] /\ m.stack # <<>> /\ Distinct(m.stack)
        /\ m.mounted = Elements(m.stack) /\ FromStackOr(s, cs, n, m.stack)
    BY <2>1 DEF Halfway
  <2>4. ASSUME Brings(c) PROVE c.state \notin Elements(m.stack)
    <3>1. /\ c.state \notin Elements(s)
          /\ \A j \in DOMAIN cs : Brings(cs[j]) /\ cs[j].state = c.state => j = n + 1
      BY <1>1, <2>4 DEF FreshChanges
    <3>2. \A j \in DOMAIN cs : j <= n => j # n + 1
      BY <1>1
    <3> QED BY <2>3, <3>1, <3>2 DEF FromStackOr
  <2>5. \A k \in DOMAIN cs : k <= n => k <= n + 1
    BY <1>1
  <2>6. /\ r.stack = Settle(m.stack, c) /\ r.stack # <<>> /\ Distinct(r.stack)
        /\ r.mounted = Elements(r.stack)
        /\ \A x \in Elements(r.stack) : x \in Elements(m.stack) \/ (Brings(c) /\ x = c.state)
    <3>1. CASE c.kind = "Push"
      <4>1. /\ r.stack = Append(m.stack, c.state) /\ r.mounted = m.mounted \cup {c.state}
        BY <1>1, <1>6, <3>1, ApplyCases
      <4>2. Brings(c) /\ c.state \in States /\ Settle(m.stack, c) = Append(m.stack, c.state)
        BY <1>1, <3>1 DEF Brings, Settle, Changes
      <4> HIDE DEF r, c
      <4>3. /\ r.stack # <<>> /\ Elements(r.stack) = Elements(m.stack) \cup {c.state}
            /\ Distinct(r.stack)
        BY <1>2, <2>3, <2>4, <4>1, <4>2, PushedStack, SMTT(40)
      <4> QED BY <2>3, <4>1, <4>2, <4>3
    <3>2. CASE c.kind = "ResetTo"
      <4>1. /\ r.stack = <<c.state>>
            /\ r.mounted = (m.mounted \cup {c.state}) \ Elements(m.stack)
        BY <1>1, <1>6, <3>2, ApplyCases
      <4>2. Brings(c) /\ c.state \in States /\ Settle(m.stack, c) = <<c.state>>
        BY <1>1, <3>2 DEF Brings, Settle, Changes
      <4> HIDE DEF r, c
      <4>3. r.stack # <<>> /\ Elements(r.stack) = {c.state} /\ Distinct(r.stack)
        BY <4>1, ResetStack
      <4> QED BY <2>3, <2>4, <4>1, <4>2, <4>3
    <3>3. CASE c.kind = "Pop" /\ Len(m.stack) = 1
      <4>1. r.stack = m.stack /\ r.mounted = m.mounted
        BY <1>1, <1>6, <3>3, ApplyCases
      <4>2. Settle(m.stack, c) = m.stack
        BY <3>3 DEF Settle
      <4> HIDE DEF r, c
      <4> QED BY <2>3, <4>1, <4>2
    <3>4. CASE c.kind = "Pop" /\ Len(m.stack) # 1
      <4>1. r.stack = Front(m.stack) /\ r.mounted = m.mounted \ {TopOf(m.stack)}
        BY <1>1, <1>6, <2>3, <3>4, ApplyCases
      <4>2. Settle(m.stack, c) = Front(m.stack)
        BY <3>4 DEF Settle
      <4> HIDE DEF r, c
      <4>3. /\ r.stack # <<>> /\ Distinct(r.stack)
            /\ Elements(r.stack) = Elements(m.stack) \ {TopOf(m.stack)}
        BY <1>2, <2>3, <3>4, <4>1, PoppedStack
      <4> QED BY <2>3, <4>1, <4>2, <4>3
    <3> QED BY <1>1, <3>1, <3>2, <3>3, <3>4 DEF Changes
  <2>7. r.stack = g[(n + 1) - Len(r.left)] /\ (n + 1) - Len(r.left) = n + 1 /\ Len(r.left) <= n + 1
    <3>1. (n + 1) - 0 = n + 1 /\ 0 <= n + 1
      BY <1>1
    <3> HIDE DEF r, c, g, p
    <3> QED BY <1>4, <2>2, <2>3, <2>6, <3>1
  <2>8. FromStackOr(s, cs, n + 1, r.stack)
    <3> SUFFICES ASSUME NEW x \in Elements(r.stack), x \notin Elements(s)
                 PROVE  \E k \in DOMAIN cs : k <= n + 1 /\ Brings(cs[k]) /\ cs[k].state = x
      BY DEF FromStackOr
    <3> HIDE DEF r
    <3>1. CASE x \in Elements(m.stack)
      BY <2>3, <2>5, <3>1 DEF FromStackOr
    <3>2. CASE Brings(c) /\ x = c.state
      BY <1>1, <3>2
    <3> QED BY <2>6, <3>1, <3>2
  <2> HIDE DEF r, g
  <2>9. Halfway(s, cs, n + 1, r)
    BY <2>2, <2>6, <2>7, <2>8 DEF Halfway, g
  <2> QED BY <2>9 DEF r
<1> QED BY <1>2, <1>5, <1>6

\* The whole loop, started with no change left and none refused.
LEMMA LoopEnds ==
  ASSUME NEW s \in Seq(States), NEW cs \in Seq(Changes), FreshChanges(s, cs),
         NEW m \in Machines, m.stack = s, m.mounted = Elements(s), m.left = <<>>, ~m.refused
  PROVE  /\ Applied(m, cs)[Len(cs)] \in Machines
         /\ Halfway(s, cs, Len(cs), Applied(m, cs)[Len(cs)])
<1> DEFINE L == Len(cs)
           g == Applied(m, cs)
           T == {n \in 0 .. L : Halfway(s, cs, n, g[n])}
<1>1. L \in Nat /\ L \in 0 .. L
  BY LenProperties
<1>2. /\ g \in [0 .. L -> Machines] /\ g[0] = m
      /\ \A n \in 1 .. L : g[n] = Apply(g[n - 1], cs[n])
  BY AppliedSteps
<1> HIDE DEF g
<1>3. 0 \in T
  <2>1. Settled(s, cs)[0] = s
    BY SettledSteps
  <2>2. Len(m.left) = 0 /\ DOMAIN m.left = {} /\ 0 - Len(m.left) = 0 /\ Len(m.left) <= 0
    <3>1. Len(<<>>) = 0 /\ DOMAIN <<>> = {} /\ 0 - 0 = 0 /\ 0 <= 0
      OBVIOUS
    <3>2. m.left = <<>>
      OBVIOUS
    <3> QED BY <3>1, <3>2, Zenon
  <2>3. Halfway(s, cs, 0, m)
    BY <2>1, <2>2 DEF Halfway, FreshChanges, FromStackOr
  <2> QED BY <1>1, <1>2, <2>3
<1>4. ASSUME NEW n \in 0 .. L - 1, n \in T PROVE n + 1 \in T
  <2>1. n + 1 \in 0 .. L /\ n + 1 \in 1 .. L /\ (n + 1) - 1 = n /\ n \in 0 .. L
    BY <1>1
  <2>2. g[n] \in Machines /\ g[n + 1] = Apply(g[n], cs[n + 1])
    BY <1>2, <2>1
  <2>3. Halfway(s, cs, n + 1, Apply(g[n], cs[n + 1]))
    BY <1>4, <2>2, HalfwayStep
  <2> QED BY <2>1, <2>2, <2>3
<1>5. 0 .. L \subseteq T
  <2> HIDE DEF T
  <2> QED BY <1>1, <1>3, <1>4, Ascent
<1> QED BY <1>1, <1>2, <1>5 DEF g

\* What the throw leaves is a suffix of the changes, still fresh for the stack it
\* left, and due to end at the same stack.
LEMMA WhatIsLeft ==
  ASSUME NEW s \in Seq(States), NEW cs \in Seq(Changes), FreshChanges(s, cs),
         NEW m \in Machines, Halfway(s, cs, Len(cs), m)
  PROVE  /\ FreshChanges(m.stack, m.left)
         /\ \A k \in DOMAIN m.left : \E j \in DOMAIN cs : m.left[k] = cs[j]
         /\ \A x \in Elements(m.stack) :
              x \in Elements(s) \/ \E j \in DOMAIN cs : Brings(cs[j]) /\ cs[j].state = x
         /\ Settled(m.stack, m.left)[Len(m.left)] = Settled(s, cs)[Len(cs)]
<1> DEFINE L == Len(cs)
           l == m.left
           M == Len(l)
           p == L - M
<1>1. /\ L \in Nat /\ DOMAIN cs = 1 .. L /\ l \in Seq(Changes) /\ M \in Nat /\ DOMAIN l = 1 .. M
      /\ m.stack \in Seq(States)
  BY LenProperties DEF Machines
<1>2. /\ M <= L /\ \A i \in 1 .. M : l[i] = cs[p + i]
      /\ m.stack = Settled(s, cs)[p] /\ m.stack # <<>> /\ Distinct(m.stack)
      /\ FromStackOr(s, cs, p, m.stack)
  BY <1>1 DEF Halfway
<1> HIDE DEF l, L, M
<1>3. p \in 0 .. L /\ p + M = L /\ p + M <= L /\ M \in 0 .. M
  BY <1>1, <1>2
<1>4. \A i \in 1 .. M : p + i \in 1 .. L /\ ~(p + i <= p)
  BY <1>1, <1>3
<1>5. \A i, j \in 1 .. M : p + i = p + j => i = j
  BY <1>1, <1>3
<1> HIDE DEF p
<1>6. FreshChanges(m.stack, l)
  <2> SUFFICES ASSUME NEW k \in 1 .. M, Brings(l[k])
               PROVE  /\ l[k].state \notin Elements(m.stack)
                      /\ \A j \in 1 .. M : Brings(l[j]) /\ l[j].state = l[k].state => j = k
    BY <1>1, <1>2 DEF FreshChanges
  <2>1. l[k] = cs[p + k] /\ p + k \in DOMAIN cs
    BY <1>1, <1>2, <1>4
  <2>2. /\ l[k].state \notin Elements(s)
        /\ \A j \in DOMAIN cs : Brings(cs[j]) /\ cs[j].state = l[k].state => j = p + k
    BY <2>1 DEF FreshChanges
  <2>3. l[k].state \notin Elements(m.stack)
    BY <1>2, <1>4, <2>2 DEF FromStackOr
  <2>4. ASSUME NEW j \in 1 .. M, Brings(l[j]), l[j].state = l[k].state PROVE j = k
    BY <1>1, <1>2, <1>4, <1>5, <2>2, <2>4
  <2> QED BY <2>3, <2>4
<1>7. \A k \in DOMAIN l : \E j \in DOMAIN cs : l[k] = cs[j]
  BY <1>1, <1>2, <1>4
<1>8. \A n \in 0 .. M : Settled(m.stack, l)[n] = Settled(s, cs)[p + n]
  <2>1. /\ p \in 0 .. Len(cs) /\ p + Len(l) <= Len(cs)
        /\ \A i \in 1 .. Len(l) : l[i] = cs[p + i]
    BY <1>2, <1>3 DEF L, M
  <2>2. \A n \in 0 .. Len(l) : Settled(Settled(s, cs)[p], l)[n] = Settled(s, cs)[p + n]
    BY <1>1, <2>1, SettledFrom
  <2> QED BY <1>2, <2>2 DEF M
<1>9. Settled(m.stack, l)[M] = Settled(s, cs)[L]
  BY <1>3, <1>8
<1> QED BY <1>2, <1>6, <1>7, <1>9 DEF l, M, L, FromStackOr

\* The greatest element of a set of numbers up to L.
LEMMA Greatest ==
  ASSUME NEW L \in Nat, NEW S \in SUBSET (1 .. L), S # {}
  PROVE  Max(S) \in S /\ \A i \in S : i <= Max(S)
<1> DEFINE T == {n \in 0 .. L : \A R \in SUBSET (1 .. n) :
                   R # {} => \E x \in R : \A y \in R : x >= y}
<1>1. 0 \in T
  <2>1. 1 .. 0 = {} /\ 0 \in 0 .. L
    OBVIOUS
  <2> QED BY <2>1, Zenon
<1>2. ASSUME NEW n \in 0 .. L - 1, n \in T PROVE n + 1 \in T
  <2> SUFFICES ASSUME NEW R \in SUBSET (1 .. n + 1), R # {}
               PROVE  \E x \in R : \A y \in R : x >= y
    OBVIOUS
  <2>1. CASE n + 1 \in R
    BY <2>1
  <2>2. CASE n + 1 \notin R
    <3>1. R \in SUBSET (1 .. n)
      BY <2>2
    <3> QED BY <1>2, <3>1
  <2> QED BY <2>1, <2>2
<1>3. L \in T
  <2> HIDE DEF T
  <2>1. 0 .. L \subseteq T
    BY <1>1, <1>2, Ascent
  <2>2. L \in 0 .. L
    OBVIOUS
  <2> QED BY <2>1, <2>2
<1>4. \E x \in S : \A y \in S : x >= y
  BY <1>3
<1>5. Max(S) \in S /\ \A y \in S : Max(S) >= y
  BY <1>4 DEF Max
<1> QED BY <1>5

\* Each state above the first one a call reaches lets it through.
LEMMA CallReaches ==
  ASSUME NEW below, stack \in Seq(States), stack # <<>>
  PROVE  /\ FirstReached(below) \in 1 .. Len(stack)
         /\ \A i \in FirstReached(below) + 1 .. Len(stack) : stack[i] \in below
<1> DEFINE S == {1} \cup {i \in DOMAIN stack : stack[i] \notin below}
<1>1. Len(stack) \in Nat \ {0} /\ DOMAIN stack = 1 .. Len(stack)
  BY LenProperties, EmptySeq
<1>2. S \in SUBSET (1 .. Len(stack)) /\ S # {}
  BY <1>1
<1>3. FirstReached(below) = Max(S)
  BY DEF FirstReached
<1> HIDE DEF S
<1>4. Max(S) \in S /\ \A i \in S : i <= Max(S)
  BY <1>1, <1>2, Greatest
<1>5. ASSUME NEW i \in Max(S) + 1 .. Len(stack) PROVE stack[i] \in below
  <2>1. i \in DOMAIN stack /\ ~(i <= Max(S))
    <3> DEFINE M == Max(S)
               L == Len(stack)
    <3>1. M \in 1 .. L /\ L \in Nat
      BY <1>1, <1>2, <1>4
    <3> HIDE DEF M
    <3>2. i \in 1 .. L /\ ~(i <= M)
      <4>1. i \in M + 1 .. L
        BY DEF M
      <4> HIDE DEF L
      <4> QED BY <3>1, <4>1
    <3> QED BY <1>1, <3>2 DEF M
  <2> QED BY <1>4, <2>1 DEF S
<1> QED BY <1>2, <1>3, <1>4, <1>5

\* A request for a state that is nowhere yet.
LEMMA AppendFresh ==
  ASSUME NEW s, NEW cs \in Seq(Changes), FreshChanges(s, cs), NEW change \in Changes,
         Brings(change) =>
           /\ change.state \notin Elements(s)
           /\ \A k \in DOMAIN cs : Brings(cs[k]) => cs[k].state # change.state
  PROVE  /\ Append(cs, change) \in Seq(Changes)
         /\ FreshChanges(s, Append(cs, change))
         /\ \A k \in DOMAIN Append(cs, change) :
              Append(cs, change)[k] = change \/ \E j \in DOMAIN cs : Append(cs, change)[k] = cs[j]
<1> DEFINE L == Len(cs)
           ds == Append(cs, change)
<1>1. L \in Nat /\ DOMAIN cs = 1 .. L
  BY LenProperties
<1>2. /\ ds \in Seq(Changes) /\ DOMAIN ds = 1 .. L + 1 /\ ds[L + 1] = change
      /\ \A i \in 1 .. L : ds[i] = cs[i]
  BY AppendProperties, LenProperties
<1> HIDE DEF ds, L
<1>3. \A k \in 1 .. L + 1 : k \in 1 .. L \/ k = L + 1
  BY <1>1
<1>4. FreshChanges(s, ds)
  <2> SUFFICES ASSUME NEW k \in 1 .. L + 1, Brings(ds[k])
               PROVE  /\ ds[k].state \notin Elements(s)
                      /\ \A j \in 1 .. L + 1 : Brings(ds[j]) /\ ds[j].state = ds[k].state => j = k
    BY <1>2 DEF FreshChanges
  <2>1. CASE k = L + 1
    BY <1>1, <1>2, <1>3, <2>1
  <2>2. CASE k \in 1 .. L
    <3>1. /\ ds[k] = cs[k] /\ k \in DOMAIN cs
      BY <1>1, <1>2, <2>2
    <3>2. /\ ds[k].state \notin Elements(s)
          /\ \A j \in 1 .. L : Brings(cs[j]) /\ cs[j].state = ds[k].state => j = k
      BY <1>1, <3>1 DEF FreshChanges
    <3>3. \A j \in 1 .. L : Brings(ds[j]) /\ ds[j].state = ds[k].state => j = k
      BY <1>2, <3>2
    <3>4. Brings(change) => change.state # ds[k].state
      BY <3>1
    <3> QED BY <1>2, <1>3, <3>2, <3>3, <3>4
  <2> QED BY <1>3, <2>1, <2>2
<1> QED BY <1>1, <1>2, <1>3, <1>4 DEF ds

LEMMA StackInvInit == Init => StackInv
<1> SUFFICES ASSUME Init PROVE StackInv
  OBVIOUS
<1> USE InitialAssumption, PopAssumption DEF Init
<1>1. /\ stack = <<Initial>> /\ stack \in Seq(States) /\ stack # <<>>
      /\ changes \in Seq(Changes) /\ DOMAIN changes = {} /\ DOMAIN stack = {1}
      /\ stack[1] = Initial /\ Len(stack) = 1 /\ TopOf(stack) = Initial
  BY DEF TopOf
<1>2. Elements(stack) = {Initial} /\ Distinct(stack)
  BY <1>1, ResetStack
<1>3. TypeOK
  BY <1>1 DEF TypeOK
<1>4. FreshChanges(stack, changes) /\ UnusedAreNowhere
  BY <1>1, <1>2 DEF FreshChanges, UnusedAreNowhere
<1>5. IsFiniteSet(States \ unused)
  <2>1. States \ unused = {Initial}
    OBVIOUS
  <2>2. IsFiniteSet({Initial})
    BY FS_Singleton
  <2> QED BY <2>1, <2>2, Zenon
<1>6. ScreenIsStack
  BY <1>1, <1>2 DEF ScreenIsStack
<1>7. HandlerOwnerLives
  BY DEF HandlerOwnerLives
<1> QED BY <1>3, <1>4, <1>5, <1>6, <1>7 DEF StackInv

\* A request leaves everything but the changes and the unused states as it was.
LEMMA RequestKeepsInv ==
  ASSUME StackInv, NEW change \in Changes, Request(change), NEW used,
         unused' = unused \ used, pops' \in Nat,
         IsFiniteSet(used), Brings(change) => change.state \in unused /\ change.state \in used
  PROVE  StackInv'
<1> USE DEF StackInv
<1>1. /\ stack' = stack /\ mounted' = mounted /\ enabled' = enabled /\ call' = call
      /\ index' = index /\ running' = running /\ refused' = refused
      /\ changes' = Append(changes, change)
  BY DEF Request, callVars
<1>2. /\ changes' \in Seq(Changes) /\ FreshChanges(stack, changes')
      /\ \A k \in DOMAIN changes' : changes'[k] = change
                                      \/ \E j \in DOMAIN changes : changes'[k] = changes[j]
  <2>1. Brings(change) =>
           /\ change.state \notin Elements(stack)
           /\ \A k \in DOMAIN changes : Brings(changes[k]) => changes[k].state # change.state
    BY DEF UnusedAreNowhere
  <2> QED BY <1>1, <2>1, AppendFresh DEF TypeOK
<1>3. TypeOK'
  BY <1>1, <1>2 DEF TypeOK
<1>4. FreshChanges(stack, changes)'
  BY <1>1, <1>2
<1>5. UnusedAreNowhere'
  <2>1. unused' \cap Elements(stack)' = {}
    BY <1>1 DEF UnusedAreNowhere
  <2>2. ASSUME NEW k \in DOMAIN changes', Brings(changes'[k])
        PROVE  changes'[k].state \notin unused'
    <3>1. CASE changes'[k] = change
      BY <2>2, <3>1
    <3>2. CASE \E j \in DOMAIN changes : changes'[k] = changes[j]
      BY <2>2, <3>2 DEF UnusedAreNowhere
    <3> QED BY <1>2, <3>1, <3>2
  <2> QED BY <2>1, <2>2 DEF UnusedAreNowhere
<1>6. IsFiniteSet(States \ unused)'
  <2>1. States \ unused' \subseteq (States \ unused) \cup used
    OBVIOUS
  <2>2. IsFiniteSet((States \ unused) \cup used)
    BY FS_Union
  <2> QED BY <2>1, <2>2, FS_Subset
<1>7. ScreenIsStack'
  BY <1>1 DEF ScreenIsStack
<1>8. HandlerOwnerLives'
  BY <1>1 DEF HandlerOwnerLives
<1> QED BY <1>3, <1>4, <1>5, <1>6, <1>7, <1>8

\* A frame's calls only move along the stack.
LEMMA CallKeepsInv ==
  ASSUME StackInv,
         UNCHANGED <<stack, changes, mounted, enabled, unused, pops, refused>>,
         call' \in {"none", "event", "result", "update", "render"}, index' \in Nat,
         running' \in States, HandlerOwnerLives'
  PROVE  StackInv'
<1> USE DEF StackInv
<1>1. TypeOK'
  BY DEF TypeOK
<1>2. FreshChanges(stack, changes)' /\ UnusedAreNowhere' /\ ScreenIsStack'
      /\ IsFiniteSet(States \ unused)'
  BY DEF UnusedAreNowhere, ScreenIsStack
<1> QED BY <1>1, <1>2

\* What the states above the i-th one let through, in each kind of call.
Through(name) ==
  CASE name = "event"  -> {}
    [] name = "render" -> DrawsBelow
    [] OTHER           -> UpdatesBelow

LEMMA BeginsAt ==
  ASSUME StackInv, NEW name \in {"event", "result", "update", "render"}, NEW first \in 1 .. Len(stack),
         \A i \in first + 1 .. Len(stack) : stack[i] \in Through(name), Call(name, first)
  PROVE  StackInv'
<1>1. /\ Len(stack) \in Nat /\ DOMAIN stack = 1 .. Len(stack) /\ stack[first] \in States
      /\ first \in Nat
  <2>1. stack \in Seq(States)
    BY DEF StackInv, TypeOK
  <2> QED BY <2>1, LenProperties, ElementOfSeq
<1>2. /\ UNCHANGED <<stack, changes, mounted, enabled, unused, pops, refused>>
      /\ call' = name /\ index' = first /\ running' = stack[first]
  BY DEF Call
<1>3. HandlerOwnerLives'
  BY <1>1, <1>2 DEF HandlerOwnerLives, Through
<1> QED BY <1>1, <1>2, <1>3, CallKeepsInv

\* The state and what the loop over its changes leaves.
LEMMA ApplyAllEnds ==
  ASSUME StackInv
  PROVE  ApplyAll \in Machines /\ Halfway(stack, changes, Len(changes), ApplyAll)
<1> DEFINE m == [stack |-> stack, mounted |-> mounted, left |-> <<>>, refused |-> FALSE]
<1>1. /\ stack \in Seq(States) /\ changes \in Seq(Changes) /\ mounted \subseteq States
      /\ FreshChanges(stack, changes) /\ mounted = Elements(stack)
  BY DEF StackInv, TypeOK, ScreenIsStack
<1>2. m \in Machines
  BY <1>1 DEF Machines
<1>3. m.stack = stack /\ m.mounted = Elements(stack) /\ m.left = <<>> /\ ~m.refused
  BY <1>1
<1>4. ApplyAll = Applied(m, changes)[Len(changes)]
  BY DEF ApplyAll
<1> HIDE DEF m
<1> QED BY <1>1, <1>2, <1>3, <1>4, LoopEnds

LEMMA ApplyKeepsInv == StackInv /\ ApplyPendingChanges => StackInv'
<1> SUFFICES ASSUME StackInv, ApplyPendingChanges PROVE StackInv'
  OBVIOUS
<1> DEFINE r == ApplyAll
<1>1. r \in Machines /\ Halfway(stack, changes, Len(changes), r)
  BY ApplyAllEnds
<1>2. /\ stack' = r.stack /\ mounted' = r.mounted /\ changes' = r.left /\ refused' = r.refused
      /\ enabled' = IF r.refused THEN enabled ELSE Refresh(r.stack)
      /\ call' = "none" /\ unused' = unused /\ pops' = pops /\ index' = index
      /\ running' = running
  BY DEF ApplyPendingChanges
<1> HIDE DEF r
<1>3. /\ r.stack \in Seq(States) /\ r.mounted \subseteq States /\ r.left \in Seq(Changes)
      /\ r.refused \in BOOLEAN /\ r.stack # <<>> /\ r.mounted = Elements(r.stack)
  BY <1>1 DEF Machines, Halfway
<1>4. /\ FreshChanges(r.stack, r.left)
      /\ \A k \in DOMAIN r.left : \E j \in DOMAIN changes : r.left[k] = changes[j]
      /\ \A x \in Elements(r.stack) :
           x \in Elements(stack) \/ \E j \in DOMAIN changes : Brings(changes[j]) /\ changes[j].state = x
  BY <1>1, WhatIsLeft DEF StackInv, TypeOK
<1>5. TypeOK'
  BY <1>2, <1>3 DEF StackInv, TypeOK, Refresh
<1>6. UnusedAreNowhere'
  <2>1. unused \cap Elements(r.stack) = {}
    BY <1>4 DEF StackInv, UnusedAreNowhere
  <2>2. \A k \in DOMAIN r.left : Brings(r.left[k]) => r.left[k].state \notin unused
    BY <1>4 DEF StackInv, UnusedAreNowhere
  <2> QED BY <1>2, <2>1, <2>2 DEF UnusedAreNowhere
<1>7. ScreenIsStack'
  <2>1. ASSUME ~r.refused PROVE enabled' \cap Elements(r.stack) = {TopOf(r.stack)}
    <3>1. TopOf(r.stack) \in Elements(r.stack) /\ Elements(r.stack) \subseteq States
      <4>1. Len(r.stack) \in DOMAIN r.stack /\ \A i \in DOMAIN r.stack : r.stack[i] \in States
        BY <1>3, FrontOf, LenProperties
      <4> QED BY <4>1 DEF TopOf, Elements
    <3> QED BY <1>2, <2>1, <3>1 DEF Refresh
  <2> QED BY <1>2, <1>3, <2>1 DEF ScreenIsStack
<1>8. HandlerOwnerLives'
  BY <1>2 DEF HandlerOwnerLives
<1> QED BY <1>2, <1>4, <1>5, <1>6, <1>7, <1>8 DEF StackInv

LEMMA StackInvNext == StackInv /\ [Next]_vars => StackInv'
<1> SUFFICES ASSUME StackInv, [Next]_vars PROVE StackInv'
  OBVIOUS
<1>1. /\ stack \in Seq(States) /\ stack # <<>> /\ Len(stack) \in Nat \ {0}
      /\ DOMAIN stack = 1 .. Len(stack) /\ \A i \in 1 .. Len(stack) : stack[i] \in States
      /\ unused \subseteq States /\ pops \in Nat /\ pops + 1 \in Nat /\ index \in Nat
      /\ call \in {"none", "event", "result", "update", "render"}
  BY FrontOf, LenProperties DEF StackInv, TypeOK
<1>2. ASSUME NEW s \in States, RequestPush(s) PROVE StackInv'
  <2> DEFINE c == [kind |-> "Push", state |-> s]
  <2>1. c \in Changes /\ Request(c) /\ unused' = unused \ {s} /\ pops' \in Nat
        /\ c.state \in unused /\ c.state \in {s} /\ IsFiniteSet({s})
    BY <1>1, <1>2, FS_Singleton DEF RequestPush, Changes
  <2> HIDE DEF c
  <2> QED BY <2>1, RequestKeepsInv
<1>3. ASSUME NEW s \in States, RequestResetTo(s) PROVE StackInv'
  <2> DEFINE c == [kind |-> "ResetTo", state |-> s]
  <2>1. c \in Changes /\ Request(c) /\ unused' = unused \ {s} /\ pops' \in Nat
        /\ c.state \in unused /\ c.state \in {s} /\ IsFiniteSet({s})
    BY <1>1, <1>3, FS_Singleton DEF RequestResetTo, Changes
  <2> HIDE DEF c
  <2> QED BY <2>1, RequestKeepsInv
<1>4. ASSUME RequestPop PROVE StackInv'
  <2> DEFINE c == [kind |-> "Pop", state |-> Initial]
  <2>1. c \in Changes /\ Request(c) /\ unused' = unused \ {} /\ pops' \in Nat /\ IsFiniteSet({})
    BY <1>1, <1>4, InitialAssumption, FS_EmptySet DEF RequestPop, Changes
  <2>2. ~Brings(c)
    BY DEF Brings
  <2> HIDE DEF c
  <2> QED BY <2>1, <2>2, RequestKeepsInv
<1>5. ASSUME HandleEvent PROVE StackInv'
  <2>1. Call("event", Len(stack)) /\ Len(stack) \in 1 .. Len(stack)
        /\ \A i \in Len(stack) + 1 .. Len(stack) : stack[i] \in Through("event")
    <3>1. \A n \in Nat : n + 1 .. n = {}
      OBVIOUS
    <3> QED BY <1>1, <1>5, <3>1 DEF HandleEvent
  <2> QED BY <2>1, BeginsAt
<1>6. ASSUME HandleNetworkResult \/ Update \/ Render PROVE StackInv'
  <2>1. /\ FirstReached(UpdatesBelow) \in 1 .. Len(stack)
        /\ \A i \in FirstReached(UpdatesBelow) + 1 .. Len(stack) : stack[i] \in UpdatesBelow
    BY <1>1, CallReaches
  <2>2. /\ FirstReached(DrawsBelow) \in 1 .. Len(stack)
        /\ \A i \in FirstReached(DrawsBelow) + 1 .. Len(stack) : stack[i] \in DrawsBelow
    BY <1>1, CallReaches
  <2>3. Through("result") = UpdatesBelow /\ Through("update") = UpdatesBelow
        /\ Through("render") = DrawsBelow
    BY DEF Through
  <2>4. CASE HandleNetworkResult
    BY <2>1, <2>3, <2>4, BeginsAt DEF HandleNetworkResult
  <2>5. CASE Update
    BY <2>1, <2>3, <2>5, BeginsAt DEF Update
  <2>6. CASE Render
    BY <2>2, <2>3, <2>6, BeginsAt DEF Render
  <2> QED BY <1>6, <2>4, <2>5, <2>6
<1>7. ASSUME HandlerReturns PROVE StackInv'
  <2>1. /\ UNCHANGED <<stack, changes, mounted, enabled, unused, pops, refused>> /\ call' = call
        /\ index' = index + 1 /\ running' = stack[index'] /\ index < Len(stack) /\ call # "none"
    BY <1>7 DEF HandlerReturns
  <2>2. /\ index \in DOMAIN stack
        /\ \A i \in index + 1 .. Len(stack) :
             stack[i] \in CASE call = "event"  -> {}
                            [] call = "render" -> DrawsBelow
                            [] OTHER           -> UpdatesBelow
    BY <2>1 DEF StackInv, HandlerOwnerLives
  <2>3. /\ index + 1 \in 1 .. Len(stack) /\ index + 1 \in Nat
        /\ \A i \in (index + 1) + 1 .. Len(stack) : i \in index + 1 .. Len(stack)
    BY <1>1, <2>1
  <2>4. HandlerOwnerLives'
    BY <1>1, <2>1, <2>2, <2>3 DEF HandlerOwnerLives
  <2> QED BY <1>1, <2>1, <2>3, <2>4, CallKeepsInv
<1>8. ASSUME CallReturns PROVE StackInv'
  <2>1. /\ UNCHANGED <<stack, changes, mounted, enabled, unused, pops, refused, index, running>>
        /\ call' = "none"
    BY <1>8 DEF CallReturns
  <2>2. HandlerOwnerLives'
    BY <2>1 DEF HandlerOwnerLives
  <2> QED BY <1>1, <2>1, <2>2, CallKeepsInv DEF StackInv, TypeOK
<1>9. ASSUME ApplyPendingChanges PROVE StackInv'
  BY <1>9, ApplyKeepsInv
<1>10. ASSUME UNCHANGED vars PROVE StackInv'
  <2>1. UNCHANGED <<stack, changes, mounted, enabled, unused, pops, call, index, running, refused>>
    BY <1>10 DEF vars, callVars
  <2>2. HandlerOwnerLives'
    BY <2>1 DEF StackInv, HandlerOwnerLives
  <2> QED BY <1>1, <2>1, <2>2, CallKeepsInv DEF StackInv, TypeOK
<1> QED BY <1>2, <1>3, <1>4, <1>5, <1>6, <1>7, <1>8, <1>9, <1>10 DEF Next

-------------------------------------------------------------------------------
(* The theorems.                                                           *)

\* The inductive invariant, of which the next three are parts.
THEOREM StackInvariance == Spec => []StackInv
<1>1. Init => StackInv
  BY StackInvInit
<1>2. StackInv /\ [Next]_vars => StackInv'
  BY StackInvNext
<1> QED BY <1>1, <1>2, PTL DEF Spec

\* The variables keep their types, and the manager always holds a state.
THEOREM TypeCorrectness == Spec => []TypeOK
<1>1. StackInv => TypeOK
  BY DEF StackInv
<1> QED BY <1>1, StackInvariance, PTL

\* The GUI shows the root widgets of the stacked states and no other ones, whatever
\* was requested and wherever an update() stopped.
THEOREM GuiShowsTheStack == Spec => []ScreenIsStack
<1>1. StackInv => ScreenIsStack
  BY DEF StackInv
<1> QED BY <1>1, StackInvariance, PTL

\* No request made in a handler destroys the state that runs it.
THEOREM HandlersAreSafe == Spec => []HandlerOwnerLives
<1>1. StackInv => HandlerOwnerLives
  BY DEF StackInv
<1> QED BY <1>1, StackInvariance, PTL

-------------------------------------------------------------------------------
(* StateManager does what StateStack promises.                             *)

LEMMA RequestsInit == Init => Requested!Init
<1> SUFFICES ASSUME Init PROVE Requested!Init
  OBVIOUS
<1>1. stack = <<Initial>> /\ changes = <<>> /\ Len(changes) = 0 /\ pops = 0
      /\ States \ unused = {Initial}
  BY InitialAssumption DEF Init
<1>2. Pending = stack
  <2>1. <<Initial>> \in Seq(States) /\ <<>> \in Seq(Changes)
    BY InitialAssumption
  <2>2. Settled(stack, changes)[0] = stack
    BY <1>1, <2>1, SettledSteps
  <2> QED BY <1>1, <2>2 DEF Pending
<1>3. Cardinality(States \ unused) = 1
  BY <1>1, FS_Singleton
<1> QED BY <1>1, <1>2, <1>3 DEF Requested!Init

\* What is due grows by the change a request appends.
LEMMA RequestIsSettled ==
  ASSUME StackInv, NEW change \in Changes, Request(change)
  PROVE  Pending' = Settle(Pending, change)
<1>1. stack' = stack /\ changes' = Append(changes, change)
  BY DEF Request
<1>2. stack \in Seq(States) /\ changes \in Seq(Changes)
  BY DEF StackInv, TypeOK
<1>3. Settled(stack, Append(changes, change))[Len(Append(changes, change))]
        = Settle(Settled(stack, changes)[Len(changes)], change)
  BY <1>2, OneMoreChange
<1>4. Pending' = Settled(stack', changes')[Len(changes')]
  BY DEF Pending
<1> QED BY <1>1, <1>3, <1>4 DEF Pending

\* One more state was given to the manager.
LEMMA GivenGrows ==
  ASSUME StackInv, NEW s \in unused, unused' = unused \ {s}
  PROVE  Cardinality(States \ unused)' = Cardinality(States \ unused) + 1
<1>1. s \in States /\ IsFiniteSet(States \ unused)
  BY DEF StackInv, TypeOK
<1>2. (States \ unused') = (States \ unused) \cup {s} /\ s \notin States \ unused
  BY <1>1
<1>3. Cardinality((States \ unused) \cup {s}) = Cardinality(States \ unused) + 1
  BY <1>1, <1>2, FS_AddElement
<1> QED BY <1>2, <1>3

LEMMA RequestsNext == StackInv /\ [Next]_vars => [Requested!Next]_Requested!vars
<1> SUFFICES ASSUME StackInv, [Next]_vars PROVE [Requested!Next]_Requested!vars
  OBVIOUS
<1> DEFINE given == Cardinality(States \ unused)
<1>1. given \in Nat /\ pops \in Nat
  BY FS_CardinalityType DEF StackInv, TypeOK
<1> HIDE DEF given
<1>2. ASSUME NEW s \in States, RequestPush(s) PROVE Requested!Next
  <2>1. s \in unused /\ unused' = unused \ {s} /\ pops' = pops
        /\ Request([kind |-> "Push", state |-> s])
        /\ [kind |-> "Push", state |-> s] \in Changes
    BY <1>2 DEF RequestPush, Changes
  <2>2. Pending' = Append(Pending, s)
    BY <2>1, RequestIsSettled DEF Settle
  <2>3. given' - 1 + pops' = (given - 1 + pops) + 1
    <3>1. given' = given + 1
      BY <2>1, GivenGrows DEF given
    <3> QED BY <1>1, <2>1, <3>1
  <2> QED BY <2>2, <2>3 DEF Requested!Next, Requested!Push, given
<1>3. ASSUME NEW s \in States, RequestResetTo(s) PROVE Requested!Next
  <2>1. s \in unused /\ unused' = unused \ {s} /\ pops' = pops
        /\ Request([kind |-> "ResetTo", state |-> s])
        /\ [kind |-> "ResetTo", state |-> s] \in Changes
    BY <1>3 DEF RequestResetTo, Changes
  <2>2. Pending' = <<s>>
    BY <2>1, RequestIsSettled DEF Settle
  <2>3. given' - 1 + pops' = (given - 1 + pops) + 1
    <3>1. given' = given + 1
      BY <2>1, GivenGrows DEF given
    <3> QED BY <1>1, <2>1, <3>1
  <2> QED BY <2>2, <2>3 DEF Requested!Next, Requested!ResetTo, given
<1>4. ASSUME RequestPop PROVE Requested!Next
  <2>1. unused' = unused /\ pops' = pops + 1
        /\ Request([kind |-> "Pop", state |-> Initial])
        /\ [kind |-> "Pop", state |-> Initial] \in Changes
    BY <1>4, InitialAssumption DEF RequestPop, Changes
  <2>2. Pending' = IF Len(Pending) = 1 THEN Pending ELSE SubSeq(Pending, 1, Len(Pending) - 1)
    BY <2>1, RequestIsSettled DEF Settle, Front
  <2>3. given' - 1 + pops' = (given - 1 + pops) + 1
    <3>1. given' = given
      BY <2>1 DEF given
    <3> QED BY <1>1, <2>1, <3>1
  <2> QED BY <2>2, <2>3 DEF Requested!Next, Requested!Pop, given
<1>5. ASSUME ApplyPendingChanges PROVE UNCHANGED Requested!vars
  <2>1. /\ stack' = ApplyAll.stack /\ changes' = ApplyAll.left /\ unused' = unused /\ pops' = pops
    BY <1>5 DEF ApplyPendingChanges
  <2>2. Settled(ApplyAll.stack, ApplyAll.left)[Len(ApplyAll.left)] = Pending
    BY ApplyAllEnds, WhatIsLeft DEF StackInv, TypeOK, Pending
  <2>3. Pending' = Settled(stack', changes')[Len(changes')]
    BY DEF Pending
  <2> QED BY <2>1, <2>2, <2>3 DEF Requested!vars
<1>6. ASSUME UNCHANGED <<stack, changes, unused, pops>> PROVE UNCHANGED Requested!vars
  BY <1>6 DEF Requested!vars, Pending
<1>7. \/ HandleEvent \/ HandleNetworkResult \/ Update \/ Render
      \/ HandlerReturns \/ CallReturns \/ UNCHANGED vars
      => UNCHANGED <<stack, changes, unused, pops>>
  BY DEF HandleEvent, HandleNetworkResult, Update, Render, Call, HandlerReturns,
         CallReturns, vars
<1> QED BY <1>2, <1>3, <1>4, <1>5, <1>6, <1>7 DEF Next

\* No request is lost, repeated or overtaken, however many are made between two
\* updates and wherever one of these throws.
THEOREM RequestsAreApplied == Spec => StateStackSpec
<1>1. Init => Requested!Init
  BY RequestsInit
<1>2. StackInv /\ [Next]_vars => [Requested!Next]_Requested!vars
  BY RequestsNext
<1> QED BY <1>1, <1>2, StackInvariance, PTL DEF Spec, StateStackSpec, Requested!Spec
===============================================================================
