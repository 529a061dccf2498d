--------------------------- MODULE PathTreeProofs ---------------------------
(***************************************************************************)
(* Proofs about PathTree and TreeSelection, for all names, documents,      *)
(* labels and numbers of files.                                            *)
(***************************************************************************)
EXTENDS TreeSelection, SelectionProofs

-----------------------------------------------------------------------------
(***************************************************************************)
(* Names                                                                   *)
(***************************************************************************)

\* Sequences of up to three members.
LEMMA Short ==
  ASSUME NEW S, NEW x \in S, NEW y \in S, NEW z \in S
  PROVE  /\ <<x>> \in Seq(S) /\ <<x, y>> \in Seq(S) /\ <<x, y, z>> \in Seq(S)
         /\ Len(<<x>>) = 1 /\ Len(<<x, y>>) = 2 /\ Len(<<x, y, z>>) = 3
<1>1. <<x>> \in Seq(S)
  OBVIOUS
<1>2. <<x, y>> \in Seq(S)
  OBVIOUS
<1>3. <<x, y, z>> \in Seq(S)
  OBVIOUS
<1>. QED
  BY <1>1, <1>2, <1>3

\* The components that are no names are different components.
LEMMA Special ==
  /\ Empty \in Component /\ Dot \in Component /\ DotDot \in Component
  /\ Empty # Dot /\ Dot # DotDot /\ Empty # DotDot
<1>1. "" \in Part
  BY NameAssumption
<1>2. /\ Empty \in Seq(Part) /\ Dot \in Seq(Part) /\ DotDot \in Seq(Part)
      /\ Len(Empty) = 1 /\ Len(Dot) = 2 /\ Len(DotDot) = 3
  BY <1>1, Short DEF Empty, Dot, DotDot
<1>3. Len(<<>>) = 0
  OBVIOUS
<1>4. Empty # <<>> /\ Dot # <<>> /\ DotDot # <<>>
  BY <1>2, <1>3, SMTT(30)
<1>5. \A a, b : Len(a) # Len(b) => a # b
  OBVIOUS
<1>6. Len(Empty) # Len(Dot) /\ Len(Dot) # Len(DotDot) /\ Len(Empty) # Len(DotDot)
  BY <1>2
<1>7. Empty # Dot /\ Dot # DotDot /\ Empty # DotDot
  BY <1>5, <1>6, Zenon
<1>. QED
  BY <1>2, <1>4, <1>7 DEF Component

\* What the steps of a walk and of path.Clean lead to.
LEMMA StepType ==
  ASSUME NEW a \in Seq(Component), NEW c \in Component, NEW rooted \in BOOLEAN
  PROVE  WalkStep(a, c) \in Seq(Component) /\ CleanStep(rooted, a, c) \in Seq(Component)
<1>1. SubSeq(a, 1, Len(a) - 1) \in Seq(Component)
  OBVIOUS
<1>2. WalkStep(a, c) \in Seq(Component)
  BY <1>1, Special DEF WalkStep
<1>3. CleanStep(rooted, a, c) \in Seq(Component)
  BY <1>1, Special DEF CleanStep, Front
<1>. QED
  BY <1>2, <1>3

\* Induction up to N, for the sets the provers can see.
LEMMA UpTo ==
  ASSUME NEW N \in Nat, NEW G, 0 \in G, \A k \in 1..N : k - 1 \in G => k \in G
  PROVE  \A k \in 0..N : k \in G
<1>. DEFINE T == {k \in 0..N : k \notin G}
<1>. SUFFICES ASSUME T # {} PROVE FALSE
  OBVIOUS
<1>1. T \in SUBSET Nat
  OBVIOUS
<1>2. PICK k \in T : \A m \in T : k <= m
  <2>. HIDE DEF T
  <2>. QED
    BY <1>1, LeastOf
<1>3. k \in 1..N /\ k - 1 \in 0..N /\ k \notin G
  BY <1>2
<1>4. k - 1 \in G
  BY <1>2, <1>3
<1>. QED
  BY <1>3, <1>4

\* f is a recursion over 1..N, one step after the other.
Runs(f, N, S, b, step) ==
  f \in [0..N -> S] /\ f[0] = b /\ \A i \in 1..N : f[i] = step[i][f[i - 1]]

\* Every recursion of the model runs to its end.
LEMMA RunExists ==
  ASSUME NEW N \in Nat, NEW S, NEW b \in S, NEW step \in [1..N -> [S -> S]]
  PROVE  \E f : Runs(f, N, S, b, step)
<1>. DEFINE G == {k \in 0..N : \E f : Runs(f, k, S, b, step)}
<1>1. 0 \in G
  <2>1. Runs([i \in 0..0 |-> b], 0, S, b, step)
    BY DEF Runs
  <2>. QED
    BY <2>1
<1>2. ASSUME NEW k \in 1..N, k - 1 \in G PROVE k \in G
  <2>1. PICK f : Runs(f, k - 1, S, b, step)
    BY <1>2
  <2>. DEFINE w == step[k][f[k - 1]]
              g == [i \in 0..k |-> IF i = k THEN w ELSE f[i]]
  <2>2. f[k - 1] \in S /\ step[k] \in [S -> S]
    BY <2>1 DEF Runs
  <2>3. w \in S
    BY <2>2
  <2>. HIDE DEF w
  <2>4. /\ g \in [0..k -> S] /\ g[k] = w
        /\ \A i \in 0..(k - 1) : g[i] = f[i]
    BY <2>1, <2>3 DEF Runs
  <2>. HIDE DEF g
  <2>5. ASSUME NEW i \in 1..k PROVE g[i] = step[i][g[i - 1]]
    <3>1. g[i - 1] = f[i - 1]
      BY <2>4
    <3>2. CASE i = k
      BY <2>4, <3>1, <3>2 DEF w
    <3>3. CASE i # k
      <4>1. i \in 1..(k - 1) /\ i \in 0..(k - 1)
        BY <3>3
      <4>. QED
        BY <2>1, <2>4, <3>1, <4>1 DEF Runs
    <3>. QED
      BY <3>2, <3>3
  <2>6. Runs(g, k, S, b, step)
    BY <2>1, <2>4, <2>5 DEF Runs
  <2>. QED
    BY <2>6
<1>3. \A k \in 0..N : k \in G
  <2>. HIDE DEF G
  <2>. QED
    BY <1>1, <1>2, UpTo, Zenon
<1>4. N \in G
  BY <1>3
<1>. QED
  BY <1>4

\* And in one way only.
LEMMA RunUnique ==
  ASSUME NEW N \in Nat, NEW S, NEW b, NEW step, NEW f, Runs(f, N, S, b, step),
         NEW g, g[0] = b, \A i \in 1..N : g[i - 1] \in S => g[i] = step[i][g[i - 1]]
  PROVE  \A i \in 0..N : g[i] = f[i]
<1>. DEFINE H == {k \in 0..N : g[k] = f[k]}
<1>1. 0 \in H
  BY DEF Runs
<1>2. ASSUME NEW k \in 1..N, k - 1 \in H PROVE k \in H
  <2>1. g[k - 1] = f[k - 1] /\ f[k - 1] \in S
    BY <1>2 DEF Runs
  <2>. QED
    BY <2>1 DEF Runs
<1>3. \A k \in 0..N : k \in H
  <2>. HIDE DEF H
  <2>. QED
    BY <1>1, <1>2, UpTo, Zenon
<1>. QED
  BY <1>3

\* f is where a walk along n has come after each of its components.
IsWalk(f, n) ==
  /\ f \in [0..Len(n) -> Seq(Component)]
  /\ f[0] = <<>>
  /\ \A i \in 1..Len(n) : f[i] = WalkStep(f[i - 1], n[i])

\* f is what path.Clean has made of n after each of its components.
IsClean(f, rooted, n) ==
  /\ f \in [0..Len(n) -> Seq(Component)]
  /\ f[0] = <<>>
  /\ \A i \in 1..Len(n) : f[i] = CleanStep(rooted, f[i - 1], n[i])

\* The walk goes on from where it has come.
LEMMA WalkRuns ==
  ASSUME NEW n \in Seq(Component)
  PROVE  \E f : IsWalk(f, n) /\ Walk(n) = f[Len(n)]
<1>. DEFINE N == Len(n)
            S == Seq(Component)
            step == [i \in 1..N |-> [a \in S |-> WalkStep(a, n[i])]]
<1>1. N \in Nat /\ <<>> \in S
  OBVIOUS
<1>2. ASSUME NEW i \in 1..N, NEW a \in S PROVE WalkStep(a, n[i]) \in S
  <2>1. n[i] \in Component
    OBVIOUS
  <2>. QED
    BY <2>1, StepType
<1>3. step \in [1..N -> [S -> S]] /\ \A i \in 1..N, a \in S : step[i][a] = WalkStep(a, n[i])
  BY <1>2
<1>. HIDE DEF step, N, S
<1>4. PICK f : Runs(f, N, S, <<>>, step)
  BY <1>1, <1>3, RunExists
<1>5. f \in [0..N -> S] /\ f[0] = <<>> /\ \A i \in 1..N : f[i] = WalkStep(f[i - 1], n[i])
  BY <1>1, <1>3, <1>4 DEF Runs
<1>. DEFINE at[i \in 0..Len(n)] == IF i = 0 THEN <<>> ELSE WalkStep(at[i - 1], n[i])
<1>6. f = [i \in 0..Len(n) |-> IF i = 0 THEN <<>> ELSE WalkStep(f[i - 1], n[i])]
  BY <1>1, <1>5 DEF N
<1>7. at = [i \in 0..Len(n) |-> IF i = 0 THEN <<>> ELSE WalkStep(at[i - 1], n[i])]
  BY <1>6
<1>8. Walk(n) = at[Len(n)]
  BY DEF Walk
<1>. HIDE DEF at
<1>9. at[0] = <<>> /\ \A i \in 1..N : at[i - 1] \in S => at[i] = step[i][at[i - 1]]
  BY <1>1, <1>3, <1>7 DEF N
<1>10. \A i \in 0..N : at[i] = f[i]
  BY <1>1, <1>4, <1>9, RunUnique
<1>. QED
  BY <1>1, <1>5, <1>8, <1>10 DEF IsWalk, N, S

\* So does path.Clean.
LEMMA CleanRuns ==
  ASSUME NEW n \in Seq(Component), NEW rooted \in BOOLEAN
  PROVE  \E f : IsClean(f, rooted, n) /\ Clean(rooted, n) = f[Len(n)]
<1>. DEFINE N == Len(n)
            S == Seq(Component)
            step == [i \in 1..N |-> [a \in S |-> CleanStep(rooted, a, n[i])]]
<1>1. N \in Nat /\ <<>> \in S
  OBVIOUS
<1>2. ASSUME NEW i \in 1..N, NEW a \in S PROVE CleanStep(rooted, a, n[i]) \in S
  <2>1. n[i] \in Component
    OBVIOUS
  <2>. QED
    BY <2>1, StepType
<1>3. step \in [1..N -> [S -> S]] /\ \A i \in 1..N, a \in S : step[i][a] = CleanStep(rooted, a, n[i])
  BY <1>2
<1>. HIDE DEF step, N, S
<1>4. PICK f : Runs(f, N, S, <<>>, step)
  BY <1>1, <1>3, RunExists
<1>5. f \in [0..N -> S] /\ f[0] = <<>> /\ \A i \in 1..N : f[i] = CleanStep(rooted, f[i - 1], n[i])
  BY <1>1, <1>3, <1>4 DEF Runs
<1>. DEFINE at[i \in 0..Len(n)] == IF i = 0 THEN <<>> ELSE CleanStep(rooted, at[i - 1], n[i])
<1>6. f = [i \in 0..Len(n) |-> IF i = 0 THEN <<>> ELSE CleanStep(rooted, f[i - 1], n[i])]
  BY <1>1, <1>5 DEF N
<1>7. at = [i \in 0..Len(n) |-> IF i = 0 THEN <<>> ELSE CleanStep(rooted, at[i - 1], n[i])]
  BY <1>6
<1>8. Clean(rooted, n) = at[Len(n)]
  BY DEF Clean
<1>. HIDE DEF at
<1>9. at[0] = <<>> /\ \A i \in 1..N : at[i - 1] \in S => at[i] = step[i][at[i - 1]]
  BY <1>1, <1>3, <1>7 DEF N
<1>10. \A i \in 0..N : at[i] = f[i]
  BY <1>1, <1>4, <1>9, RunUnique
<1>. QED
  BY <1>1, <1>5, <1>8, <1>10 DEF IsClean, N, S

\* The beginning of a sequence.
LEMMA Beginning ==
  ASSUME NEW S, NEW a \in Seq(S), NEW n \in Nat, n <= Len(a)
  PROVE  /\ SubSeq(a, 1, n) \in Seq(S) /\ Len(SubSeq(a, 1, n)) = n
         /\ \A i \in 1..n : SubSeq(a, 1, n)[i] = a[i]
<1>1. Len(SubSeq(a, 1, n)) = n
  OBVIOUS
<1>2. \A i \in 1..n : SubSeq(a, 1, n)[i] = a[i]
  OBVIOUS
<1>. QED
  BY <1>1, <1>2

\* The components of p name something below a directory.
Proper(p) == \A i \in 1..Len(p) : p[i] \notin {Empty, Dot, DotDot}

\* The three kinds of steps.
LEMMA WalkStepIs ==
  ASSUME NEW a, NEW c
  PROVE  /\ c \in {Empty, Dot} => WalkStep(a, c) = a
         /\ c = DotDot => WalkStep(a, c) = SubSeq(a, 1, Len(a) - 1)
         /\ c \notin {Empty, Dot, DotDot} => WalkStep(a, c) = Append(a, c)
<1>1. CASE c \in {Empty, Dot}
  BY <1>1, Special DEF WalkStep
<1>2. CASE c = DotDot
  BY <1>2, Special DEF WalkStep
<1>3. CASE c \notin {Empty, Dot, DotDot}
  BY <1>3 DEF WalkStep
<1>. QED
  BY <1>1, <1>2, <1>3, Special

\* From a proper path a step leads to a proper path, and path.Clean of a rooted
\* name takes the same.
LEMMA StepProper ==
  ASSUME NEW a \in Seq(Component), Proper(a), NEW c \in Component
  PROVE  Proper(WalkStep(a, c)) /\ CleanStep(TRUE, a, c) = WalkStep(a, c)
<1>1. CASE c \in {Empty, Dot}
  BY <1>1, WalkStepIs DEF CleanStep
<1>2. CASE c \notin {Empty, Dot, DotDot}
  <2>1. WalkStep(a, c) = Append(a, c) /\ CleanStep(TRUE, a, c) = Append(a, c)
    BY <1>2, WalkStepIs DEF CleanStep
  <2>2. Len(Append(a, c)) = Len(a) + 1 /\ \A i \in 1..(Len(a) + 1) :
          Append(a, c)[i] = IF i = Len(a) + 1 THEN c ELSE a[i]
    OBVIOUS
  <2>3. Proper(Append(a, c))
    BY <1>2, <2>2 DEF Proper
  <2>. QED
    BY <2>1, <2>3
<1>3. CASE c = DotDot
  <2>. DEFINE b == SubSeq(a, 1, Len(a) - 1)
  <2>1. WalkStep(a, c) = b
    BY <1>3, WalkStepIs
  <2>2. CASE a = <<>>
    <3>1. b = <<>> /\ Len(b) = 0
      BY <2>2
    <3>2. CleanStep(TRUE, a, c) = <<>>
      BY <1>3, <2>2, Special DEF CleanStep
    <3>3. Proper(b)
      BY <3>1 DEF Proper
    <3>. QED
      BY <2>1, <3>1, <3>2, <3>3, Zenon
  <2>3. CASE a # <<>>
    <3>0. Len(a) \in Nat \ {0} /\ Len(a) - 1 \in Nat /\ Len(a) - 1 <= Len(a)
      BY <2>3
    <3>1. Len(b) = Len(a) - 1 /\ \A i \in 1..(Len(a) - 1) : b[i] = a[i]
      BY <3>0, Beginning, Zenon
    <3>2. Last(a) # DotDot
      BY <3>0 DEF Last, Proper
    <3>3. CleanStep(TRUE, a, c) = b
      BY <1>3, <2>3, <3>2, Special DEF CleanStep, Front
    <3>4. Proper(b)
      BY <3>0, <3>1 DEF Proper
    <3>. QED
      BY <2>1, <3>3, <3>4
  <2>. QED
    BY <2>2, <2>3
<1>. QED
  BY <1>1, <1>2, <1>3

\* path.Clean of a rooted name is where the name leads.
LEMMA CleanRooted ==
  ASSUME NEW n \in Seq(Component)
  PROVE  Clean(TRUE, n) = Walk(n) /\ Walk(n) \in Seq(Component) /\ Proper(Walk(n))
<1>1. PICK f : IsWalk(f, n) /\ Walk(n) = f[Len(n)]
  BY WalkRuns
<1>2. PICK g : IsClean(g, TRUE, n) /\ Clean(TRUE, n) = g[Len(n)]
  BY CleanRuns
<1>. DEFINE G == {k \in 0..Len(n) : g[k] = f[k] /\ Proper(f[k])}
<1>3. Len(n) \in Nat
  OBVIOUS
<1>4. 0 \in G
  BY <1>1, <1>2 DEF IsWalk, IsClean, Proper
<1>5. ASSUME NEW k \in 1..Len(n), k - 1 \in G PROVE k \in G
  <2>1. /\ n[k] \in Component /\ f[k - 1] \in Seq(Component) /\ Proper(f[k - 1])
        /\ f[k] = WalkStep(f[k - 1], n[k])
    BY <1>1, <1>5 DEF IsWalk
  <2>2. g[k] = CleanStep(TRUE, g[k - 1], n[k]) /\ g[k - 1] = f[k - 1]
    BY <1>2, <1>5, Zenon DEF IsClean
  <2>3. g[k] = f[k] /\ Proper(f[k])
    BY <2>1, <2>2, StepProper, Zenon
  <2>. QED
    BY <2>3
<1>6. \A k \in 0..Len(n) : k \in G
  <2>. HIDE DEF G
  <2>. QED
    BY <1>3, <1>4, <1>5, UpTo, Zenon
<1>7. g[Len(n)] = f[Len(n)] /\ Proper(f[Len(n)])
  BY <1>3, <1>6
<1>8. f[Len(n)] \in Seq(Component)
  BY <1>1, <1>3 DEF IsWalk
<1>. QED
  BY <1>1, <1>2, <1>7, <1>8, Zenon

\* The steps of path.Clean of a relative name.
LEMMA RelativeStepIs ==
  ASSUME NEW h, NEW c
  PROVE  /\ c \in {Empty, Dot} => CleanStep(FALSE, h, c) = h
         /\ c \notin {Empty, Dot, DotDot} => CleanStep(FALSE, h, c) = Append(h, c)
         /\ c = DotDot /\ h # <<>> /\ Last(h) # DotDot =>
              CleanStep(FALSE, h, c) = SubSeq(h, 1, Len(h) - 1)
         /\ c = DotDot /\ (h = <<>> \/ Last(h) = DotDot) =>
              CleanStep(FALSE, h, c) = Append(h, c)
<1>. QED
  BY Special DEF CleanStep, Front

\* h goes up k times and then along a.
Climbs(a, h, k) ==
  /\ k \in 0..Len(h) /\ Len(a) = Len(h) - k
  /\ \A j \in 1..k : h[j] = DotDot
  /\ \A j \in 1..Len(a) : a[j] = h[k + j]
  /\ Proper(a)

\* path.Clean of a relative name keeps what goes up, and then where it leads.
LEMMA StepClimbs ==
  ASSUME NEW a \in Seq(Component), NEW h \in Seq(Component), NEW k, Climbs(a, h, k),
         NEW c \in Component
  PROVE  \E j : Climbs(WalkStep(a, c), CleanStep(FALSE, h, c), j)
<1>0. k \in 0..Len(h) /\ Len(a) = Len(h) - k /\ Len(a) \in Nat /\ Len(h) \in Nat
  BY DEF Climbs
<1>1. CASE c \in {Empty, Dot}
  <2>1. WalkStep(a, c) = a /\ CleanStep(FALSE, h, c) = h
    BY <1>1, WalkStepIs, RelativeStepIs, Zenon
  <2>. QED
    BY <2>1
<1>2. CASE c \notin {Empty, Dot, DotDot}
  <2>1. WalkStep(a, c) = Append(a, c) /\ CleanStep(FALSE, h, c) = Append(h, c)
    BY <1>2, WalkStepIs, RelativeStepIs, Zenon
  <2>. DEFINE b == Append(a, c)
              g == Append(h, c)
  <2>2. /\ Len(b) = Len(a) + 1 /\ Len(g) = Len(h) + 1
        /\ \A j \in 1..Len(a) : b[j] = a[j]
        /\ \A j \in 1..Len(h) : g[j] = h[j]
        /\ b[Len(a) + 1] = c /\ g[Len(h) + 1] = c
    BY <1>0
  <2>3. Proper(b)
    BY <2>1, StepProper, Zenon DEF Climbs
  <2>. HIDE DEF b, g
  <2>4. k \in 0..Len(g) /\ Len(b) = Len(g) - k
    BY <1>0, <2>2
  <2>5. \A j \in 1..k : g[j] = DotDot
    BY <1>0, <2>2, SMTT(30) DEF Climbs
  <2>6. ASSUME NEW j \in 1..Len(b) PROVE b[j] = g[k + j]
    <3>1. CASE j = Len(a) + 1
      BY <1>0, <2>2, <3>1
    <3>2. CASE j # Len(a) + 1
      <4>1. j \in 1..Len(a) /\ k + j \in 1..Len(h)
        BY <1>0, <2>2, <3>2
      <4>. QED
        BY <2>2, <4>1 DEF Climbs
    <3>. QED
      BY <3>1, <3>2
  <2>7. Climbs(b, g, k)
    BY <2>3, <2>4, <2>5, <2>6 DEF Climbs
  <2>. QED
    BY <2>1, <2>7, Zenon DEF b, g
<1>3. CASE c = DotDot /\ Len(a) # 0
  <2>. DEFINE b == SubSeq(a, 1, Len(a) - 1)
              g == SubSeq(h, 1, Len(h) - 1)
  <2>1. /\ Len(a) - 1 \in Nat /\ Len(a) - 1 <= Len(a)
        /\ Len(h) - 1 \in Nat /\ Len(h) - 1 <= Len(h)
    BY <1>0, <1>3
  <2>2. h # <<>> /\ Last(h) # DotDot
    <3>1. Last(h) = a[Len(a)]
      BY <1>0, <1>3 DEF Climbs, Last
    <3>2. a[Len(a)] # DotDot
      BY <1>0, <1>3 DEF Climbs, Proper
    <3>3. h # <<>>
      BY <2>1
    <3>. QED
      BY <3>1, <3>2, <3>3
  <2>3. WalkStep(a, c) = b /\ CleanStep(FALSE, h, c) = g
    BY <1>3, <2>2, WalkStepIs, RelativeStepIs, Zenon
  <2>4. /\ Len(b) = Len(a) - 1 /\ Len(g) = Len(h) - 1
        /\ \A j \in 1..(Len(a) - 1) : b[j] = a[j]
        /\ \A j \in 1..(Len(h) - 1) : g[j] = h[j]
    BY <2>1, Beginning, Zenon
  <2>5. Proper(b)
    BY <2>3, StepProper, Zenon DEF Climbs
  <2>. HIDE DEF b, g
  <2>6. k \in 0..Len(g) /\ Len(b) = Len(g) - k
    BY <1>0, <1>3, <2>4
  <2>7. ASSUME NEW j \in 1..k PROVE g[j] = DotDot
    <3>1. j \in 1..(Len(h) - 1)
      BY <1>0, <1>3
    <3>. QED
      BY <2>4, <3>1 DEF Climbs
  <2>8. \A j \in 1..Len(b) : b[j] = g[k + j]
    BY <1>0, <1>3, <2>4, SMTT(30) DEF Climbs
  <2>9. Climbs(b, g, k)
    BY <2>5, <2>6, <2>7, <2>8 DEF Climbs
  <2>. QED
    BY <2>3, <2>9, Zenon DEF b, g
<1>4. CASE c = DotDot /\ Len(a) = 0
  <2>. DEFINE b == SubSeq(a, 1, Len(a) - 1)
              g == Append(h, c)
  <2>1. h = <<>> \/ Last(h) = DotDot
    BY <1>0, <1>4 DEF Climbs, Last
  <2>2. WalkStep(a, c) = b /\ CleanStep(FALSE, h, c) = g
    BY <1>4, <2>1, WalkStepIs, RelativeStepIs, Zenon
  <2>3. Len(b) = 0
    BY <1>4
  <2>4. /\ Len(g) = Len(h) + 1 /\ g[Len(h) + 1] = c
        /\ \A j \in 1..Len(h) : g[j] = h[j]
    BY <1>0
  <2>. HIDE DEF b, g
  <2>5. Climbs(b, g, k + 1)
    BY <1>0, <1>4, <2>3, <2>4 DEF Climbs, Proper
  <2>. QED
    BY <2>2, <2>5, Zenon DEF b, g
<1>. QED
  BY <1>1, <1>2, <1>3, <1>4

\* The whole of a relative name: first ".." and then where a walk along it ends.
LEMMA CleanRelative ==
  ASSUME NEW n \in Seq(Component)
  PROVE  Clean(FALSE, n) \in Seq(Component) /\ \E k : Climbs(Walk(n), Clean(FALSE, n), k)
<1>1. PICK f : IsWalk(f, n) /\ Walk(n) = f[Len(n)]
  BY WalkRuns
<1>2. PICK g : IsClean(g, FALSE, n) /\ Clean(FALSE, n) = g[Len(n)]
  BY CleanRuns
<1>. DEFINE G == {i \in 0..Len(n) : \E k : Climbs(f[i], g[i], k)}
<1>3. Len(n) \in Nat
  OBVIOUS
<1>4. g \in [0..Len(n) -> Seq(Component)] /\ g[0] = <<>>
  BY <1>2, Zenon DEF IsClean
<1>5. 0 \in G
  <2>1. Climbs(<<>>, <<>>, 0)
    BY DEF Climbs, Proper
  <2>. QED
    BY <1>1, <1>4, <2>1 DEF IsWalk
<1>6. ASSUME NEW i \in 1..Len(n), i - 1 \in G PROVE i \in G
  <2>1. /\ n[i] \in Component /\ f[i - 1] \in Seq(Component) /\ g[i - 1] \in Seq(Component)
        /\ f[i] = WalkStep(f[i - 1], n[i])
    BY <1>1, <1>4, <1>6 DEF IsWalk
  <2>2. g[i] = CleanStep(FALSE, g[i - 1], n[i])
    BY <1>2, <1>6, Zenon DEF IsClean
  <2>3. PICK k : Climbs(f[i - 1], g[i - 1], k)
    BY <1>6
  <2>4. \E j : Climbs(f[i], g[i], j)
    BY <2>1, <2>2, <2>3, StepClimbs, ZenonT(30)
  <2>. QED
    BY <2>4
<1>7. \A i \in 0..Len(n) : i \in G
  <2>. HIDE DEF G
  <2>. QED
    BY <1>3, <1>5, <1>6, UpTo, Zenon
<1>8. (\E k : Climbs(f[Len(n)], g[Len(n)], k)) /\ g[Len(n)] \in Seq(Component)
  BY <1>3, <1>4, <1>7
<1>. QED
  BY <1>1, <1>2, <1>8, Zenon

\* Sequences of components are equal when their members are.
LEMMA SamePath ==
  ASSUME NEW S, NEW a \in Seq(S), NEW b \in Seq(S), Len(a) = Len(b),
         \A i \in 1..Len(a) : a[i] = b[i]
  PROVE  a = b
<1>. QED
  OBVIOUS

\* Who goes up from the data directory stays there: a name that goes up and then
\* along a leads to a.
LEMMA WalkClimbs ==
  ASSUME NEW a \in Seq(Component), NEW h \in Seq(Component), NEW k, Climbs(a, h, k)
  PROVE  Walk(h) = a
<1>1. PICK f : IsWalk(f, h) /\ Walk(h) = f[Len(h)]
  BY WalkRuns
<1>2. k \in 0..Len(h) /\ Len(a) = Len(h) - k /\ Len(a) \in Nat /\ Len(h) \in Nat
  BY DEF Climbs
<1>0. /\ f \in [0..Len(h) -> Seq(Component)]
      /\ \A i \in 1..Len(h) : f[i] = WalkStep(f[i - 1], h[i])
  BY <1>1, Zenon DEF IsWalk
<1>. DEFINE Far(i) == IF i <= k THEN 0 ELSE i - k
            G == {i \in 0..Len(h) : /\ Len(f[i]) = Far(i)
                                    /\ \A j \in 1..Far(i) : f[i][j] = a[j]}
<1>3. 0 \in G
  BY <1>1, <1>2 DEF IsWalk
<1>4. ASSUME NEW i \in 1..Len(h), i - 1 \in G PROVE i \in G
  <2>. DEFINE b == f[i - 1]
  <2>1. /\ h[i] \in Component /\ b \in Seq(Component)
        /\ f[i] = WalkStep(b, h[i])
    <3>. HIDE DEF G
    <3>1. i \in 0..Len(h) /\ i - 1 \in 0..Len(h) /\ h[i] \in Component
      BY <1>2
    <3>. QED
      BY <1>0, <3>1
  <2>2. Len(b) = Far(i - 1) /\ \A j \in 1..Far(i - 1) : b[j] = a[j]
    BY <1>4
  <2>. HIDE DEF b
  <2>3. CASE i <= k
    <3>1. h[i] = DotDot /\ Len(b) = 0
      BY <1>2, <2>2, <2>3 DEF Climbs
    <3>2. f[i] = SubSeq(b, 1, Len(b) - 1)
      BY <2>1, <3>1, WalkStepIs
    <3>3. Len(f[i]) = 0
      <4>1. b = <<>>
        BY <2>1, <3>1
      <4>. QED
        BY <3>2, <4>1
    <3>. QED
      BY <1>2, <2>3, <3>3
  <2>4. CASE i > k
    <3>1. i - k \in 1..Len(a) /\ Len(b) = i - k - 1 /\ Far(i) = i - k /\ i = k + (i - k)
      BY <1>2, <2>2, <2>4
    <3>2. h[i] = a[i - k]
      BY <3>1 DEF Climbs
    <3>3. h[i] \notin {Empty, Dot, DotDot}
      BY <3>1, <3>2 DEF Climbs, Proper
    <3>4. f[i] = Append(b, h[i])
      BY <2>1, <3>3, WalkStepIs
    <3>5. Len(f[i]) = i - k /\ \A j \in 1..(i - k) : f[i][j] = IF j = i - k THEN h[i] ELSE b[j]
      BY <2>1, <3>1, <3>4
    <3>6. ASSUME NEW j \in 1..(i - k) PROVE f[i][j] = a[j]
      BY <1>2, <2>2, <2>4, <3>1, <3>2, <3>5
    <3>. QED
      BY <3>1, <3>5, <3>6
  <2>. QED
    BY <1>2, <2>3, <2>4
<1>5. \A i \in 0..Len(h) : i \in G
  <2>. HIDE DEF G
  <2>. QED
    BY <1>2, <1>3, <1>4, UpTo, Zenon
<1>6. f[Len(h)] \in Seq(Component)
  BY <1>0, <1>2
<1>7. Len(h) \in G /\ Far(Len(h)) = Len(a)
  BY <1>2, <1>5
<1>8. Len(f[Len(h)]) = Len(a) /\ \A j \in 1..Len(a) : f[Len(h)][j] = a[j]
  BY <1>7
<1>9. f[Len(h)] = a
  BY <1>6, <1>8, SamePath
<1>. QED
  BY <1>1, <1>9

\* Dir.sanitize after filepath.Join gives where the joined name leads from the
\* data directory, or an error when that would hold a zero byte.
LEMMA SanitizeClean ==
  ASSUME NEW n \in Seq(Component), sanitize(Clean(FALSE, n)) # Failed
  PROVE  sanitize(Clean(FALSE, n)) = Walk(n) /\ Walk(n) \in Seq(Plain)
<1>. DEFINE h == Clean(FALSE, n)
            a == Walk(n)
<1>1. h \in Seq(Component) /\ \E k : Climbs(a, h, k)
  BY CleanRelative
<1>2. PICK k : Climbs(a, h, k)
  BY <1>1
<1>3. a \in Seq(Component) /\ Proper(a)
  BY CleanRooted
<1>4. Clean(TRUE, h) = Walk(h)
  BY <1>1, CleanRooted, Zenon
<1>. HIDE DEF h, a
<1>5. Walk(h) = a
  BY <1>1, <1>2, <1>3, WalkClimbs
<1>6. /\ ~\E i \in DOMAIN h : \E j \in DOMAIN h[i] : h[i][j] = Nul
      /\ sanitize(h) = Clean(TRUE, h)
  BY Zenon DEF sanitize, h
<1>7. ASSUME NEW i \in 1..Len(a) PROVE a[i] \in Plain
  <2>1. k + i \in DOMAIN h /\ a[i] = h[k + i] /\ a[i] \in Component
    BY <1>1, <1>2, <1>3 DEF Climbs
  <2>2. a[i] \notin {Empty, Dot, DotDot}
    BY <1>3 DEF Proper
  <2>3. \A j \in DOMAIN a[i] : a[i][j] # Nul
    BY <1>6, <2>1, Zenon
  <2>. QED
    BY <2>1, <2>2, <2>3 DEF Plain
<1>8. a \in Seq(Plain)
  BY <1>3, <1>7
<1>. QED
  BY <1>4, <1>5, <1>6, <1>8, Zenon DEF h, a

\* A name that leads to a path without zero bytes is accepted, whatever it goes
\* through.
LEMMA SanitizeAccepts ==
  ASSUME NEW n \in Seq(Component), Walk(n) \in Seq(Plain)
  PROVE  sanitize(Clean(FALSE, n)) = Walk(n)
<1>. DEFINE h == Clean(FALSE, n)
            a == Walk(n)
<1>1. h \in Seq(Component) /\ \E k : Climbs(a, h, k)
  BY CleanRelative
<1>2. PICK k : Climbs(a, h, k)
  BY <1>1
<1>3. a \in Seq(Component) /\ a \in Seq(Plain)
  BY CleanRooted
<1>4. Clean(TRUE, h) = Walk(h)
  BY <1>1, CleanRooted, Zenon
<1>. HIDE DEF h, a
<1>5. Walk(h) = a
  BY <1>1, <1>2, <1>3, WalkClimbs
<1>6. \A j \in DOMAIN DotDot : DotDot[j] # Nul
  <2>1. \A x : \A j \in DOMAIN <<x, x, x>> : <<x, x, x>>[j] = x
    OBVIOUS
  <2>2. "" # Nul
    BY NameAssumption
  <2>. QED
    BY <2>1, <2>2, Zenon DEF DotDot
<1>7. ASSUME NEW i \in DOMAIN h PROVE \A j \in DOMAIN h[i] : h[i][j] # Nul
  <2>1. CASE i <= k
    <3>1. h[i] = DotDot
      BY <1>1, <1>2, <2>1 DEF Climbs
    <3>. QED
      BY <1>6, <3>1
  <2>2. CASE i > k
    <3>1. i - k \in 1..Len(a) /\ i = k + (i - k)
      BY <1>1, <1>2, <2>2 DEF Climbs
    <3>2. h[i] = a[i - k] /\ a[i - k] \in Plain
      BY <1>2, <1>3, <3>1 DEF Climbs
    <3>. QED
      BY <3>2 DEF Plain
  <2>. QED
    BY <1>1, <1>2, <2>1, <2>2 DEF Climbs
<1>8. sanitize(h) = Clean(TRUE, h)
  BY <1>7, Zenon DEF sanitize
<1>. QED
  BY <1>4, <1>5, <1>8, Zenon DEF h, a

\* Of a name that is plain already nothing is changed.
LEMMA SanitizePlain ==
  ASSUME NEW p \in Seq(Plain)
  PROVE  p \in Seq(Component) /\ Walk(p) = p /\ sanitize(p) = p
<1>1. p \in Seq(Component) /\ Len(p) \in Nat /\ \A i \in 1..Len(p) : p[i] \in Plain
  BY DEF Plain
<1>2. Proper(p)
  BY <1>1 DEF Proper, Plain
<1>3. Climbs(p, p, 0)
  BY <1>1, <1>2 DEF Climbs
<1>4. Walk(p) = p
  BY <1>1, <1>3, WalkClimbs
<1>5. Clean(TRUE, p) = p
  BY <1>1, <1>4, CleanRooted, Zenon
<1>6. \A i \in DOMAIN p : \A j \in DOMAIN p[i] : p[i][j] # Nul
  BY <1>1 DEF Plain
<1>7. sanitize(p) = p
  BY <1>5, <1>6, Zenon DEF sanitize
<1>. QED
  BY <1>1, <1>4, <1>7

-----------------------------------------------------------------------------
(***************************************************************************)
(* The tree                                                                *)
(***************************************************************************)

\* A prefix is one member by member.
LEMMA PrefixPoints ==
  ASSUME NEW S, NEW p \in Seq(S), NEW q \in Seq(S)
  PROVE  IsPrefix(q, p) <=> Len(q) <= Len(p) /\ \A i \in 1..Len(q) : q[i] = p[i]
<1>1. Len(q) \in Nat /\ Len(p) \in Nat /\ Len(q) <= Len(q)
  OBVIOUS
<1>. DEFINE a == SubSeq(q, 1, Len(q))
            b == SubSeq(p, 1, Len(q))
<1>2. a \in Seq(S) /\ Len(a) = Len(q) /\ \A i \in 1..Len(q) : a[i] = q[i]
  BY <1>1, Beginning, Zenon
<1>3. ASSUME Len(q) <= Len(p)
      PROVE  b \in Seq(S) /\ Len(b) = Len(q) /\ \A i \in 1..Len(q) : b[i] = p[i]
  BY <1>1, <1>3, Beginning, Zenon
<1>4. IsPrefix(q, p) <=> Len(q) <= Len(p) /\ a = b
  BY Zenon DEF IsPrefix
<1>. HIDE DEF a, b
<1>5. CASE Len(q) <= Len(p)
  <2>1. ASSUME \A i \in 1..Len(q) : q[i] = p[i] PROVE a = b
    <3>1. \A i \in 1..Len(a) : a[i] = b[i]
      BY <1>2, <1>3, <1>5, <2>1
    <3>. QED
      BY <1>2, <1>3, <1>5, <3>1, SamePath
  <2>2. ASSUME a = b PROVE \A i \in 1..Len(q) : q[i] = p[i]
    BY <1>2, <1>3, <1>5, <2>2
  <2>. QED
    BY <1>4, <1>5, <2>1, <2>2
<1>6. CASE ~(Len(q) <= Len(p))
  BY <1>4, <1>6
<1>. QED
  BY <1>5, <1>6

\* The prefixes of a path are the paths that are prefixes of it.
LEMMA PrefixIs ==
  ASSUME NEW S, NEW p \in Seq(S), NEW q
  PROVE  q \in Prefixes(p) <=> q \in Seq(S) /\ IsPrefix(q, p)
<1>1. Len(p) \in Nat
  OBVIOUS
<1>2. ASSUME q \in Prefixes(p) PROVE q \in Seq(S) /\ IsPrefix(q, p)
  <2>1. PICK l \in 0..Len(p) : q = SubSeq(p, 1, l)
    BY <1>2 DEF Prefixes
  <2>2. l \in Nat /\ l <= Len(p)
    BY <1>1
  <2>3. q \in Seq(S) /\ Len(q) = l /\ \A i \in 1..l : q[i] = p[i]
    BY <2>1, <2>2, Beginning, Zenon
  <2>. QED
    BY <2>2, <2>3, PrefixPoints
<1>3. ASSUME q \in Seq(S), IsPrefix(q, p) PROVE q \in Prefixes(p)
  <2>1. Len(q) \in Nat /\ Len(q) <= Len(p) /\ \A i \in 1..Len(q) : q[i] = p[i]
    BY <1>3, PrefixPoints
  <2>. DEFINE b == SubSeq(p, 1, Len(q))
  <2>2. b \in Seq(S) /\ Len(b) = Len(q) /\ \A i \in 1..Len(q) : b[i] = p[i]
    BY <2>1, Beginning, Zenon
  <2>3. q = b
    <3>. HIDE DEF b
    <3>. QED
      BY <1>3, <2>1, <2>2, SamePath
  <2>4. Len(q) \in 0..Len(p)
    BY <1>1, <2>1
  <2>. QED
    BY <2>3, <2>4, Zenon DEF Prefixes
<1>. QED
  BY <1>2, <1>3

\* A prefix of a prefix is one, and a proper one if either is.
LEMMA PrefixTrans ==
  ASSUME NEW S, NEW p \in Seq(S), NEW q \in Prefixes(p), NEW r \in Prefixes(q)
  PROVE  r \in Prefixes(p) /\ (r = p => q = p)
<1>1. q \in Seq(S) /\ IsPrefix(q, p)
  BY PrefixIs
<1>2. r \in Seq(S) /\ IsPrefix(r, q)
  BY <1>1, PrefixIs
<1>3. /\ Len(q) <= Len(p) /\ \A i \in 1..Len(q) : q[i] = p[i]
      /\ Len(r) <= Len(q) /\ \A i \in 1..Len(r) : r[i] = q[i]
      /\ Len(p) \in Nat /\ Len(q) \in Nat /\ Len(r) \in Nat
  BY <1>1, <1>2, PrefixPoints
<1>4. Len(r) <= Len(p) /\ \A i \in 1..Len(r) : r[i] = p[i]
  BY <1>3
<1>5. r \in Prefixes(p)
  BY <1>2, <1>4, PrefixPoints, PrefixIs
<1>6. ASSUME r = p PROVE q = p
  <2>1. Len(q) = Len(p)
    BY <1>3, <1>6
  <2>. QED
    BY <1>1, <1>3, <2>1, SamePath
<1>. QED
  BY <1>5, <1>6

\* A path has finitely many prefixes, the root and itself among them.
LEMMA PrefixesOf ==
  ASSUME NEW S, NEW p \in Seq(S)
  PROVE  IsFiniteSet(Prefixes(p)) /\ <<>> \in Prefixes(p) /\ p \in Prefixes(p)
<1>1. Len(p) \in Nat /\ <<>> \in Seq(S) /\ Len(<<>>) = 0
  OBVIOUS
<1>2. <<>> \in Prefixes(p)
  <2>1. \A q : q = <<>> => Len(q) <= Len(p) /\ \A i \in 1..Len(q) : q[i] = p[i]
    BY <1>1
  <2>2. IsPrefix(<<>>, p)
    BY <1>1, <2>1, PrefixPoints, Zenon
  <2>. QED
    BY <1>1, <2>2, PrefixIs, Zenon
<1>3. p \in Prefixes(p)
  BY <1>1, PrefixPoints, PrefixIs
<1>. DEFINE D == 0..Len(p)
            f == [l \in D |-> SubSeq(p, 1, l)]
<1>4. IsFiniteSet(D)
  BY <1>1, FS_Interval
<1>5. f \in Surjection(D, Prefixes(p))
  BY DEF Prefixes, Surjection
<1>6. IsFiniteSet(Prefixes(p))
  <2>. HIDE DEF D, f
  <2>. QED
    BY <1>4, <1>5, FS_Surjection
<1>. QED
  BY <1>2, <1>3, <1>6

\* Every directory but the root was made for a file that is still there.
DirsUsed ==
  \A p \in subdirs : p = <<>> \/ \E q \in DOMAIN text : p \in Prefixes(q) /\ p # q

\* What every operation of the file store keeps: plain paths, no path that is a
\* file and a directory, a directory for every file and a file for every
\* directory, and that what was kept is what is there.
TreeInv ==
  /\ DOMAIN text \subseteq Seq(Plain) /\ subdirs \subseteq Seq(Plain)
  /\ IsFiniteSet(DOMAIN text) /\ IsFiniteSet(subdirs)
  /\ <<>> \in subdirs
  /\ \A p \in DOMAIN text : p \notin subdirs /\ Prefixes(p) \ {p} \subseteq subdirs
  /\ \A p \in subdirs : Prefixes(p) \subseteq subdirs
  /\ DirsUsed
  /\ text = kept

\* Writing adds one file.
LEMMA WithIs ==
  ASSUME NEW f, NEW p, NEW d
  PROVE  DOMAIN With(f, p, d) = DOMAIN f \cup {p}
<1>. QED
  BY DEF With

\* A file is written: what makes a tree of the tree stays.
LEMMA WriteKeeps ==
  ASSUME TreeInv, NEW p \in Seq(Plain), NEW d, Write(p, d), kept' = With(kept, p, d)
  PROVE  TreeInv'
<1>1. /\ p \notin subdirs /\ \A q \in DOMAIN text : ~IsStrictPrefix(q, p)
      /\ subdirs' = subdirs \cup (Prefixes(p) \ {p})
      /\ text' = With(text, p, d)
  BY DEF Write, Writable
<1>2. DOMAIN text' = DOMAIN text \cup {p}
  BY <1>1, WithIs
<1>3. \A q \in Prefixes(p) : q \in Seq(Plain) /\ IsPrefix(q, p)
  BY PrefixIs
<1>4. DOMAIN text' \subseteq Seq(Plain) /\ subdirs' \subseteq Seq(Plain)
  BY <1>1, <1>2, <1>3 DEF TreeInv
<1>5. IsFiniteSet(DOMAIN text') /\ IsFiniteSet(subdirs')
  <2>1. IsFiniteSet(Prefixes(p))
    BY PrefixesOf
  <2>2. IsFiniteSet(Prefixes(p) \ {p})
    BY <2>1, FS_RemoveElement
  <2>3. IsFiniteSet(subdirs')
    BY <1>1, <2>2, FS_Union DEF TreeInv
  <2>4. IsFiniteSet(DOMAIN text')
    <3>1. IsFiniteSet(DOMAIN text)
      BY DEF TreeInv
    <3>2. IsFiniteSet(DOMAIN text \cup {p})
      BY <3>1, FS_AddElement, Zenon
    <3>. QED
      BY <1>2, <3>2
  <2>. QED
    BY <2>3, <2>4
<1>6. <<>> \in subdirs'
  BY <1>1 DEF TreeInv
<1>7. ASSUME NEW q \in DOMAIN text' PROVE q \notin subdirs' /\ Prefixes(q) \ {q} \subseteq subdirs'
  <2>1. CASE q = p
    BY <1>1, <2>1
  <2>2. CASE q # p
    <3>1. q \in DOMAIN text /\ ~IsStrictPrefix(q, p)
      BY <1>1, <1>2, <2>2
    <3>2. q \notin Prefixes(p)
      BY <1>3, <2>2, <3>1 DEF IsStrictPrefix
    <3>. QED
      BY <1>1, <3>1, <3>2 DEF TreeInv
  <2>. QED
    BY <2>1, <2>2
<1>8. ASSUME NEW q \in subdirs' PROVE Prefixes(q) \subseteq subdirs'
  <2>1. CASE q \in subdirs
    BY <1>1, <2>1 DEF TreeInv
  <2>2. CASE q \in Prefixes(p) \ {p}
    <3>1. \A r \in Prefixes(q) : r \in Prefixes(p) /\ r # p
      BY <2>2, PrefixTrans
    <3>. QED
      BY <1>1, <3>1
  <2>. QED
    BY <1>1, <2>1, <2>2
<1>9. DirsUsed'
  BY <1>1, <1>2 DEF TreeInv, DirsUsed
<1>10. text' = kept'
  BY <1>1 DEF TreeInv
<1>. QED
  BY <1>4, <1>5, <1>6, <1>7, <1>8, <1>9, <1>10 DEF TreeInv

\* A put writes where its name leads, or nothing.
LEMMA writeFileKeeps ==
  ASSUME TreeInv, NEW dir, NEW name, dir \o name \in Seq(Component), NEW d,
         writeFile(dir, name, d)
  PROVE  TreeInv'
<1>. DEFINE p == sanitize(Join(dir, name))
<1>1. CASE ~Writable(p) /\ UNCHANGED treeVars
  BY <1>1 DEF treeVars, TreeInv, DirsUsed
<1>2. CASE Write(p, d) /\ kept' = With(kept, Walk(dir \o name), d)
  <2>1. p # Failed
    BY <1>2 DEF Write, Writable
  <2>2. p = Walk(dir \o name) /\ p \in Seq(Plain)
    BY <2>1, SanitizeClean, Zenon DEF Join
  <2>. HIDE DEF p
  <2>. QED
    BY <1>2, <2>2, WriteKeeps
<1>. QED
  BY <1>1, <1>2 DEF writeFile

\* An id with the extension is a name.
LEMMA WithJsonType ==
  ASSUME NEW n \in Name
  PROVE  WithJson(n) \in Name
<1>1. Len(n) \in Nat /\ Len(n) # 0
  BY DEF Name
<1>2. n[Len(n)] \in Component /\ n \in Seq(Component)
  BY <1>1 DEF Name
<1>3. "json" \in Part
  BY NameAssumption
<1>. DEFINE c == n[Len(n)]
            e == Append(c, "json")
<1>4. e \in Component
  <2>1. c \in Seq(Part)
    BY <1>2 DEF Component
  <2>2. e \in Seq(Part) /\ Len(e) = Len(c) + 1 /\ Len(c) \in Nat
    BY <1>3, <2>1
  <2>3. e # <<>>
    BY <2>2
  <2>. QED
    BY <2>2, <2>3 DEF Component
<1>. HIDE DEF e
<1>5. WithJson(n) = [n EXCEPT ![Len(n)] = e]
  BY DEF WithJson, e
<1>6. WithJson(n) \in Seq(Component) /\ Len(WithJson(n)) = Len(n)
  <2>1. n \in [1..Len(n) -> Component]
    BY <1>2
  <2>2. WithJson(n) \in [1..Len(n) -> Component]
    BY <1>4, <1>5, <2>1
  <2>3. \A m \in Nat : \A w \in [1..m -> Component] : w \in Seq(Component) /\ Len(w) = m
    OBVIOUS
  <2>. QED
    BY <1>1, <2>2, <2>3
<1>7. WithJson(n) # <<>>
  BY <1>1, <1>6
<1>. QED
  BY <1>6, <1>7 DEF Name

\* The directories of the store are plain paths.
LEMMA TopType ==
  ASSUME NEW dir \in {"groups", "profiles", "ignition", "cloud"}
  PROVE  /\ Top(dir) \in Seq(Plain)
         /\ \A n \in Seq(Component) : Top(dir) \o n \in Seq(Component)
<1>1. dir \in Part /\ dir # Nul /\ dir # ""
  BY NameAssumption
<1>2. <<dir>> \in Seq(Part) /\ Len(<<dir>>) = 1 /\ <<dir>>[1] = dir
  BY <1>1, Short
<1>3. \A a, b : Len(a) # Len(b) => a # b
  OBVIOUS
<1>4. Len(Dot) = 2 /\ Len(DotDot) = 3 /\ Len(<<>>) = 0
  BY DEF Dot, DotDot
<1>5. Len(<<dir>>) # Len(Dot) /\ Len(<<dir>>) # Len(DotDot) /\ Len(<<dir>>) # Len(<<>>)
  <2>1. 1 # 2 /\ 1 # 3 /\ 1 # 0
    OBVIOUS
  <2>. QED
    BY <1>2, <1>4, <2>1, Zenon
<1>6. <<dir>> # Dot /\ <<dir>> # DotDot /\ <<dir>> # <<>>
  BY <1>3, <1>5, Zenon
<1>7. <<dir>> # Empty
  BY <1>1 DEF Empty
<1>8. \A j \in DOMAIN <<dir>> : <<dir>>[j] # Nul
  <2>1. \A x : \A j \in DOMAIN <<x>> : <<x>>[j] = x
    OBVIOUS
  <2>. QED
    BY <1>1, <2>1, Zenon
<1>9. <<dir>> \in Plain
  BY <1>2, <1>6, <1>7, <1>8, Zenon DEF Plain, Component
<1>10. Top(dir) \in Seq(Plain) /\ Top(dir) \in Seq(Component)
  <2>1. <<dir>> \in Component
    BY <1>9 DEF Plain
  <2>. QED
    BY <1>9, <2>1, Short, Zenon DEF Top
<1>. QED
  BY <1>10

\* An empty data directory is a tree.
LEMMA InitTree == TreeInit => TreeInv
<1>. SUFFICES ASSUME TreeInit PROVE TreeInv
  OBVIOUS
<1>1. subdirs = {<<>>} /\ text = kept /\ DOMAIN text = {} /\ <<>> \in Seq(Plain)
  BY DEF TreeInit
<1>2. IsFiniteSet(DOMAIN text) /\ IsFiniteSet(subdirs)
  BY <1>1, FS_EmptySet, FS_Singleton
<1>3. Prefixes(<<>>) = {<<>>}
  <2>1. ASSUME NEW q \in Prefixes(<<>>) PROVE q = <<>>
    <3>1. q \in Seq(Plain) /\ IsPrefix(q, <<>>)
      BY <1>1, PrefixIs
    <3>2. Len(q) = 0
      BY <3>1 DEF IsPrefix
    <3>. QED
      BY <3>1, <3>2
  <2>2. <<>> \in Prefixes(<<>>)
    BY <1>1, PrefixesOf
  <2>. QED
    BY <2>1, <2>2
<1>. QED
  BY <1>1, <1>2, <1>3 DEF TreeInv, DirsUsed

\* Each put, and the administrator, keeps the tree.
LEMMA NextTree == TreeInv /\ [TreeNext]_treeVars => TreeInv'
<1>. SUFFICES ASSUME TreeInv, [TreeNext]_treeVars PROVE TreeInv'
  OBVIOUS
<1>0. \A n \in Name : n \in Seq(Component)
  BY DEF Name
<1>1. CASE GroupPut
  <2>1. PICK g \in GroupIn :
          writeFile(Top("groups"), WithJson(NameOf[g.id]), MarshalRichGroup(ToRichGroup(g)))
        /\ GroupAssertValid(g)
    BY <1>1 DEF GroupPut
  <2>2. g.id \in Id
    BY <2>1, NameAssumption DEF Group, GroupAssertValid
  <2>3. Top("groups") \o WithJson(NameOf[g.id]) \in Seq(Component)
    BY <1>0, <2>2, NameAssumption, WithJsonType, TopType
  <2>. QED
    BY <2>1, <2>3, writeFileKeeps
<1>2. CASE ProfilePut
  <2>1. PICK f \in ProfileIn : writeFile(Top("profiles"), WithJson(NameOf[f.id]), f)
                               /\ ProfileAssertValid(f)
    BY <1>2 DEF ProfilePut
  <2>2. f.id \in Id
    BY <2>1, NameAssumption DEF Profile, ProfileAssertValid
  <2>3. Top("profiles") \o WithJson(NameOf[f.id]) \in Seq(Component)
    BY <1>0, <2>2, NameAssumption, WithJsonType, TopType
  <2>. QED
    BY <2>1, <2>3, writeFileKeeps
<1>3. CASE IgnitionPut
  <2>1. PICK n \in TemplateIn, t \in Text : writeFile(Top("ignition"), n, t)
    BY <1>3 DEF IgnitionPut
  <2>2. Top("ignition") \o n \in Seq(Component)
    BY <1>0, NameAssumption, TopType
  <2>. QED
    BY <2>1, <2>2, writeFileKeeps
<1>4. CASE CloudPut
  <2>1. PICK n \in TemplateIn, t \in Text : writeFile(Top("cloud"), n, t)
    BY <1>4 DEF CloudPut
  <2>2. Top("cloud") \o n \in Seq(Component)
    BY <1>0, NameAssumption, TopType
  <2>. QED
    BY <2>1, <2>2, writeFileKeeps
<1>5. CASE LayOut
  <2>1. PICK h \in ByHand : Write(h.path, h.doc) /\ kept' = With(kept, h.path, h.doc)
    BY <1>5 DEF LayOut
  <2>2. h.path \in Seq(Plain)
    BY NameAssumption
  <2>. QED
    BY <2>1, <2>2, WriteKeeps
<1>6. CASE UNCHANGED treeVars
  BY <1>6 DEF treeVars, TreeInv, DirsUsed
<1>. QED
  BY <1>1, <1>2, <1>3, <1>4, <1>5, <1>6 DEF TreeNext

\* However names are spelled, the writeFile of fs.go and the puts of filestore.go
\* that call it keep the data directory a tree, in which each acknowledged
\* document is where its name leads.
THEOREM TreeInvariance == TreeSpec => []TreeInv
<1>. QED
  BY InitTree, NextTree, PTL DEF TreeSpec

\* Dir.sanitize restricts access to the data directory: whatever ids and template
\* names clients put, every file and every directory is below it at a path
\* without "..", and os.MkdirAll has made the directories of every file.
THEOREM TreeOKCorrect == TreeSpec => []TreeOK
<1>1. TreeInv => TreeOK
  <2>1. \A p \in Seq(Plain) : \A i \in DOMAIN p : p[i] \notin {Empty, Dot, DotDot}
    BY DEF Plain
  <2>. QED
    BY <2>1 DEF TreeInv, TreeOK
<1>. QED
  BY <1>1, TreeInvariance, PTL

\* A put that filestore.go acknowledged is found where its name leads until a put
\* of the same place: filepath.Join, Dir.sanitize and writeFile never let two
\* places meet nor one place split, and a failed put changes nothing.
THEOREM KeptReadableCorrect == TreeSpec => []KeptReadable
<1>1. TreeInv => KeptReadable
  BY DEF TreeInv, KeptReadable
<1>. QED
  BY <1>1, TreeInvariance, PTL

\* A sequence of what T has is one of T.
LEMMA Retyped ==
  ASSUME NEW S, NEW T, NEW a \in Seq(S), \A i \in 1..Len(a) : a[i] \in T
  PROVE  a \in Seq(T)
<1>. QED
  OBVIOUS

\* The members of a concatenation.
LEMMA Joined ==
  ASSUME NEW S, NEW a \in Seq(S), NEW b \in Seq(S)
  PROVE  /\ a \o b \in Seq(S) /\ Len(a \o b) = Len(a) + Len(b)
         /\ \A i \in 1..Len(a) : (a \o b)[i] = a[i]
         /\ \A i \in 1..Len(b) : (a \o b)[Len(a) + i] = b[i]
<1>. QED
  OBVIOUS

\* What keeps a file from being written directly below a directory.
LEMMA InTheWay ==
  ASSUME TreeInv, NEW dir \in Seq(Plain), Len(dir) = 1,
         NEW p \in Seq(Plain), Len(p) = 2, p[1] = dir[1], ~Writable(p)
  PROVE  dir \in DOMAIN kept \/ \E q \in DOMAIN kept : IsStrictPrefix(p, q)
<1>1. p # Failed
  BY SanitizePlain, NameAssumption
<1>2. p \in subdirs \/ \E q \in DOMAIN text : IsStrictPrefix(q, p)
  BY <1>1 DEF Writable
<1>3. ASSUME p \in subdirs PROVE \E q \in DOMAIN kept : IsStrictPrefix(p, q)
  <2>1. p # <<>>
    OBVIOUS
  <2>2. PICK q \in DOMAIN text : p \in Prefixes(q) /\ p # q
    BY <1>3, <2>1 DEF TreeInv, DirsUsed
  <2>3. q \in Seq(Plain) /\ q \in DOMAIN kept
    BY <2>2 DEF TreeInv
  <2>4. IsPrefix(p, q)
    BY <2>2, <2>3, PrefixIs
  <2>. QED
    BY <2>2, <2>3, <2>4 DEF IsStrictPrefix
<1>4. ASSUME NEW q \in DOMAIN text, IsStrictPrefix(q, p) PROVE dir \in DOMAIN kept
  <2>1. q \in Seq(Plain) /\ q \in DOMAIN kept /\ q \notin subdirs /\ <<>> \in subdirs
    BY DEF TreeInv
  <2>2. q # p /\ Len(q) <= Len(p) /\ \A i \in 1..Len(q) : q[i] = p[i]
    BY <1>4, <2>1, PrefixPoints DEF IsStrictPrefix
  <2>3. Len(q) \in Nat /\ Len(q) # 0
    BY <2>1
  <2>4. Len(q) # Len(p)
    BY <2>1, <2>2, SamePath, Zenon
  <2>5. Len(q) = 1
    <3>1. \A m \in Nat : m # 0 /\ m # 2 /\ m <= 2 => m = 1
      OBVIOUS
    <3>. QED
      BY <2>2, <2>3, <2>4, <3>1, Zenon
  <2>6. \A i \in 1..Len(q) : q[i] = dir[i]
    BY <2>2, <2>5
  <2>7. q = dir
    BY <2>1, <2>5, <2>6, SamePath
  <2>. QED
    BY <2>1, <2>7
<1>. QED
  BY <1>2, <1>3, <1>4

\* writeFile under a plain name fails only because of an acknowledged file: no
\* directory that os.MkdirAll left behind and no failed put is ever in the way.
THEOREM PlainPutsWorkCorrect == TreeSpec => []PlainPutsWork
<1>1. ASSUME TreeInv, NEW dir \in StoreDirs, NEW n \in Seq(Component),
             Len(n) = 1, n[1] \notin {Empty, Dot, DotDot},
             \A j \in DOMAIN n[1] : n[1][j] # Nul, ~Writable(sanitize(dir \o n))
      PROVE  dir \in DOMAIN kept \/ \E q \in DOMAIN kept : IsStrictPrefix(dir \o n, q)
  <2>. DEFINE p == dir \o n
  <2>1. n[1] \in Component
    BY <1>1
  <2>2. \A i \in 1..Len(n) : n[i] \in Plain
    BY <1>1, <2>1 DEF Plain
  <2>3. n \in Seq(Plain)
    BY <2>2, Retyped
  <2>4. PICK d \in {"groups", "profiles", "ignition", "cloud"} : dir = Top(d)
    BY DEF StoreDirs
  <2>5. dir \in Seq(Plain) /\ Len(dir) = 1
    <3>1. Len(Top(d)) = 1
      BY Short, Zenon DEF Top
    <3>. QED
      BY <2>4, <3>1, TopType
  <2>6. /\ p \in Seq(Plain) /\ Len(p) = Len(dir) + Len(n)
        /\ \A i \in 1..Len(dir) : p[i] = dir[i]
    BY <2>3, <2>5, Joined
  <2>. HIDE DEF p
  <2>7. Len(p) = 2 /\ p[1] = dir[1]
    BY <1>1, <2>5, <2>6
  <2>8. ~Writable(p)
    BY <1>1, <2>6, SanitizePlain DEF p
  <2>9. dir \in DOMAIN kept \/ \E q \in DOMAIN kept : IsStrictPrefix(p, q)
    BY <1>1, <2>5, <2>6, <2>7, <2>8, InTheWay
  <2>. QED
    BY <2>9 DEF p
<1>2. \A n \in TemplateIn \cup {WithJson(NameOf[i]) : i \in Id} : n \in Seq(Component)
  BY NameAssumption, WithJsonType DEF Name
<1>3. TreeInv => PlainPutsWork
  BY <1>1, <1>2, Zenon DEF PlainPutsWork
<1>. QED
  BY <1>3, TreeInvariance, PTL

-----------------------------------------------------------------------------
(***************************************************************************)
(* Lists                                                                   *)
(***************************************************************************)

\* A finite set is listed by a sequence of its members.
LEMMA SetToSeqLists ==
  ASSUME NEW S, IsFiniteSet(S)
  PROVE  /\ SetToSeq(S) \in Seq(S)
         /\ \A x \in S : \E i \in 1..Len(SetToSeq(S)) : SetToSeq(S)[i] = x
<1>. DEFINE n == Cardinality(S)
            s == SetToSeq(S)
<1>1. n \in Nat /\ ExistsBijection(1..n, S)
  BY FS_CardinalityType
<1>2. \E f \in [1..n -> S] : IsInjective(f)
  BY <1>1 DEF ExistsBijection, Bijection, Injection
<1>3. s \in [1..n -> S] /\ IsInjective(s)
  BY <1>2, Zenon DEF SetToSeq
<1>. HIDE DEF s
<1>4. s \in Injection(1..n, S)
  BY <1>3 DEF Injection
<1>5. IsFiniteSet(1..n) /\ Cardinality(1..n) = n
  <2>1. 1 \in Int /\ n \in Int
    BY <1>1
  <2>2. IsFiniteSet(1..n) /\ Cardinality(1..n) = IF 1 > n THEN 0 ELSE n - 1 + 1
    BY <2>1, FS_Interval, Zenon
  <2>. QED
    BY <1>1, <2>2
<1>6. s \in Surjection(1..n, S)
  BY <1>4, <1>5, FS_Injection, Zenon
<1>7. s \in Seq(S) /\ Len(s) = n
  BY <1>1, <1>3
<1>8. \A x \in S : \E i \in 1..n : s[i] = x
  BY <1>6 DEF Surjection
<1>. QED
  BY <1>7, <1>8 DEF s

\* The results of a loop that keeps what is no error.
LEMMA Collects ==
  ASSUME NEW N \in Nat, NEW R, NEW r \in [1..N -> R], NEW f,
         f \in [0..N -> Seq(R)], f[0] = <<>>,
         \A i \in 1..N : f[i] = IF r[i] = Failed THEN f[i - 1] ELSE Append(f[i - 1], r[i])
  PROVE  ToSet(f[N]) = {r[i] : i \in 1..N} \ {Failed}
<1>. DEFINE G == {k \in 0..N : ToSet(f[k]) = {r[i] : i \in 1..k} \ {Failed}}
<1>1. 0 \in G
  BY DEF ToSet
<1>2. ASSUME NEW k \in 1..N, k - 1 \in G PROVE k \in G
  <2>. DEFINE a == f[k - 1]
              b == f[k]
              c == r[k]
  <2>1. /\ a \in Seq(R) /\ c \in R
        /\ b = IF c = Failed THEN a ELSE Append(a, c)
        /\ ToSet(a) = {r[i] : i \in 1..(k - 1)} \ {Failed}
    BY <1>2
  <2>2. {r[i] : i \in 1..k} = {r[i] : i \in 1..(k - 1)} \cup {c}
    BY <1>2
  <2>. HIDE DEF a, b, c
  <2>3. ToSet(Append(a, c)) = ToSet(a) \cup {c}
    <3>1. /\ Len(Append(a, c)) = Len(a) + 1 /\ Len(a) \in Nat
          /\ DOMAIN Append(a, c) = 1..(Len(a) + 1) /\ DOMAIN a = 1..Len(a)
          /\ Append(a, c)[Len(a) + 1] = c
          /\ \A i \in 1..Len(a) : Append(a, c)[i] = a[i]
      BY <2>1
    <3>. DEFINE v == Append(a, c)
    <3>. HIDE DEF v
    <3>2. ToSet(v) = ToSet(a) \cup {c}
      <4>1. DOMAIN v = 1..(Len(a) + 1) /\ v[Len(a) + 1] = c /\ \A i \in 1..Len(a) : v[i] = a[i]
        BY <3>1 DEF v
      <4>2. ASSUME NEW i \in DOMAIN v PROVE v[i] \in ToSet(a) \cup {c}
        <5>1. CASE i = Len(a) + 1
          BY <4>1, <5>1
        <5>2. CASE i # Len(a) + 1
          <6>1. i \in 1..Len(a)
            BY <3>1, <4>1, <5>2
          <6>2. i \in DOMAIN a /\ v[i] = a[i]
            BY <3>1, <4>1, <6>1
          <6>. QED
            BY <6>2 DEF ToSet
        <5>. QED
          BY <5>1, <5>2
      <4>3. ASSUME NEW i \in DOMAIN a PROVE a[i] \in ToSet(v)
        <5>1. i \in DOMAIN v /\ v[i] = a[i]
          BY <3>1, <4>1
        <5>. QED
          BY <5>1 DEF ToSet
      <4>4. c \in ToSet(v)
        <5>1. Len(a) + 1 \in DOMAIN v
          BY <3>1, <4>1
        <5>. QED
          BY <4>1, <5>1 DEF ToSet
      <4>5. ToSet(v) \subseteq ToSet(a) \cup {c}
        BY <4>2 DEF ToSet
      <4>6. ToSet(a) \subseteq ToSet(v)
        BY <4>3, Zenon DEF ToSet
      <4>. QED
        BY <4>4, <4>5, <4>6
    <3>. QED
      BY <3>2 DEF v
  <2>4. ToSet(b) = {r[i] : i \in 1..k} \ {Failed}
    BY <2>1, <2>2, <2>3
  <2>5. k \in 0..N
    OBVIOUS
  <2>. QED
    BY <2>4, <2>5, Zenon DEF b
<1>3. \A k \in 0..N : k \in G
  <2>. HIDE DEF G
  <2>. QED
    BY <1>1, <1>2, UpTo, Zenon
<1>. QED
  BY <1>3

\* The file a list reads for entry e of directory dir.
FileOf(dir, e) == Top(dir) \o <<Append(TrimExt(e), "json")>>

\* The entries of a list that are read as themselves.
IsListed(dir, p) ==
  p # <<>> /\ Front(p) = Top(dir) /\ Len(Last(p)) > 1 /\ Last(Last(p)) = "json"

\* An entry's name without its extension and with ".json" is a plain name.
LEMMA JsonName ==
  ASSUME NEW e \in Plain
  PROVE  /\ TrimExt(e) \in Component
         /\ Append(TrimExt(e), "json") \in Plain
         /\ Len(Append(TrimExt(e), "json")) > 1 /\ Last(Append(TrimExt(e), "json")) = "json"
<1>. DEFINE t == TrimExt(e)
            c == Append(t, "json")
<1>1. e \in Seq(Part) /\ e # <<>> /\ \A j \in DOMAIN e : e[j] # Nul
  BY DEF Plain, Component
<1>2. "json" \in Part /\ "json" # Nul /\ "json" # ""
  BY NameAssumption
<1>3. Len(e) \in Nat /\ Len(e) # 0 /\ DOMAIN e = 1..Len(e)
  BY <1>1
<1>4. /\ t \in Seq(Part) /\ Len(t) \in Nat /\ Len(t) # 0
      /\ \A j \in 1..Len(t) : t[j] # Nul
  <2>1. CASE Len(e) > 1
    <3>1. t = SubSeq(e, 1, Len(e) - 1)
      BY <2>1 DEF TrimExt, Front
    <3>2. Len(e) - 1 \in Nat /\ Len(e) - 1 <= Len(e) /\ Len(e) - 1 # 0
      BY <1>3, <2>1, SMTT(30)
    <3>. HIDE DEF t
    <3>. DEFINE b == SubSeq(e, 1, Len(e) - 1)
    <3>3. /\ b \in Seq(Part) /\ Len(b) = Len(e) - 1 /\ \A i \in 1..(Len(e) - 1) : b[i] = e[i]
      BY <1>1, <3>2, Beginning, Zenon
    <3>. HIDE DEF b
    <3>4. t = b
      BY <3>1 DEF b
    <3>. QED
      BY <1>1, <1>3, <3>2, <3>3, <3>4
  <2>2. CASE ~(Len(e) > 1)
    <3>1. t = e
      BY <2>2 DEF TrimExt
    <3>. QED
      BY <1>1, <1>3, <3>1
  <2>. QED
    BY <2>1, <2>2
<1>. HIDE DEF t
<1>5. /\ c \in Seq(Part) /\ Len(c) = Len(t) + 1 /\ c[Len(t) + 1] = "json"
      /\ \A j \in 1..Len(t) : c[j] = t[j]
  BY <1>2, <1>4
<1>. HIDE DEF c
<1>6. Len(c) > 1 /\ Len(c) # 0 /\ Last(c) = "json"
  BY <1>4, <1>5 DEF Last
<1>7. Last(Empty) = "" /\ Last(Dot) = "" /\ Last(DotDot) = ""
  <2>1. Last(Empty) = ""
    BY DEF Empty, Last
  <2>2. Last(Dot) = ""
    BY DEF Dot, Last
  <2>3. Last(DotDot) = ""
    BY DEF DotDot, Last
  <2>. QED
    BY <2>1, <2>2, <2>3
<1>8. c # <<>> /\ c \notin {Empty, Dot, DotDot}
  <2>1. c # <<>>
    BY <1>6
  <2>. QED
    BY <1>2, <1>6, <1>7, <2>1, Zenon
<1>9. \A j \in DOMAIN c : c[j] # Nul
  BY <1>2, <1>4, <1>5
<1>10. t # <<>>
  BY <1>4
<1>. QED
  BY <1>4, <1>5, <1>6, <1>8, <1>9, <1>10 DEF c, t, Plain, Component

\* The file that is read for an entry is directly below the directory, with the
\* extension.
LEMMA FileOfPlain ==
  ASSUME NEW dir \in {"groups", "profiles", "ignition", "cloud"}, NEW e \in Plain
  PROVE  FileOf(dir, e) \in Seq(Plain) /\ IsListed(dir, FileOf(dir, e))
<1>. DEFINE c == Append(TrimExt(e), "json")
            p == FileOf(dir, e)
<1>1. c \in Plain /\ Len(c) > 1 /\ Last(c) = "json"
  BY JsonName
<1>2. Top(dir) \in Seq(Plain) /\ Len(Top(dir)) = 1
  <2>1. Len(Top(dir)) = 1
    BY Short, Zenon DEF Top
  <2>. QED
    BY <2>1, TopType
<1>. HIDE DEF c
<1>3. <<c>> \in Seq(Plain) /\ Len(<<c>>) = 1 /\ <<c>>[1] = c
  BY <1>1, Short
<1>4. /\ p \in Seq(Plain) /\ Len(p) = Len(Top(dir)) + Len(<<c>>)
      /\ \A i \in 1..Len(Top(dir)) : p[i] = Top(dir)[i]
      /\ \A i \in 1..Len(<<c>>) : p[Len(Top(dir)) + i] = <<c>>[i]
  <2>1. p = Top(dir) \o <<c>>
    BY Zenon DEF FileOf, c
  <2>. HIDE DEF p
  <2>. DEFINE a == Top(dir)
              b == <<c>>
  <2>2. a \in Seq(Plain) /\ b \in Seq(Plain) /\ p = a \o b
    BY <1>2, <1>3, <2>1
  <2>. HIDE DEF a, b
  <2>3. /\ p \in Seq(Plain) /\ Len(p) = Len(a) + Len(b)
        /\ \A i \in 1..Len(a) : p[i] = a[i]
        /\ \A i \in 1..Len(b) : p[Len(a) + i] = b[i]
    BY <2>2, Joined
  <2>. QED
    BY <2>3 DEF a, b
<1>. HIDE DEF p
<1>5. Len(p) = 2 /\ p[1] = Top(dir)[1] /\ p[2] = c
  BY <1>2, <1>3, <1>4
<1>6. Last(p) = c /\ p # <<>>
  BY <1>4, <1>5 DEF Last
<1>7. Front(p) = Top(dir)
  <2>1. Front(p) \in Seq(Plain) /\ Len(Front(p)) = 1 /\ Front(p)[1] = p[1]
    <3>1. 1 \in Nat /\ 1 <= Len(p) /\ Len(p) - 1 = 1
      BY <1>5
    <3>2. /\ SubSeq(p, 1, 1) \in Seq(Plain) /\ Len(SubSeq(p, 1, 1)) = 1
          /\ \A i \in 1..1 : SubSeq(p, 1, 1)[i] = p[i]
      BY <1>4, <3>1, Beginning, Zenon
    <3>3. Front(p) = SubSeq(p, 1, 1)
      BY <3>1, Zenon DEF Front
    <3>. QED
      BY <3>2, <3>3
  <2>2. \A i \in 1..Len(Front(p)) : Front(p)[i] = Top(dir)[i]
    BY <1>5, <2>1
  <2>. QED
    BY <1>2, <2>1, <2>2, SamePath
<1>. QED
  BY <1>1, <1>4, <1>6, <1>7 DEF IsListed, p

\* A file with the extension is the one that is read for its entry.
LEMMA ListedIs ==
  ASSUME NEW dir \in {"groups", "profiles", "ignition", "cloud"},
         NEW p \in Seq(Plain), IsListed(dir, p)
  PROVE  Last(p) \in Plain /\ FileOf(dir, Last(p)) = p
<1>. DEFINE e == Last(p)
            q == FileOf(dir, e)
<1>1. /\ p # <<>> /\ Front(p) = Top(dir) /\ Len(e) > 1 /\ Last(e) = "json"
  BY DEF IsListed
<1>2. Len(p) \in Nat /\ Len(p) # 0
  BY <1>1
<1>3. e \in Plain
  BY <1>2 DEF Last
<1>4. e \in Seq(Part) /\ Len(e) \in Nat
  BY <1>3 DEF Plain, Component
<1>. HIDE DEF e
<1>. DEFINE b == SubSeq(e, 1, Len(e) - 1)
            c == Append(b, "json")
<1>5. Len(e) - 1 \in Nat /\ Len(e) - 1 <= Len(e)
  BY <1>1, <1>4
<1>6. b \in Seq(Part) /\ Len(b) = Len(e) - 1 /\ \A i \in 1..(Len(e) - 1) : b[i] = e[i]
  BY <1>4, <1>5, Beginning, Zenon
<1>7. TrimExt(e) = b
  BY <1>1 DEF TrimExt, Front
<1>. HIDE DEF b
<1>8. c = e
  <2>1. "json" \in Part
    BY NameAssumption
  <2>2. /\ c \in Seq(Part) /\ Len(c) = Len(b) + 1 /\ c[Len(b) + 1] = "json"
        /\ \A i \in 1..Len(b) : c[i] = b[i]
    BY <1>6, <2>1
  <2>. HIDE DEF c
  <2>3. ASSUME NEW i \in 1..Len(c) PROVE c[i] = e[i]
    <3>1. CASE i = Len(e)
      BY <1>1, <1>4, <1>6, <2>2, <3>1 DEF Last
    <3>2. CASE i # Len(e)
      <4>1. i \in 1..(Len(e) - 1)
        BY <1>4, <1>6, <2>2, <3>2
      <4>. QED
        BY <1>6, <2>2, <4>1
    <3>. QED
      BY <3>1, <3>2
  <2>4. Len(c) = Len(e)
    BY <1>4, <1>6, <2>2
  <2>. QED
    BY <1>4, <2>2, <2>3, <2>4, SamePath
<1>9. q = Top(dir) \o <<e>>
  BY <1>7, <1>8, Zenon DEF FileOf
<1>10. Top(dir) \in Seq(Plain) /\ Len(Top(dir)) = 1
  <2>1. Len(Top(dir)) = 1
    BY Short, Zenon DEF Top
  <2>. QED
    BY <2>1, TopType
<1>11. <<e>> \in Seq(Plain) /\ Len(<<e>>) = 1 /\ <<e>>[1] = e
  BY <1>3, Short
<1>12. /\ q \in Seq(Plain) /\ Len(q) = Len(Top(dir)) + Len(<<e>>)
       /\ \A i \in 1..Len(Top(dir)) : q[i] = Top(dir)[i]
       /\ \A i \in 1..Len(<<e>>) : q[Len(Top(dir)) + i] = <<e>>[i]
  BY <1>9, <1>10, <1>11, Joined
<1>. HIDE DEF q
<1>13. Len(q) = 2 /\ q[1] = Top(dir)[1] /\ q[2] = e
  BY <1>10, <1>11, <1>12
<1>14. Len(p) = 2 /\ p[1] = Top(dir)[1] /\ p[2] = e
  <2>1. Len(p) - 1 \in Nat /\ Len(p) - 1 <= Len(p)
    BY <1>2
  <2>2. Len(Front(p)) = Len(p) - 1 /\ \A i \in 1..(Len(p) - 1) : Front(p)[i] = p[i]
    BY <2>1, Beginning, Zenon DEF Front
  <2>3. Len(p) = 2
    <3>1. Len(p) - 1 = 1
      BY <1>1, <1>10, <2>2, Zenon
    <3>. QED
      BY <1>2, <3>1
  <2>4. p[1] = Top(dir)[1]
    BY <1>1, <2>2, <2>3
  <2>. QED
    BY <2>3, <2>4 DEF e, Last
<1>15. \A i \in 1..Len(p) : p[i] = q[i]
  BY <1>13, <1>14
<1>16. p = q
  BY <1>12, <1>13, <1>14, <1>15, SamePath
<1>. QED
  BY <1>3, <1>16 DEF q, e

\* What a list reads for entry e of directory dir.
ReadFor(dir, e) == readFile(Join(Top(dir), WithJson(<<TrimExt(e)>>)))

\* A list reads the file that FileOf names.
LEMMA ReadForIs ==
  ASSUME NEW dir \in {"groups", "profiles", "ignition", "cloud"}, NEW e \in Plain
  PROVE  ReadFor(dir, e) =
           IF FileOf(dir, e) \in DOMAIN text THEN text[FileOf(dir, e)] ELSE Failed
<1>. DEFINE t == TrimExt(e)
            n == WithJson(<<t>>)
            p == FileOf(dir, e)
<1>1. t \in Component
  BY JsonName
<1>2. p \in Seq(Plain)
  BY FileOfPlain
<1>. HIDE DEF t
<1>3. n = <<Append(t, "json")>>
  <2>1. Len(<<t>>) = 1 /\ <<t>>[1] = t
    OBVIOUS
  <2>2. n = [<<t>> EXCEPT ![1] = Append(<<t>>[1], "json")]
    BY <2>1, Zenon DEF WithJson
  <2>3. \A x : [<<t>> EXCEPT ![1] = x] = <<x>>
    OBVIOUS
  <2>. QED
    BY <2>1, <2>2, <2>3, Zenon
<1>4. Top(dir) \o n = p
  BY <1>3, Zenon DEF FileOf, t
<1>. HIDE DEF p, n
<1>5. p \in Seq(Component) /\ Walk(p) = p
  BY <1>2, SanitizePlain
<1>6. sanitize(Join(Top(dir), n)) = p
  <2>1. sanitize(Clean(FALSE, p)) = p
    BY <1>2, <1>5, SanitizeAccepts, Zenon
  <2>. QED
    BY <1>4, <2>1, Zenon DEF Join
<1>7. p # Failed
  BY <1>5, NameAssumption
<1>. QED
  BY <1>6, <1>7, Zenon DEF ReadFor, readFile, n, t, p

\* The entries of a directory are finitely many plain names; what is read for
\* one is a file with the extension or an error, and each such file is read.
LEMMA EntriesRead ==
  ASSUME TreeInv, NEW dir \in {"groups", "profiles", "ignition", "cloud"}
  PROVE  /\ IsFiniteSet(readDir(Top(dir)))
         /\ \A e \in readDir(Top(dir)) :
              \/ ReadFor(dir, e) = Failed
              \/ \E p \in DOMAIN text : IsListed(dir, p) /\ ReadFor(dir, e) = text[p]
         /\ \A p \in DOMAIN text : IsListed(dir, p) =>
              \E e \in readDir(Top(dir)) : ReadFor(dir, e) = text[p]
<1>. DEFINE Q == {q \in DOMAIN text \cup subdirs : q # <<>> /\ Front(q) = Top(dir)}
            last == [q \in Q |-> Last(q)]
<1>1. DOMAIN text \subseteq Seq(Plain) /\ Q \subseteq Seq(Plain)
  BY DEF TreeInv
<1>2. readDir(Top(dir)) = {Last(q) : q \in Q}
  BY DEF readDir
<1>3. \A q \in Q : Last(q) \in Plain
  <2>1. ASSUME NEW q \in Seq(Plain), q # <<>> PROVE Last(q) \in Plain
    BY <2>1 DEF Last
  <2>. QED
    BY <1>1, <2>1
<1>4. IsFiniteSet(readDir(Top(dir)))
  <2>1. IsFiniteSet(DOMAIN text \cup subdirs)
    BY FS_Union DEF TreeInv
  <2>2. Q \subseteq DOMAIN text \cup subdirs
    OBVIOUS
  <2>3. IsFiniteSet(Q)
    <3>. HIDE DEF Q
    <3>. QED
      BY <2>1, <2>2, FS_Subset, Zenon
  <2>4. last \in Surjection(Q, readDir(Top(dir)))
    <3>. HIDE DEF Q
    <3>. QED
      BY <1>2 DEF Surjection
  <2>. HIDE DEF last, Q
  <2>. QED
    BY <2>3, <2>4, FS_Surjection, Zenon
<1>5. ASSUME NEW e \in readDir(Top(dir)), ReadFor(dir, e) # Failed
      PROVE  \E p \in DOMAIN text : IsListed(dir, p) /\ ReadFor(dir, e) = text[p]
  <2>1. e \in Plain
    <3>. HIDE DEF Q
    <3>. QED
      BY <1>2, <1>3
  <2>2. FileOf(dir, e) \in DOMAIN text /\ ReadFor(dir, e) = text[FileOf(dir, e)]
    BY <1>5, <2>1, ReadForIs
  <2>3. IsListed(dir, FileOf(dir, e))
    BY <2>1, FileOfPlain
  <2>. QED
    BY <2>2, <2>3
<1>6. ASSUME NEW p \in DOMAIN text, IsListed(dir, p)
      PROVE  \E e \in readDir(Top(dir)) : ReadFor(dir, e) = text[p]
  <2>1. p \in Q
    BY <1>6 DEF IsListed
  <2>2. Last(p) \in readDir(Top(dir))
    <3>. HIDE DEF Q
    <3>. QED
      BY <1>2, <2>1
  <2>3. Last(p) \in Plain /\ FileOf(dir, Last(p)) = p
    BY <1>1, <1>6, ListedIs
  <2>4. ReadFor(dir, Last(p)) = text[p]
    BY <2>3, ReadForIs
  <2>. QED
    BY <2>2, <2>4
<1>. QED
  BY <1>4, <1>5, <1>6, Zenon

\* One round of the loop of a list: what is no error is kept.
Keeps(a, x) == IF x = Failed THEN a ELSE Append(a, x)

\* f is the loop of a list over the results r.
IsLoop(f, N, r) == f = [i \in 0..N |-> IF i = 0 THEN <<>> ELSE Keeps(f[i - 1], r[i])]

\* The loop over r comes to an end, with the members of T that are no error.
LoopGives(N, r, R, T) ==
  /\ \E f : IsLoop(f, N, r)
  /\ \A f : IsLoop(f, N, r) => f[N] \in Seq(R \ {Failed}) /\ ToSet(f[N]) = T \ {Failed}

\* Whatever is looped over, the loop ends and keeps what is no error.
LEMMA LoopEnds ==
  ASSUME NEW N \in Nat, NEW R, NEW r \in [1..N -> R \cup {Failed}],
         NEW T, T = {r[i] : i \in 1..N}
  PROVE  LoopGives(N, r, R, T)
<1>. DEFINE S == Seq(R \ {Failed})
            step == [i \in 1..N |-> [a \in S |-> Keeps(a, r[i])]]
<1>1. ASSUME NEW i \in 1..N, NEW a \in S PROVE Keeps(a, r[i]) \in S
  <2>1. CASE r[i] = Failed
    BY <2>1 DEF Keeps
  <2>2. CASE r[i] # Failed
    <3>1. r[i] \in R \ {Failed}
      BY <2>2
    <3>. QED
      BY <2>2, <3>1 DEF Keeps
  <2>. QED
    BY <2>1, <2>2
<1>2. <<>> \in S
  OBVIOUS
<1>3. step \in [1..N -> [S -> S]] /\ \A i \in 1..N, a \in S : step[i][a] = Keeps(a, r[i])
  BY <1>1
<1>. HIDE DEF step, S
<1>4. PICK f : Runs(f, N, S, <<>>, step)
  BY <1>2, <1>3, RunExists
<1>5. f \in [0..N -> S] /\ f[0] = <<>> /\ \A i \in 1..N : f[i] = Keeps(f[i - 1], r[i])
  BY <1>3, <1>4 DEF Runs
<1>6. IsLoop(f, N, r)
  BY <1>5 DEF IsLoop
<1>7. ToSet(f[N]) = {r[i] : i \in 1..N} \ {Failed}
  <2>1. \A q \in S : q \in Seq(R \cup {Failed})
    BY DEF S
  <2>2. f \in [0..N -> Seq(R \cup {Failed})]
    BY <1>5, <2>1
  <2>. QED
    BY <1>5, <2>2, Collects DEF Keeps
<1>8. ASSUME NEW at, IsLoop(at, N, r)
      PROVE  at[N] \in S /\ ToSet(at[N]) = {r[i] : i \in 1..N} \ {Failed}
  <2>1. at[0] = <<>> /\ \A i \in 1..N : at[i - 1] \in S => at[i] = step[i][at[i - 1]]
    BY <1>3, <1>8 DEF IsLoop
  <2>2. \A i \in 0..N : at[i] = f[i]
    BY <1>4, <2>1, RunUnique
  <2>3. at[N] = f[N]
    BY <2>2
  <2>. QED
    BY <1>5, <1>7, <2>3
<1>. QED
  BY <1>6, <1>8, Zenon DEF S, LoopGives

\* The loop over the entries of a directory.
LEMMA LoopOver ==
  ASSUME NEW S, IsFiniteSet(S), NEW R, NEW r \in [S -> R \cup {Failed}],
         NEW s, s = SetToSeq(S), NEW w, w = [i \in 1..Len(s) |-> r[s[i]]]
  PROVE  LoopGives(Len(s), w, R, {r[e] : e \in S})
<1>1. s \in Seq(S) /\ Len(s) \in Nat /\ \A x \in S : \E i \in 1..Len(s) : s[i] = x
  BY SetToSeqLists
<1>2. \A i \in 1..Len(s) : s[i] \in S
  BY <1>1
<1>3. w \in [1..Len(s) -> R \cup {Failed}] /\ \A i \in 1..Len(s) : w[i] = r[s[i]]
  BY <1>2
<1>4. {r[e] : e \in S} = {w[i] : i \in 1..Len(s)}
  BY <1>1, <1>2, <1>3
<1>. QED
  BY <1>1, <1>3, <1>4, LoopEnds

\* The groups of the files with the extension, without those that do not parse.
LEMMA GroupListIs ==
  ASSUME TreeInv, GroupList # Failed
  PROVE  /\ GroupList \in Seq(Group)
         /\ ToSet(GroupList) =
              {ParseGroup(text[p]) : p \in {p \in DOMAIN text : IsListed("groups", p)}} \ {Failed}
<1>. DEFINE S == readDir(Top("groups"))
            r == [e \in S |-> ParseGroup(ReadFor("groups", e))]
            s == SetToSeq(S)
            w == [i \in 1..Len(s) |-> r[s[i]]]
<1>1. Top("groups") \in subdirs
  BY DEF GroupList, List
<1>2. \A d : ParseGroup(d) \in Group \cup {Failed}
  BY ParseGroupType
<1>3. r \in [S -> Group \cup {Failed}] /\ \A e \in S : r[e] = ParseGroup(ReadFor("groups", e))
  BY <1>2
<1>4. IsFiniteSet(S)
  BY EntriesRead
<1>5. s \in Seq(S) /\ Len(s) \in Nat /\ \A i \in 1..Len(s) : s[i] \in S
  BY <1>4, SetToSeqLists
<1>. DEFINE got[i \in 0..Len(s)] ==
              IF i = 0 THEN <<>>
              ELSE LET x == GroupGet(<<TrimExt(s[i])>>)
                   IN  IF x = Failed THEN got[i - 1] ELSE Append(got[i - 1], x)
<1>6. GroupList = got[Len(s)]
  BY <1>1, Zenon DEF GroupList, List
<1>7. ASSUME NEW f
      PROVE  IsLoop(f, Len(s), w) <=>
               f = [i \in 0..Len(s) |->
                      IF i = 0 THEN <<>>
                      ELSE LET x == GroupGet(<<TrimExt(s[i])>>)
                           IN  IF x = Failed THEN f[i - 1] ELSE Append(f[i - 1], x)]
  <2>1. \A e \in S : r[e] = GroupGet(<<TrimExt(e)>>)
    BY Zenon DEF GroupGet, ReadFor
  <2>. HIDE DEF r, s, S
  <2>2. \A i \in 0..Len(s) : i # 0 => w[i] = GroupGet(<<TrimExt(s[i])>>)
    BY <1>5, <2>1
  <2>. HIDE DEF w
  <2>3. ASSUME NEW i \in 0..Len(s)
        PROVE  (IF i = 0 THEN <<>> ELSE Keeps(f[i - 1], w[i])) =
               IF i = 0 THEN <<>>
               ELSE LET x == GroupGet(<<TrimExt(s[i])>>)
                    IN  IF x = Failed THEN f[i - 1] ELSE Append(f[i - 1], x)
    BY <2>2, Zenon DEF Keeps
  <2>. QED
    BY <2>3, Zenon DEF IsLoop
<1>8. LoopGives(Len(s), w, Group, {r[e] : e \in S})
  <2>1. s = SetToSeq(S) /\ w = [i \in 1..Len(s) |-> r[s[i]]]
    OBVIOUS
  <2>. HIDE DEF r, w, s, S
  <2>. QED
    BY <1>3, <1>4, <2>1, LoopOver
<1>9. IsLoop(got, Len(s), w)
  <2>. HIDE DEF r, w, s, S
  <2>. QED
    BY <1>7, <1>8, Zenon DEF LoopGives
<1>10. GroupList \in Seq(Group \ {Failed}) /\ ToSet(GroupList) = {r[e] : e \in S} \ {Failed}
  <2>. HIDE DEF got, r, w, s, S
  <2>. QED
    BY <1>6, <1>8, <1>9, Zenon DEF LoopGives
<1>11. GroupList \in Seq(Group)
  BY <1>10, FailedAssumption
<1>12. {r[e] : e \in S} \ {Failed} =
        {ParseGroup(text[p]) : p \in {p \in DOMAIN text : IsListed("groups", p)}} \ {Failed}
  <2>1. ParseGroup(Failed) = Failed
    BY FailedAssumption DEF ParseGroup, UnmarshalRichGroup
  <2>2. /\ \A e \in S : \/ ReadFor("groups", e) = Failed
                        \/ \E p \in DOMAIN text : IsListed("groups", p) /\ ReadFor("groups", e) = text[p]
        /\ \A p \in DOMAIN text : IsListed("groups", p) =>
             \E e \in S : ReadFor("groups", e) = text[p]
    BY EntriesRead
  <2>. HIDE DEF r, S
  <2>3. ASSUME NEW e \in S, r[e] # Failed
        PROVE  \E p \in {p \in DOMAIN text : IsListed("groups", p)} : r[e] = ParseGroup(text[p])
    BY <1>3, <2>1, <2>2, <2>3
  <2>4. ASSUME NEW p \in DOMAIN text, IsListed("groups", p)
        PROVE  \E e \in S : r[e] = ParseGroup(text[p])
    BY <1>3, <2>2, <2>4
  <2>. QED
    BY <2>3, <2>4, Zenon
<1>. QED
  BY <1>10, <1>11, <1>12, Zenon

\* The profiles of the files with the extension, likewise.
LEMMA ProfileListIs ==
  ASSUME TreeInv, ProfileList # Failed
  PROVE  /\ ProfileList \in Seq(Profile)
         /\ ToSet(ProfileList) =
              {ParseProfile(text[p]) : p \in {p \in DOMAIN text : IsListed("profiles", p)}} \ {Failed}
<1>. DEFINE S == readDir(Top("profiles"))
            r == [e \in S |-> ParseProfile(ReadFor("profiles", e))]
            s == SetToSeq(S)
            w == [i \in 1..Len(s) |-> r[s[i]]]
<1>1. Top("profiles") \in subdirs
  BY DEF ProfileList, List
<1>2. \A d : ParseProfile(d) \in Profile \cup {Failed}
  BY ParseProfileType
<1>3. r \in [S -> Profile \cup {Failed}] /\ \A e \in S : r[e] = ParseProfile(ReadFor("profiles", e))
  BY <1>2
<1>4. IsFiniteSet(S)
  BY EntriesRead
<1>5. s \in Seq(S) /\ Len(s) \in Nat /\ \A i \in 1..Len(s) : s[i] \in S
  BY <1>4, SetToSeqLists
<1>. DEFINE got[i \in 0..Len(s)] ==
              IF i = 0 THEN <<>>
              ELSE LET x == ProfileGet(<<TrimExt(s[i])>>)
                   IN  IF x = Failed THEN got[i - 1] ELSE Append(got[i - 1], x)
<1>6. ProfileList = got[Len(s)]
  BY <1>1, Zenon DEF ProfileList, List
<1>7. ASSUME NEW f
      PROVE  IsLoop(f, Len(s), w) <=>
               f = [i \in 0..Len(s) |->
                      IF i = 0 THEN <<>>
                      ELSE LET x == ProfileGet(<<TrimExt(s[i])>>)
                           IN  IF x = Failed THEN f[i - 1] ELSE Append(f[i - 1], x)]
  <2>1. \A e \in S : r[e] = ProfileGet(<<TrimExt(e)>>)
    BY Zenon DEF ProfileGet, ReadFor, ParseProfile
  <2>. HIDE DEF r, s, S
  <2>2. \A i \in 0..Len(s) : i # 0 => w[i] = ProfileGet(<<TrimExt(s[i])>>)
    BY <1>5, <2>1
  <2>. HIDE DEF w
  <2>3. ASSUME NEW i \in 0..Len(s)
        PROVE  (IF i = 0 THEN <<>> ELSE Keeps(f[i - 1], w[i])) =
               IF i = 0 THEN <<>>
               ELSE LET x == ProfileGet(<<TrimExt(s[i])>>)
                    IN  IF x = Failed THEN f[i - 1] ELSE Append(f[i - 1], x)
    BY <2>2, Zenon DEF Keeps
  <2>. QED
    BY <2>3, Zenon DEF IsLoop
<1>8. LoopGives(Len(s), w, Profile, {r[e] : e \in S})
  <2>1. s = SetToSeq(S) /\ w = [i \in 1..Len(s) |-> r[s[i]]]
    OBVIOUS
  <2>. HIDE DEF r, w, s, S
  <2>. QED
    BY <1>3, <1>4, <2>1, LoopOver
<1>9. IsLoop(got, Len(s), w)
  <2>. HIDE DEF r, w, s, S
  <2>. QED
    BY <1>7, <1>8, Zenon DEF LoopGives
<1>10. ProfileList \in Seq(Profile \ {Failed}) /\ ToSet(ProfileList) = {r[e] : e \in S} \ {Failed}
  <2>. HIDE DEF got, r, w, s, S
  <2>. QED
    BY <1>6, <1>8, <1>9, Zenon DEF LoopGives
<1>11. ProfileList \in Seq(Profile)
  BY <1>10, FailedAssumption
<1>12. {r[e] : e \in S} \ {Failed} =
        {ParseProfile(text[p]) : p \in {p \in DOMAIN text : IsListed("profiles", p)}} \ {Failed}
  <2>1. ParseProfile(Failed) = Failed
    BY FailedAssumption DEF ParseProfile, UnmarshalProfile
  <2>2. /\ \A e \in S : \/ ReadFor("profiles", e) = Failed
                        \/ \E p \in DOMAIN text : IsListed("profiles", p) /\ ReadFor("profiles", e) = text[p]
        /\ \A p \in DOMAIN text : IsListed("profiles", p) =>
             \E e \in S : ReadFor("profiles", e) = text[p]
    BY EntriesRead
  <2>. HIDE DEF r, S
  <2>3. ASSUME NEW e \in S, r[e] # Failed
        PROVE  \E p \in {p \in DOMAIN text : IsListed("profiles", p)} : r[e] = ParseProfile(text[p])
    BY <1>3, <2>1, <2>2, <2>3
  <2>4. ASSUME NEW p \in DOMAIN text, IsListed("profiles", p)
        PROVE  \E e \in S : r[e] = ParseProfile(text[p])
    BY <1>3, <2>2, <2>4
  <2>. QED
    BY <2>3, <2>4, Zenon
<1>. QED
  BY <1>10, <1>11, <1>12, Zenon

\* In every reachable state of the tree, GroupList and ProfileList of
\* filestore.go, which take an entry's name, cut its extension and add ".json"
\* again before they read, return the documents of the files with the extension
\* that parse, and no others.
THEOREM ListCompleteCorrect == TreeSpec => []ListComplete
<1>1. TreeInv => ListComplete
  <2>. SUFFICES ASSUME TreeInv PROVE ListComplete
    OBVIOUS
  <2>1. text = kept
    BY DEF TreeInv
  <2>2. GroupList # Failed => ToSet(GroupList) =
          {ParseGroup(kept[p]) : p \in {p \in DOMAIN kept : IsListed("groups", p)}} \ {Failed}
    BY <2>1, GroupListIs, Zenon
  <2>3. ProfileList # Failed => ToSet(ProfileList) =
          {ParseProfile(kept[p]) : p \in {p \in DOMAIN kept : IsListed("profiles", p)}} \ {Failed}
    BY <2>1, ProfileListIs, Zenon
  <2>. QED
    BY <2>2, <2>3, Zenon DEF ListComplete, IsListed, ParseProfile
<1>. QED
  BY <1>1, TreeInvariance, PTL

-----------------------------------------------------------------------------
(***************************************************************************)
(* The group of a machine                                                  *)
(***************************************************************************)

\* SelectGroup is given groups.
LEMMA GroupsType == TreeInv => Groups \in Seq(Group)
<1>1. <<>> \in Seq(Group)
  OBVIOUS
<1>. QED
  BY <1>1, GroupListIs, Zenon DEF Groups

\* Another machine asks: the tree is what it was.
LEMMA SelectionTree == SelectionSpec => []TreeInv
<1>1. SelectionInit => TreeInv
  BY InitTree DEF SelectionInit
<1>2. TreeInv /\ [SelectionNext]_selectionVars => TreeInv'
  <2>1. [SelectionNext]_selectionVars => [TreeNext]_treeVars
    BY DEF SelectionNext, AnotherMachine, selectionVars
  <2>. QED
    BY <2>1, NextTree
<1>. QED
  BY <1>1, <1>2, PTL DEF SelectionSpec

\* However the data directory was filled and whatever a machine sends, the
\* SelectGroup of server.go has an answer: a group of the directory that matches
\* and that no matching group outranks, or ErrNoMatchingGroup when none matches.
THEOREM SelectionCorrectAlways == SelectionSpec => []SelectionCorrect
<1>1. TreeInv => SelectionCorrect
  BY GroupsType, SelectionTotal DEF SelectionCorrect
<1>. QED
  BY <1>1, SelectionTree, PTL

\* The answer depends neither on the order of the directory nor on what
\* sort.Sort does with ties, unless two groups' selectors have the same text.
THEOREM SelectionDeterministicAlways == SelectionSpec => []SelectionDeterministic
<1>1. TreeInv => SelectionDeterministic
  BY GroupsType, SelectionUnique DEF SelectionDeterministic
<1>. QED
  BY <1>1, SelectionTree, PTL

=============================================================================
