--------------------------- MODULE SelectionProofs ---------------------------
(***************************************************************************)
(* Proofs about Selection, for every list of groups and every labels.      *)
(***************************************************************************)
EXTENDS Selection, FiniteSetTheorems, WellFoundedInduction, TLAPS

\* Normalize keeps a group a group.
LEMMA NormalizeType ==
  ASSUME NEW g \in Group
  PROVE  Normalize(g) \in Group \cup {Failed}
<1>. DEFINE K == DOMAIN g.selector
            norm == [k \in K |->
                       IF k \in MacKey THEN ParseMAC[g.selector[k]] ELSE g.selector[k]]
<1>1. PICK D \in SUBSET Key : g.selector \in [D -> Value]
  BY DEF Group, Selector
<1>2. CASE \E k \in K \cap MacKey : ParseMAC[g.selector[k]] = NoMac
  BY <1>2 DEF Normalize
<1>3. CASE ~\E k \in K \cap MacKey : ParseMAC[g.selector[k]] = NoMac
  <2>1. norm \in [D -> Value]
    BY <1>1, <1>3, SelectorAssumption
  <2>2. norm \in Selector
    BY <2>1 DEF Selector
  <2>3. Normalize(g) = [g EXCEPT !.selector = norm]
    BY <1>3 DEF Normalize
  <2>. QED
    BY <2>2, <2>3 DEF Group
<1>. QED
  BY <1>2, <1>3

\* Whatever JSON object is decoded, a rich group comes out.
LEMMA UnmarshalRichGroupType ==
  ASSUME NEW d
  PROVE  UnmarshalRichGroup(d) \in RichGroup \cup {Failed}
<1>1. [k \in {} |-> EmptyValue] \in Selector
  <2>1. [k \in {} |-> EmptyValue] \in [{} -> Value] /\ {} \in SUBSET Key
    OBVIOUS
  <2>. QED
    BY <2>1 DEF Selector
<1>. QED
  BY <1>1 DEF UnmarshalRichGroup, RichGroup, Profile

\* Parsing gives a group or an error, whatever kind of document is parsed.
LEMMA ParseGroupType ==
  ASSUME NEW d
  PROVE  ParseGroup(d) \in Group \cup {Failed}
<1>1. UnmarshalRichGroup(d) \in RichGroup \cup {Failed}
  BY UnmarshalRichGroupType
<1>2. UnmarshalRichGroup(d) \in RichGroup => ToGroup(UnmarshalRichGroup(d)) \in Group
  BY MetadataAssumption DEF ToGroup, RichGroup, Group
<1>. QED
  BY <1>1, <1>2, NormalizeType DEF ParseGroup

\* Likewise for a profile.
LEMMA ParseProfileType ==
  ASSUME NEW d
  PROVE  ParseProfile(d) \in Profile \cup {Failed}
<1>1. UnmarshalProfile(d) \in Profile \cup {Failed}
  BY DEF UnmarshalProfile, RichGroup, Profile
<1>. QED
  BY <1>1 DEF ParseProfile

\* A non-empty set of natural numbers has a least element.
LEMMA LeastOf ==
  ASSUME NEW T \in SUBSET Nat, T # {}
  PROVE  \E m \in T : \A n \in T : m <= n
<1>1. PICK m \in T : \A n \in T : ~(<<n, m>> \in OpToRel(<, Nat))
  BY NatLessThanWellFounded, WFMin
<1>2. \A n \in T : ~(n < m)
  BY <1>1 DEF OpToRel
<1>. QED
  BY <1>2

\* Whatever sort.Sort does, it leaves exactly the groups it was given.
LEMMA ArrangementGroups ==
  ASSUME NEW gs \in Seq(Group), NEW s \in Arrangements(gs)
  PROVE  /\ s \in Seq(Group)
         /\ Len(s) = Len(gs)
         /\ GroupsOf(s) = GroupsOf(gs)
         /\ \A i, j \in 1..Len(s) : i < j => ~Less(s[i], s[j])
<1>1. PICK f \in Shuffles(Len(gs)) : s = [i \in 1..Len(gs) |-> gs[f[i]]]
  BY DEF Arrangements
<1>2. /\ f \in [1..Len(gs) -> 1..Len(gs)]
      /\ \A j \in 1..Len(gs) : \E i \in 1..Len(gs) : f[i] = j
  BY DEF Shuffles
<1>3. s \in Seq(Group) /\ Len(s) = Len(gs)
  BY <1>1, <1>2, SMTT(30)
<1>4. \A i \in 1..Len(s) : s[i] \in GroupsOf(gs)
  BY <1>1, <1>2, <1>3 DEF GroupsOf
<1>5. \A j \in 1..Len(gs) : gs[j] \in GroupsOf(s)
  BY <1>1, <1>2, <1>3 DEF GroupsOf
<1>6. GroupsOf(s) = GroupsOf(gs)
  BY <1>4, <1>5 DEF GroupsOf
<1>. QED
  BY <1>3, <1>6 DEF Arrangements

\* ByReqs.Less never holds between a group and itself.
LEMMA LessIrreflexive ==
  ASSUME NEW g \in Group
  PROVE  ~Less(g, g)
<1>1. selectorString(g) \in Nat
  BY SelectorAssumption DEF selectorString, Group
<1>. QED
  BY <1>1 DEF Less

\* The two numbers that ByReqs.Less compares.
LEMMA RankType ==
  ASSUME NEW g \in Group
  PROVE  SelectorCount(g) \in Nat /\ selectorString(g) \in Nat
<1>1. g.selector \in Selector
  BY DEF Group
<1>2. selectorString(g) \in Nat
  BY <1>1, SelectorAssumption DEF selectorString
<1>3. DOMAIN g.selector \in SUBSET Key
  BY <1>1 DEF Selector
<1>4. SelectorCount(g) \in Nat
  BY <1>3, SelectorAssumption, FS_Subset, FS_CardinalityType DEF SelectorCount
<1>. QED
  BY <1>2, <1>4

\* A group that ByReqs.Less does not put below another has as many requirements.
LEMMA LessCounts ==
  ASSUME NEW g \in Group, NEW h \in Group, ~Less(g, h)
  PROVE  SelectorCount(h) <= SelectorCount(g)
<1>1. SelectorCount(g) \in Nat /\ SelectorCount(h) \in Nat
  BY RankType
<1>. QED
  BY <1>1 DEF Less

\* What the loop over the sorted groups stops at: a matching group that no
\* matching group outranks, or nothing exactly when no group matches.
LEMMA FirstMatchOutranks ==
  ASSUME NEW gs \in Seq(Group), NEW labels, NEW r \in SelectGroup(gs, labels)
  PROVE  IF \E g \in GroupsOf(gs) : Matches(g, labels)
         THEN /\ r \in GroupsOf(gs) /\ Matches(r, labels)
              /\ \A h \in GroupsOf(gs) : Matches(h, labels) => ~Less(r, h)
         ELSE r = Failed
<1>1. PICK s \in Arrangements(gs) : r = FirstMatch(s, labels)
  BY DEF SelectGroup
<1>2. /\ s \in Seq(Group)
      /\ GroupsOf(s) = GroupsOf(gs)
      /\ \A i, j \in 1..Len(s) : i < j => ~Less(s[i], s[j])
  BY ArrangementGroups
<1>. DEFINE hits == {i \in 1..Len(s) : Matches(s[i], labels)}
<1>3. CASE hits = {}
  <2>1. ~\E g \in GroupsOf(s) : Matches(g, labels)
    BY <1>3 DEF GroupsOf
  <2>. QED
    BY <1>1, <1>2, <1>3, <2>1 DEF FirstMatch
<1>4. CASE hits # {}
  <2>1. \E m \in hits : \A n \in hits : m <= n
    <3>1. hits \in SUBSET Nat
      BY <1>2
    <3>. HIDE DEF hits
    <3>. QED
      BY <1>4, <3>1, LeastOf
  <2>2. PICK m \in hits : (\A n \in hits : m <= n) /\ r = s[m]
    BY <1>1, <1>4, <2>1 DEF FirstMatch
  <2>3. s[m] \in GroupsOf(s) /\ Matches(s[m], labels)
    BY DEF GroupsOf
  <2>4. ASSUME NEW h \in GroupsOf(s), Matches(h, labels) PROVE ~Less(s[m], h)
    <3>1. PICK n \in 1..Len(s) : h = s[n]
      BY DEF GroupsOf
    <3>2. m <= n
      BY <2>2, <2>4, <3>1
    <3>3. CASE n = m
      BY <1>2, <3>1, <3>3, LessIrreflexive
    <3>4. CASE m < n
      BY <1>2, <3>1, <3>4
    <3>. QED
      BY <3>2, <3>3, <3>4
  <2>. QED
    BY <1>2, <2>2, <2>3, <2>4
<1>. QED
  BY <1>3, <1>4

\* However the groups are listed and however sort.Sort orders ties, the
\* SelectGroup of server.go returns a matching group such that no matching group
\* has more requirements, or ErrNoMatchingGroup exactly when no group matches.
THEOREM SelectGroupCorrect ==
  ASSUME NEW gs \in Seq(Group), NEW labels, NEW r \in SelectGroup(gs, labels)
  PROVE  Selects(r, gs, labels)
<1>1. GroupsOf(gs) \subseteq Group
  BY DEF GroupsOf
<1>2. CASE \E g \in GroupsOf(gs) : Matches(g, labels)
  <2>1. /\ r \in GroupsOf(gs) /\ Matches(r, labels)
        /\ \A h \in GroupsOf(gs) : Matches(h, labels) => ~Less(r, h)
    BY <1>2, FirstMatchOutranks
  <2>2. \A h \in GroupsOf(gs) : Matches(h, labels) => SelectorCount(h) <= SelectorCount(r)
    BY <1>1, <2>1, LessCounts
  <2>. QED
    BY <1>2, <2>1, <2>2 DEF Selects, Best
<1>3. CASE ~\E g \in GroupsOf(gs) : Matches(g, labels)
  BY <1>3, FirstMatchOutranks DEF Selects
<1>. QED
  BY <1>2, <1>3

-----------------------------------------------------------------------------
(***************************************************************************)
(* The sort has a result                                                   *)
(***************************************************************************)

\* ByReqs.Less is transitive, and groups that it does not order have the same
\* number of requirements and the same text.
LEMMA LessOrders ==
  ASSUME NEW g \in Group, NEW h \in Group, NEW k \in Group
  PROVE  /\ Less(g, h) /\ Less(h, k) => Less(g, k)
         /\ ~Less(g, h) /\ ~Less(h, g) =>
              SelectorCount(g) = SelectorCount(h) /\ selectorString(g) = selectorString(h)
<1>1. \A x \in {g, h, k} : SelectorCount(x) \in Nat /\ selectorString(x) \in Nat
  BY RankType
<1>. QED
  BY <1>1 DEF Less

\* f puts the groups of gs into an order that the sort may leave.
Sorts(f, gs) ==
  /\ f \in Shuffles(Len(gs))
  /\ \A i, j \in 1..Len(gs) : i < j => ~Less(gs[f[i]], gs[f[j]])

\* A group more is put in before the first that it outranks.
LEMMA SortOneMore ==
  ASSUME NEW gs \in Seq(Group), NEW n \in Nat, Len(gs) = n + 1,
         NEW hs \in Seq(Group), Len(hs) = n, \A i \in 1..n : hs[i] = gs[i],
         NEW e, Sorts(e, hs)
  PROVE  \E f : Sorts(f, gs)
<1>. DEFINE g == gs[n + 1]
            T == {k \in 1..(n + 1) : k = n + 1 \/ Less(hs[e[k]], g)}
<1>1. /\ e \in [1..n -> 1..n] /\ \A j \in 1..n : \E i \in 1..n : e[i] = j
      /\ \A i, j \in 1..n : i < j => ~Less(hs[e[i]], hs[e[j]])
  BY DEF Sorts, Shuffles
<1>2. PICK k \in T : \A i \in T : k <= i
  <2>1. T \in SUBSET Nat /\ n + 1 \in T
    OBVIOUS
  <2>. HIDE DEF T
  <2>. QED
    BY <2>1, LeastOf
<1>3. /\ k \in 1..(n + 1) /\ (k = n + 1 \/ Less(hs[e[k]], g))
      /\ \A i \in 1..n : i < k => ~Less(hs[e[i]], g)
  BY <1>2
<1>4. g \in Group /\ \A i \in 1..n : e[i] \in 1..n /\ hs[e[i]] \in Group
  <2>1. n + 1 \in 1..Len(gs)
    OBVIOUS
  <2>2. gs \in [1..Len(gs) -> Group] /\ hs \in [1..Len(hs) -> Group]
    OBVIOUS
  <2>3. g \in Group
    BY <2>1, <2>2
  <2>4. \A i \in 1..n : e[i] \in 1..n
    BY <1>1
  <2>. QED
    BY <2>2, <2>3, <2>4
<1>. HIDE DEF T
<1>5. ASSUME NEW j \in 1..n, k <= j PROVE ~Less(g, hs[e[j]])
  <2>1. k \in 1..n /\ Less(hs[e[k]], g)
    BY <1>3, <1>5
  <2>2. ~Less(hs[e[k]], hs[e[j]])
    <3>1. CASE k = j
      BY <1>4, <3>1, LessIrreflexive
    <3>2. CASE k < j
      BY <1>1, <2>1, <3>2
    <3>3. k = j \/ k < j
      BY <1>5, <2>1
    <3>. QED
      BY <3>1, <3>2, <3>3
  <2>. QED
    BY <1>4, <2>1, <2>2, LessOrders
<1>. DEFINE f == [i \in 1..(n + 1) |->
                    IF i < k THEN e[i] ELSE IF i = k THEN n + 1 ELSE e[i - 1]]
<1>6. \A i \in 1..(n + 1) : /\ i < k => i \in 1..n /\ f[i] = e[i]
                            /\ i = k => f[i] = n + 1
                            /\ i > k => i - 1 \in 1..n /\ f[i] = e[i - 1]
  BY <1>3
<1>7. f \in [1..(n + 1) -> 1..(n + 1)]
  <2>1. \A i \in 1..(n + 1) :
          (IF i < k THEN e[i] ELSE IF i = k THEN n + 1 ELSE e[i - 1]) \in 1..(n + 1)
    <3>. TAKE i \in 1..(n + 1)
    <3>1. CASE i < k
      <4>1. i \in 1..n
        BY <1>3, <3>1
      <4>. QED
        BY <1>4, <3>1, <4>1
    <3>2. CASE i = k
      BY <3>2
    <3>3. CASE i > k
      <4>1. i - 1 \in 1..n
        BY <1>3, <3>3
      <4>. QED
        BY <1>3, <1>4, <3>3, <4>1
    <3>. QED
      BY <1>3, <3>1, <3>2, <3>3
  <2>. QED
    BY <2>1
<1>. HIDE DEF f
<1>8. ASSUME NEW j \in 1..(n + 1) PROVE \E i \in 1..(n + 1) : f[i] = j
  <2>1. CASE j = n + 1
    BY <1>3, <1>6, <2>1
  <2>2. CASE j # n + 1
    <3>1. PICK i \in 1..n : e[i] = j
      BY <1>1, <2>2
    <3>2. CASE i < k
      BY <1>6, <3>1, <3>2
    <3>3. CASE i >= k
      <4>1. i + 1 \in 1..(n + 1) /\ i + 1 > k /\ (i + 1) - 1 = i
        BY <1>3, <3>3
      <4>2. f[i + 1] = e[i]
        BY <1>6, <4>1
      <4>. QED
        BY <3>1, <4>1, <4>2
    <3>. QED
      BY <1>3, <3>2, <3>3
  <2>. QED
    BY <2>1, <2>2
<1>9. f \in Shuffles(Len(gs))
  BY <1>7, <1>8 DEF Shuffles
<1>10. /\ \A i \in 1..(n + 1) : i < k => gs[f[i]] = hs[e[i]]
       /\ gs[f[k]] = g
       /\ \A i \in 1..(n + 1) : i > k => gs[f[i]] = hs[e[i - 1]]
  BY <1>3, <1>4, <1>6
<1>11. ASSUME NEW i \in 1..(n + 1), NEW j \in 1..(n + 1), i < j
       PROVE  ~Less(gs[f[i]], gs[f[j]])
  <2>1. CASE j < k
    <3>1. i \in 1..n /\ j \in 1..n /\ i < k
      BY <1>3, <1>11, <2>1
    <3>. QED
      BY <1>1, <1>10, <1>11, <2>1, <3>1
  <2>2. CASE j = k
    <3>1. i \in 1..n /\ i < k
      BY <1>3, <1>11, <2>2
    <3>. QED
      BY <1>3, <1>10, <2>2, <3>1
  <2>3. CASE i < k /\ k < j
    <3>1. i \in 1..n /\ j - 1 \in 1..n /\ i < j - 1
      BY <1>3, <1>11, <2>3
    <3>. QED
      BY <1>1, <1>10, <2>3, <3>1
  <2>4. CASE i = k
    <3>1. j - 1 \in 1..n /\ k <= j - 1 /\ k < j
      BY <1>3, <1>11, <2>4
    <3>. QED
      BY <1>5, <1>10, <2>4, <3>1
  <2>5. CASE k < i
    <3>1. i - 1 \in 1..n /\ j - 1 \in 1..n /\ i - 1 < j - 1 /\ k < j
      BY <1>3, <1>11, <2>5
    <3>. QED
      BY <1>1, <1>10, <2>5, <3>1
  <2>. QED
    BY <1>3, <1>11, <2>1, <2>2, <2>3, <2>4, <2>5
<1>12. Sorts(f, gs)
  BY <1>9, <1>11 DEF Sorts
<1>. QED
  BY <1>12

\* Every list can be sorted: there is no shortest one that cannot.
LEMMA SortExists ==
  ASSUME NEW gs \in Seq(Group)
  PROVE  \E f : Sorts(f, gs)
<1>. DEFINE T == {n \in Nat : \E hs \in Seq(Group) : Len(hs) = n /\ ~\E f : Sorts(f, hs)}
<1>. SUFFICES ASSUME ~\E f : Sorts(f, gs) PROVE FALSE
  OBVIOUS
<1>1. Len(gs) \in T
  OBVIOUS
<1>2. PICK m \in T : \A n \in T : m <= n
  <2>1. T \in SUBSET Nat
    OBVIOUS
  <2>. HIDE DEF T
  <2>. QED
    BY <1>1, <2>1, LeastOf
<1>3. PICK hs \in Seq(Group) : Len(hs) = m /\ ~\E f : Sorts(f, hs)
  BY <1>2
<1>4. m \in Nat
  OBVIOUS
<1>5. CASE m = 0
  <2>. DEFINE f == [i \in 1..0 |-> i]
  <2>1. f \in [1..0 -> 1..0]
    OBVIOUS
  <2>2. Sorts(f, hs)
    BY <1>3, <1>5, <2>1 DEF Sorts, Shuffles
  <2>. QED
    BY <1>3, <2>2
<1>6. CASE m # 0
  <2>. DEFINE n == m - 1
              ks == [i \in 1..n |-> hs[i]]
  <2>1. n \in Nat /\ m = n + 1
    BY <1>4, <1>6
  <2>2. ks \in Seq(Group) /\ Len(ks) = n /\ \A i \in 1..n : ks[i] = hs[i]
    BY <1>3, <2>1
  <2>3. n \notin T
    BY <1>2, <2>1
  <2>. HIDE DEF n, ks
  <2>4. PICK e : Sorts(e, ks)
    BY <2>1, <2>2, <2>3
  <2>. QED
    BY <1>3, <2>1, <2>2, <2>4, SortOneMore
<1>. QED
  BY <1>5, <1>6

\* For every list of groups and every labels, the SelectGroup of server.go has an
\* answer, and each answer that it may give is a matching group such that no matching
\* group has more requirements, or ErrNoMatchingGroup exactly when none matches.
THEOREM SelectionTotal ==
  ASSUME NEW gs \in Seq(Group), NEW labels
  PROVE  SelectsWell(gs, labels)
<1>1. PICK f : Sorts(f, gs)
  BY SortExists
<1>. DEFINE s == [i \in 1..Len(gs) |-> gs[f[i]]]
<1>2. \A i \in 1..Len(gs) : s[i] = gs[f[i]]
  OBVIOUS
<1>3. s \in Arrangements(gs)
  <2>. HIDE DEF s
  <2>1. s \in {[i \in 1..Len(gs) |-> gs[h[i]]] : h \in Shuffles(Len(gs))}
    BY <1>1 DEF Sorts, s
  <2>2. \A i, j \in 1..Len(gs) : i < j => ~Less(s[i], s[j])
    BY <1>1, <1>2 DEF Sorts
  <2>. QED
    BY <2>1, <2>2 DEF Arrangements
<1>4. SelectGroup(gs, labels) # {}
  BY <1>3 DEF SelectGroup
<1>. QED
  BY <1>4, SelectGroupCorrect DEF SelectsWell

\* For every list of groups without ties and every labels, the SelectGroup of
\* server.go has one answer: neither the order in which the directory was read
\* nor the unstable sort.Sort matters.
THEOREM SelectionUnique ==
  ASSUME NEW gs \in Seq(Group), NEW labels
  PROVE  SelectsOne(gs, labels)
<1>. SUFFICES ASSUME Untied(gs), NEW r \in SelectGroup(gs, labels),
                     NEW t \in SelectGroup(gs, labels)
              PROVE  r = t
  BY DEF SelectsOne
<1>1. CASE ~\E g \in GroupsOf(gs) : Matches(g, labels)
  BY <1>1, FirstMatchOutranks
<1>2. CASE \E g \in GroupsOf(gs) : Matches(g, labels)
  <2>1. /\ r \in GroupsOf(gs) /\ t \in GroupsOf(gs)
        /\ ~Less(r, t) /\ ~Less(t, r)
    BY <1>2, FirstMatchOutranks
  <2>2. GroupsOf(gs) \subseteq Group
    BY DEF GroupsOf
  <2>3. SelectorCount(r) = SelectorCount(t) /\ selectorString(r) = selectorString(t)
    BY <2>1, <2>2, LessOrders
  <2>. QED
    BY <2>1, <2>3 DEF Untied
<1>. QED
  BY <1>1, <1>2

=============================================================================
