------------------------------ MODULE Selection ------------------------------
(***************************************************************************)
(* How bootcfg/server/server.go picks one group for a machine: the groups  *)
(* are sorted by decreasing requirements and the first that matches the    *)
(* labels is taken.  sort.Sort is not stable, so groups that tie may come  *)
(* out in any order; SelectGroup is the set of groups the code may return. *)
(***************************************************************************)
EXTENDS Storagepb

\* The permutations of 1..n: functions of it onto itself.
Shuffles(n) == {f \in [1..n -> 1..n] : \A j \in 1..n : \E i \in 1..n : f[i] = j}

\* Mutant: the sort without sort.Reverse.
ArrangementsAscending(gs) ==
  {s \in {[i \in 1..Len(gs) |-> gs[f[i]]] : f \in Shuffles(Len(gs))} :
     \A i, j \in 1..Len(gs) : i < j => ~Less(s[j], s[i])}

\* The orders in which sort.Sort(sort.Reverse(ByReqs(gs))) may leave gs.
Arrangements(gs) ==
  {s \in {[i \in 1..Len(gs) |-> gs[f[i]]] : f \in Shuffles(Len(gs))} :
     \A i, j \in 1..Len(gs) : i < j => ~Less(s[i], s[j])}

\* Mutant: the loop does not stop at the first match.
FirstMatchRunsOn(s, labels) ==
  LET hits == {i \in 1..Len(s) : Matches(s[i], labels)}
  IN  IF hits = {} THEN Failed
      ELSE s[CHOOSE i \in hits : \A j \in hits : i >= j]

\* The first group of s that matches, or ErrNoMatchingGroup.
FirstMatch(s, labels) ==
  LET hits == {i \in 1..Len(s) : Matches(s[i], labels)}
  IN  IF hits = {} THEN Failed
      ELSE s[CHOOSE i \in hits : \A j \in hits : i <= j]

SelectGroup(gs, labels) == {FirstMatch(s, labels) : s \in Arrangements(gs)}

-----------------------------------------------------------------------------
(***************************************************************************)
(* What a selection should be                                              *)
(***************************************************************************)

\* The groups of G that match with the most requirements.  How ByReqs.Less
\* breaks ties is no part of this definition.
Best(G, labels) ==
  {g \in G : /\ Matches(g, labels)
             /\ \A h \in G : Matches(h, labels) => SelectorCount(h) <= SelectorCount(g)}

GroupsOf(gs) == {gs[i] : i \in 1..Len(gs)}

\* r is a best match among the groups gs, or the error when none matches.
Selects(r, gs, labels) ==
  IF \E g \in GroupsOf(gs) : Matches(g, labels)
  THEN r \in Best(GroupsOf(gs), labels)
  ELSE r = Failed

\* SelectGroup has an answer for gs, and only right ones.
SelectsWell(gs, labels) ==
  /\ SelectGroup(gs, labels) # {}
  /\ \A r \in SelectGroup(gs, labels) : Selects(r, gs, labels)

\* No two groups of gs have as many requirements with the same text.
Untied(gs) ==
  \A g, h \in GroupsOf(gs) :
    SelectorCount(g) = SelectorCount(h) /\ selectorString(g) = selectorString(h) => g = h

\* Without ties SelectGroup has one answer, whatever the sort does.
SelectsOne(gs, labels) ==
  Untied(gs) => \A r, t \in SelectGroup(gs, labels) : r = t

\* Of the best matches SelectGroup takes one whose text comes first.
SelectsAlphabetically(gs, labels) ==
  \A r \in SelectGroup(gs, labels), g \in Best(GroupsOf(gs), labels) :
    r # Failed => selectorString(r) <= selectorString(g)

=============================================================================
