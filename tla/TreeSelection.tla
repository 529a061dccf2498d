---------------------------- MODULE TreeSelection ----------------------------
(***************************************************************************)
(* From names to the group a machine is given: clients and the             *)
(* administrator fill the data directory (PathTree), and at each point a   *)
(* machine with any of the labels may ask for its group (Selection).       *)
(***************************************************************************)
EXTENDS PathTree, Selection

CONSTANT LabelsIn   \* what machines may send

VARIABLE labels     \* what the machine that asks has sent

selectionVars == <<treeVars, labels>>

SelectionInit == TreeInit /\ labels \in LabelsIn

AnotherMachine == labels' \in LabelsIn /\ UNCHANGED treeVars

SelectionNext == (TreeNext /\ UNCHANGED labels) \/ AnotherMachine

SelectionSpec == SelectionInit /\ [][SelectionNext]_selectionVars

\* What SelectGroup works on; a list that fails is answered with an error.
Groups == IF GroupList = Failed THEN <<>> ELSE GroupList

-----------------------------------------------------------------------------

\* server.go:129-130: groups are evaluated from most selectors to least.  In
\* whatever order sort.Sort leaves ties, SelectGroup has an answer, and it is a
\* matching group such that no other one that matches has more requirements, or
\* ErrNoMatchingGroup when none matches.
SelectionCorrect == SelectsWell(Groups, labels)

\* The answer does not depend on the order in which the directory listed the
\* groups, nor on how sort.Sort treats ties, unless two different groups have
\* selectors of the very same text: a backup listed twice makes no difference.
SelectionDeterministic == SelectsOne(Groups, labels)

\* The claim of server.go:130-131 that alphabetical order is the tie-breaker: of
\* the matching groups with the most requirements, the machine is given the one
\* whose requirements come first in the alphabet.
AlphabeticalTieBreak == SelectsAlphabetically(Groups, labels)

=============================================================================
