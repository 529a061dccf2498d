------------------------------ MODULE Storagepb ------------------------------
(***************************************************************************)
(* The machine groups and profiles of bootcfg/storage/storagepb: how a     *)
(* group is written to JSON and read back, how its selector is normalised  *)
(* and matched against a machine's labels, and the order in which the      *)
(* groups that match are preferred.                                        *)
(*                                                                         *)
(* Everything here is a pure function; the module declares no variable.    *)
(* Names, keys, values and metadata are abstract: an id is the place its   *)
(* string takes in alphabetical order, JSON metadata is the set of         *)
(* variables it defines.  The human readable Name field is never read by   *)
(* the program and is left out.                                            *)
(***************************************************************************)
EXTENDS Naturals, FiniteSets, Sequences

CONSTANTS
  Id,           \* the non-empty ids and template names, as alphabetical places
  Key,          \* selector and label keys
  MacKey,       \* the keys that strings.ToLower maps to "mac"
  Value,        \* selector and label values
  EmptyValue,   \* the empty string, what Go's map read yields for a missing key
  ParseMAC,     \* net.ParseMAC and HardwareAddr.String: normal form, or NoMac
  NoMac,
  TextRank,     \* the place of "k=v,k=v" among all such strings, per selector
  Var,          \* names of template variables
  ToLower,      \* strings.ToLower on keys, as a variable name
  Metadata,     \* JSON texts a group may carry as metadata bytes
  NoBytes,      \* nil metadata bytes
  Unmarshal,    \* json.Unmarshal of those bytes: the variables, or BadJSON
  Marshal,      \* json.Marshal of a map: the canonical bytes
  BadJSON,
  NilMap,       \* a nil metadata map, also what an omitted JSON field becomes
  NilLabels,    \* a nil label map (an RPC request without labels)
  OtherJSON,    \* texts that are JSON objects without a field of a group or a
                \* profile, such as Ignition configs
  Failed        \* the error return of an operation

\* The empty string as an id: never the name of a file of the store.
NoId == 0

\* Selectors and labels: Go maps from keys to values.
Selector == UNION {[K -> Value] : K \in SUBSET Key}

Group ==
  [id : Id \cup {NoId}, profile : Id \cup {NoId}, selector : Selector,
   metadata : Metadata \cup {NoBytes}]

\* RichGroup is the JSON document of a group: its metadata is a map.
RichGroup ==
  [id : Id \cup {NoId}, profile : Id \cup {NoId}, selector : Selector,
   metadata : {NilMap} \cup SUBSET Var]

\* A profile names its templates; boot tells whether NetBoot settings are set.
Profile ==
  [id : Id \cup {NoId}, ignition : Id \cup {NoId}, cloud : Id \cup {NoId},
   generic : Id \cup {NoId}, boot : BOOLEAN]

ASSUME IdAssumption == Id \subseteq Nat \ {NoId} /\ Id # {}

ASSUME SelectorAssumption ==
  /\ IsFiniteSet(Key)
  /\ MacKey \subseteq Key
  /\ EmptyValue \in Value
  /\ NoMac \notin Value
  /\ ParseMAC \in [Value -> Value \cup {NoMac}]
  \* HardwareAddr.String prints what ParseMAC reads back unchanged
  /\ \A v \in Value : ParseMAC[v] # NoMac => ParseMAC[ParseMAC[v]] = ParseMAC[v]
  /\ TextRank \in [Selector -> Nat]
  /\ ToLower \in [Key -> Var]
  /\ NilLabels \notin Selector

ASSUME MetadataAssumption ==
  /\ NoBytes \notin Metadata
  /\ \A o \in SUBSET Var : o # NilMap /\ o # BadJSON
  /\ Unmarshal \in [Metadata -> {BadJSON} \cup SUBSET Var]
  /\ Marshal \in [SUBSET Var -> Metadata]
  /\ \A o \in SUBSET Var : Unmarshal[Marshal[o]] = o

ASSUME FailedAssumption ==
  /\ Failed \notin Group \cup RichGroup \cup Profile \cup OtherJSON
  /\ \A o \in SUBSET Var : o # Failed

-----------------------------------------------------------------------------
(***************************************************************************)
(* Validation, conversion and parsing                                      *)
(***************************************************************************)

GroupAssertValid(g) == g.id # NoId /\ g.profile # NoId

ProfileAssertValid(p) == p.id # NoId

\* Normalize rewrites the value of every "mac" selector to its normal form and
\* fails when one does not parse.
Normalize(g) ==
  IF \E k \in DOMAIN g.selector \cap MacKey : ParseMAC[g.selector[k]] = NoMac
  THEN Failed
  ELSE [g EXCEPT !.selector =
          [k \in DOMAIN g.selector |->
             IF k \in MacKey THEN ParseMAC[g.selector[k]] ELSE g.selector[k]]]

\* ToRichGroup decodes the metadata bytes; nil bytes give an empty map.
ToRichGroup(g) ==
  LET meta == IF g.metadata = NoBytes THEN {} ELSE Unmarshal[g.metadata]
  IN  IF meta = BadJSON THEN Failed
      ELSE [id |-> g.id, profile |-> g.profile, selector |-> g.selector,
            metadata |-> meta]

\* MarshalIndent of a RichGroup: "omitempty" leaves an empty map out.
MarshalRichGroup(rg) ==
  [rg EXCEPT !.metadata = IF rg.metadata = {} THEN NilMap ELSE rg.metadata]

\* ToGroup encodes the metadata map; a nil map gives nil bytes.
ToGroup(rg) ==
  [id |-> rg.id, profile |-> rg.profile, selector |-> rg.selector,
   metadata |-> IF rg.metadata = NilMap THEN NoBytes ELSE Marshal[rg.metadata]]

\* json.Unmarshal of a document into a RichGroup: it ignores fields that a
\* RichGroup does not have and leaves those empty that it does not find.  A
\* profile has the id in common with a group.
UnmarshalRichGroup(d) ==
  LET empty == [id |-> NoId, profile |-> NoId, selector |-> [k \in {} |-> EmptyValue],
                metadata |-> NilMap]
  IN  IF d \in RichGroup THEN d
      ELSE IF d \in Profile THEN [empty EXCEPT !.id = d.id]
      ELSE IF d \in OtherJSON THEN empty
      ELSE Failed

\* json.Unmarshal of a document into a Profile.
UnmarshalProfile(d) ==
  LET empty == [id |-> NoId, ignition |-> NoId, cloud |-> NoId, generic |-> NoId,
                boot |-> FALSE]
  IN  IF d \in Profile THEN d
      ELSE IF d \in RichGroup THEN [empty EXCEPT !.id = d.id]
      ELSE IF d \in OtherJSON THEN empty
      ELSE Failed

\* ParseGroup of the bytes of document d.
ParseGroup(d) ==
  LET rg == UnmarshalRichGroup(d)
  IN  IF rg = Failed THEN Failed ELSE Normalize(ToGroup(rg))

\* What ProfileGet makes of the bytes of document d.
ParseProfile(d) ==
  LET f == UnmarshalProfile(d)
  IN  IF f # Failed /\ ProfileAssertValid(f) THEN f ELSE Failed

-----------------------------------------------------------------------------
(***************************************************************************)
(* Matching and order                                                      *)
(***************************************************************************)

\* labels[key] in Go: the zero value for a key that is missing.
LabelValue(labels, k) == IF k \in DOMAIN labels THEN labels[k] ELSE EmptyValue

Matches(g, labels) ==
  \A k \in DOMAIN g.selector :
    labels # NilLabels /\ LabelValue(labels, k) = g.selector[k]

\* The sorted "key=value" text of a selector, as its place in string order.
selectorString(g) == TextRank[g.selector]

SelectorCount(g) == Cardinality(DOMAIN g.selector)

\* Mutant: no tie-break on the text of the selector.
LessByCount(g, h) == SelectorCount(g) < SelectorCount(h)

\* ByReqs.Less: fewer requirements first, then the text of the selector.
Less(g, h) ==
  IF SelectorCount(g) = SelectorCount(h)
  THEN selectorString(g) < selectorString(h)
  ELSE SelectorCount(g) < SelectorCount(h)

=============================================================================
