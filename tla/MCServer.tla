------------------------------ MODULE MCServer ------------------------------
(***************************************************************************)
(* Small instances of Server for TLC.  A default group and a group for one *)
(* address, two profiles and one template per directory are laid out by    *)
(* hand; RPC clients update them while machines boot.                      *)
(***************************************************************************)
EXTENDS Server, TLC

CONSTANTS tmpl0, tmpl1, tmpl2   \* templates of zero, one and two blocks

MCKey == {"mac", "os"}
MCMacKey == {"mac"}
MCValue == {"", "AA", "aa", "x"}
\* "AA" and "aa" spell one address, the other values are not addresses.
MCParseMAC == [v \in MCValue |-> IF v \in {"AA", "aa"} THEN "aa" ELSE NoMac]
\* The text of a selector: "mac=..." sorts before "os=...", values as bytes.
MCTextRank ==
  LET place(v) == CASE v = "" -> 1 [] v = "AA" -> 2 [] v = "aa" -> 3 [] v = "x" -> 4
  IN  [s \in UNION {[K -> MCValue] : K \in SUBSET MCKey} |->
         CASE DOMAIN s = {} -> 0
           [] DOMAIN s = {"mac"} -> 10 * place(s["mac"])
           [] DOMAIN s = {"os"} -> 100 + place(s["os"])
           [] OTHER -> 10 * place(s["mac"]) + place(s["os"])]
MCVar == {"mac", "os", "request", "v"}
MCToLower == [k \in MCKey |-> k]
\* Metadata bytes: what json.Marshal writes, other spellings, and junk.
MCMetadata ==
  [form : {"canonical", "spaced"}, vars : SUBSET MCVar]
    \cup {[form |-> "junk", vars |-> {}]}
MCUnmarshal ==
  [m \in MCMetadata |-> IF m.form = "junk" THEN BadJSON ELSE m.vars]
MCMarshal == [o \in SUBSET MCVar |-> [form |-> "canonical", vars |-> o]]

\* Groups with metadata and profiles with boot settings take two blocks.
MCSize(d) ==
  CASE d = tmpl0 -> 0
    [] d = tmpl1 -> 1
    [] d = tmpl2 -> 2
    [] OTHER -> IF "boot" \in DOMAIN d
                THEN IF d.boot THEN 2 ELSE 1
                ELSE IF d.metadata # NilMap THEN 2 ELSE 1

\* Every name is plain.
MCNames == Id
MCAlias == [x \in {} |-> <<"groups", 1>>]

MCNeeds(t) == IF t = tmpl2 THEN {"v"} ELSE {}
MCAccepts(e) == IF e = "cloud" THEN {tmpl1} ELSE {tmpl0, tmpl1, tmpl2}

Sel(mac) == [k \in {"mac"} |-> mac]
NoSel == [k \in {} |-> ""]
None == {}

\* Names 1 and 2 are a rendered template and a raw .ign file.
MCRawName == {2}

DefaultGroup == [id |-> 1, profile |-> 1, selector |-> NoSel, metadata |-> NilMap]
MachineGroup == [id |-> 2, profile |-> 2, selector |-> Sel("aa"), metadata |-> {"v"}]
\* Profile 1 has every template; profile 2 a raw Ignition file and no boot.
FullProfile == [id |-> 1, ignition |-> 1, cloud |-> 1, generic |-> 1, boot |-> TRUE]
RawProfile == [id |-> 2, ignition |-> 2, cloud |-> NoId, generic |-> 1, boot |-> FALSE]

MCTree ==
  [x \in {<<"groups", 1>>, <<"groups", 2>>, <<"profiles", 1>>, <<"profiles", 2>>,
          <<"ignition", 1>>, <<"cloud", 1>>, <<"generic", 1>>} |->
     CASE x = <<"groups", 1>> -> DefaultGroup
       [] x = <<"groups", 2>> -> MachineGroup
       [] x = <<"profiles", 1>> -> FullProfile
       [] x = <<"profiles", 2>> -> RawProfile
       [] x = <<"generic", 1>> -> tmpl2
       [] OTHER -> tmpl1]
MCTrees == {MCTree}
\* The same, and without the default group, so that a machine may match nothing.
MCTreesRPC ==
  {MCTree, [x \in DOMAIN MCTree \ {<<"groups", 1>>} |-> MCTree[x]]}

\* The machine's group is put again with the address spelled in capitals, and
\* moved to profile 1.
MCGroupIn ==
  {[id |-> 2, profile |-> 1, selector |-> Sel("AA"), metadata |-> NoBytes],
   [id |-> 0, profile |-> 1, selector |-> NoSel, metadata |-> NoBytes]}
\* The same with metadata, so that it takes two blocks like the one it replaces.
MCGroupInBoot ==
  {[id |-> 2, profile |-> 1, selector |-> Sel("AA"),
    metadata |-> [form |-> "spaced", vars |-> {"os"}]],
   [id |-> 0, profile |-> 1, selector |-> NoSel, metadata |-> NoBytes]}
\* A group that is cut in two has its id and profile in the first block, its
\* selector and metadata in the second.
MCMixed ==
  LET docs == {MachineGroup} \cup {MarshalRichGroup(ToRichGroup(g)) : g \in GroupIn}
      cut == {d \in docs : Size(d) = 2}
  IN  {<<{d[1], d[2]},
         [d[1] EXCEPT !.selector = d[2].selector, !.metadata = d[2].metadata]>>
         : d \in {e \in cut \X cut : e[1] # e[2]}}

\* Profile 2 is put again with a Cloud-Config template and no generic one.
MCProfileIn ==
  {[RawProfile EXCEPT !.cloud = 1, !.generic = NoId], [RawProfile EXCEPT !.id = NoId]}
MCTemplateIn == {<<"cloud", 1, tmpl2>>}
MCTemplateInRPC == {<<"ignition", 1, tmpl1>>}

Symmetry == Permutations(RPCProc)

MCQuery == {Sel("AA"), Sel("x"), NilLabels}
\* RPC labels are not normalized: "AA" does not match the machine's group.
MCLabels == {Sel("AA"), Sel("aa")}
MCGetIn == {<<"groups", 2>>, <<"profiles", 2>>}

MCEndpoints == Endpoints
MCMethods == Methods

=============================================================================
