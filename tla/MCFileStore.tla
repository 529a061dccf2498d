----------------------------- MODULE MCFileStore -----------------------------
(***************************************************************************)
(* Small instances of FileStore for TLC: a "mac" key and a plain key,      *)
(* documents of one and two blocks, templates of zero to two blocks, one   *)
(* of them a JSON object.                                                  *)
(***************************************************************************)
EXTENDS StoreRefinement, TLC

CONSTANTS tmpl0, tmpl1, tmpl2   \* templates of zero, one and two blocks

MCKey == {"mac", "os"}
MCMacKey == {"mac"}
MCValue == {"", "AA", "aa", "x"}
\* "AA" and "aa" spell one address, the other values are not addresses.
MCParseMAC == [v \in MCValue |-> IF v \in {"AA", "aa"} THEN "aa" ELSE NoMac]
\* The text of a selector: "mac=..." sorts before "os=...", values as bytes.
MCTextRank ==
  LET place(v) == CASE v = "" -> 1 [] v = "AA" -> 2 [] v = "aa" -> 3 [] v = "x" -> 4
  IN  [s \in UNION {[K -> MCValue] : K \in SUBSET MCKey} |->
         CASE DOMAIN s = {} -> 0
           [] DOMAIN s = {"mac"} -> 10 * place(s["mac"])
           [] DOMAIN s = {"os"} -> 100 + place(s["os"])
           [] OTHER -> 10 * place(s["mac"]) + place(s["os"])]
MCVar == {"mac", "os", "request", "v"}
MCToLower == [k \in MCKey |-> k]
\* Metadata bytes: what json.Marshal writes, other spellings, and junk.
MCMetadata ==
  [form : {"canonical", "spaced"}, vars : SUBSET MCVar]
    \cup {[form |-> "junk", vars |-> {}]}
MCUnmarshal ==
  [m \in MCMetadata |-> IF m.form = "junk" THEN BadJSON ELSE m.vars]
MCMarshal == [o \in SUBSET MCVar |-> [form |-> "canonical", vars |-> o]]

\* Groups with metadata and profiles with boot settings take two blocks.
MCSize(d) ==
  CASE d = tmpl0 -> 0
    [] d = tmpl1 -> 1
    [] d = tmpl2 -> 2
    [] OTHER -> IF "boot" \in DOMAIN d
                THEN IF d.boot THEN 2 ELSE 1
                ELSE IF d.metadata # NilMap THEN 2 ELSE 1

Sel(mac) == [k \in {"mac"} |-> mac]
NoSel == [k \in {} |-> ""]
NewGroup(id, sel, meta) ==
  [id |-> id, profile |-> 1, selector |-> sel, metadata |-> meta]
NewProfile(id, boot) ==
  [id |-> id, ignition |-> 1, cloud |-> NoId, generic |-> NoId, boot |-> boot]

Spaced == [form |-> "spaced", vars |-> {"v"}]
Junk == [form |-> "junk", vars |-> {}]

None == {}

\* Names 1 and 2 are plain; a group of id 3 ("../profiles/a") is a file of
\* profiles/, and template 3 ("../groups/a.json") one of groups/.
MCNames == Id \cap {1, 2}
MCAlias ==
  [x \in Dirs \X (Id \ MCNames) |->
     IF x[1] = "groups" THEN <<"profiles", 1>> ELSE <<"groups", 1>>]

\* Documents of two blocks are cut behind the id and the group's profile.  The head
\* of a group with the tail of another has the selector and metadata of the other,
\* with the tail of a profile it has none.
MCMixed ==
  LET docs == ({MarshalRichGroup(ToRichGroup(g)) : g \in {h \in GroupIn : h.metadata # Junk}}
                 \cup ProfileIn \cup UNION {{t[x] : x \in DOMAIN t} : t \in Tree})
                \ Template
      cut == {d \in docs : Size(d) = 2}
  IN  {<<{d[1], d[2]},
         [d[1] EXCEPT !.selector = IF d[2] \in Profile THEN NoSel ELSE d[2].selector,
                      !.metadata = IF d[2] \in Profile THEN NilMap ELSE d[2].metadata]>>
         : d \in {e \in (cut \cap RichGroup) \X cut : e[1] # e[2]}}

\* Two groups of one id: a two-block and a one-block one, two spellings of one
\* address.
MCTwoGroups == {NewGroup(1, Sel("AA"), Spaced), NewGroup(1, Sel("aa"), NoBytes)}
MCGroupTree ==
  {[x \in {<<"groups", 1>>} |->
      [id |-> 1, profile |-> NoId, selector |-> NoSel, metadata |-> {}]]}
MCOneFile == {<<"groups", 1>>}

\* A group whose address does not parse.
MCBadGroup == {NewGroup(1, Sel("x"), Spaced)}

\* A group, and ones that ToRichGroup or AssertValid rejects.
MCGroups ==
  {NewGroup(1, Sel("AA"), Spaced), NewGroup(1, NoSel, Junk), NewGroup(0, NoSel, NoBytes)}

\* The file of group 1 is also what profile 3 and the templates of name 3 lead to;
\* one profile has no id.
MCProfiles == {NewProfile(3, TRUE), NewProfile(0, TRUE)}
MCTemplates == {<<"ignition", 3, tmpl0>>, <<"cloud", 3, tmpl0>>}
MCGets ==
  {<<"groups", NoId>>, <<"profiles", 1>>, <<"ignition", 1>>, <<"cloud", 1>>, <<"generic", 1>>}
MCLists == {"groups", "profiles"}

\* Laid out by hand: a group beside the one that is put, the same one in profiles/,
\* where it is a profile, and templates of zero and two blocks.
MCTree ==
  {[x \in {<<"groups", 2>>} \cup ((Dirs \ {"groups"}) \X {1}) |->
      CASE x[1] \in {"groups", "profiles"} ->
             [id |-> 2, profile |-> 1, selector |-> Sel("AA"), metadata |-> NilMap]
        [] x[1] = "cloud" -> tmpl2
        [] OTHER -> tmpl0]}

Symmetry == Permutations(Proc)

=============================================================================
