------------------------------ MODULE PathTree ------------------------------
(***************************************************************************)
(* How the names of bootcfg/storage become files: an id or a template name *)
(* may hold slashes, dots and ".." or be empty; filepath.Join and          *)
(* Dir.sanitize turn it into a path below the data directory, writeFile    *)
(* makes the directories on the way, and a list goes back from file names  *)
(* to ids by cutting the extension.  FileStore takes names for granted and *)
(* looks at interleavings; here operations are whole and names matter.     *)
(*                                                                         *)
(* A name is the sequence of its slash-separated components and a          *)
(* component the sequence of its dot-separated parts: "a/b.json" is        *)
(* <<<<"a">>, <<"b", "json">>>>.  Paths are relative to the data directory.*)
(***************************************************************************)
EXTENDS Storagepb, SequencesExt

CONSTANTS
  NameOf,       \* the spelling of every id, as a name
  Part,         \* the parts of names: what stands between dots and slashes
  Nul,          \* a part that contains a zero byte
  Text,         \* templates and other files that are no groups or profiles
  GroupIn,      \* groups and profiles that clients put
  ProfileIn,
  TemplateIn,   \* names of the templates that clients put
  ByHand,       \* files an administrator may lay out: paths and contents
  MaxFiles      \* bound on the number of files

Empty == <<"">>
Dot == <<"", "">>
DotDot == <<"", "", "">>

Top(dir) == <<<<dir>>>>

StoreDirs == {Top("groups"), Top("profiles"), Top("ignition"), Top("cloud")}

\* Names as clients may spell them, and the components of a path on disk.
Component == Seq(Part) \ {<<>>}

Name == Seq(Component) \ {<<>>}

Plain == {c \in Component : c \notin {Empty, Dot, DotDot} /\ \A j \in DOMAIN c : c[j] # Nul}

ASSUME NameAssumption ==
  /\ {"", "groups", "profiles", "ignition", "cloud", "json"} \subseteq Part
  /\ Nul \notin {"", "groups", "profiles", "ignition", "cloud", "json"}
  /\ \A i \in Id : NameOf[i] \in Name
  /\ TemplateIn \subseteq Name
  /\ \A h \in ByHand : h.path \in Seq(Plain)
  /\ Failed \notin Seq(Component)
  /\ Text \cap (RichGroup \cup Profile) = {} /\ Failed \notin Text
  /\ GroupIn \subseteq Group /\ ProfileIn \subseteq Profile
  /\ MaxFiles \in Nat

VARIABLES
  subdirs,      \* directories, the data directory <<>> among them
  text,         \* content of every file, by path
  kept          \* (history) what was acknowledged or laid out, by place

treeVars == <<subdirs, text, kept>>

-----------------------------------------------------------------------------
(***************************************************************************)
(* Names and paths                                                         *)
(***************************************************************************)

\* Mutant: ".." is left out instead of going up.
CleanDropsDotDot(rooted, name) ==
  SelectSeq(name, LAMBDA c : c \notin {Empty, Dot, DotDot})

\* What path.Clean does with the next component, when it has come to acc.
CleanStep(rooted, acc, c) ==
  IF c \in {Empty, Dot} THEN acc
  ELSE IF c # DotDot THEN Append(acc, c)
  ELSE IF acc # <<>> /\ Last(acc) # DotDot THEN Front(acc)
  ELSE IF rooted THEN acc ELSE Append(acc, DotDot)

\* path.Clean, of a rooted name or of a relative one.
Clean(rooted, name) ==
  LET at[i \in 0..Len(name)] ==
        IF i = 0 THEN <<>> ELSE CleanStep(rooted, at[i - 1], name[i])
  IN  at[Len(name)]

\* filepath.Join of a directory of the store and a name.
Join(dir, name) == Clean(FALSE, dir \o name)

\* Mutant: the name is not rooted before it is cleaned.
sanitizeRelative(name) == Clean(FALSE, name)

\* Dir.sanitize: the path below the data directory, or an error.
sanitize(name) ==
  IF \E i \in DOMAIN name : \E j \in DOMAIN name[i] : name[i][j] = Nul THEN Failed
  ELSE Clean(TRUE, name)

\* id + ".json"
WithJson(name) == [name EXCEPT ![Len(name)] = Append(@, "json")]

\* Mutant: the extension stays.
TrimNothing(c) == c

\* strings.TrimSuffix(name, filepath.Ext(name))
TrimExt(c) == IF Len(c) > 1 THEN Front(c) ELSE c

-----------------------------------------------------------------------------
(***************************************************************************)
(* readFile, readDir and writeFile                                         *)
(***************************************************************************)

readFile(name) ==
  LET p == sanitize(name)
  IN  IF p # Failed /\ p \in DOMAIN text THEN text[p] ELSE Failed

\* The last components of what is directly below directory p.
readDir(p) ==
  {Last(q) : q \in {q \in DOMAIN text \cup subdirs : q # <<>> /\ Front(q) = p}}

\* A file can be written at p: no file is in the way of its directories and p
\* is no directory itself.
Writable(p) ==
  /\ p # Failed
  /\ p \notin subdirs
  /\ \A q \in DOMAIN text : ~IsStrictPrefix(q, p)

\* Mutant: MkdirAll of the path itself instead of its directory.
MkdirPath(p, d) ==
  /\ p # Failed /\ \A q \in DOMAIN text : ~IsPrefix(q, p)
  /\ subdirs' = subdirs \cup Prefixes(p)
  /\ UNCHANGED text

\* The files f with d at path p.
With(f, p, d) == [q \in DOMAIN f \cup {p} |-> IF q = p THEN d ELSE f[q]]

\* os.MkdirAll and ioutil.WriteFile, when they succeed.
Write(p, d) ==
  /\ Writable(p)
  /\ subdirs' = subdirs \cup (Prefixes(p) \ {p})
  /\ text' = With(text, p, d)

\* Where a step from path at along component c leads.
WalkStep(at, c) ==
  CASE c \in {Empty, Dot} -> at
    [] c = DotDot -> SubSeq(at, 1, Len(at) - 1)
    [] OTHER -> Append(at, c)

\* Where a walk from the data directory along a name ends: what the name means.
Walk(name) ==
  LET at[i \in 0..Len(name)] ==
        IF i = 0 THEN <<>> ELSE WalkStep(at[i - 1], name[i])
  IN  at[Len(name)]

\* Dir.writeFile is asked to write d under a name of directory dir.  When it
\* returns an error nothing has changed.
writeFile(dir, name, d) ==
  LET p == sanitize(Join(dir, name))
  IN  /\ Writable(p) => p \in DOMAIN text \/ Cardinality(DOMAIN text) < MaxFiles
      /\ \/ Write(p, d) /\ kept' = With(kept, Walk(dir \o name), d)
         \/ ~Writable(p) /\ UNCHANGED treeVars

-----------------------------------------------------------------------------
(***************************************************************************)
(* The store                                                               *)
(***************************************************************************)

GroupPut ==
  \E g \in GroupIn :
    /\ GroupAssertValid(g)
    /\ ToRichGroup(g) # Failed
    /\ writeFile(Top("groups"), WithJson(NameOf[g.id]), MarshalRichGroup(ToRichGroup(g)))

ProfilePut ==
  \E f \in ProfileIn :
    ProfileAssertValid(f) /\ writeFile(Top("profiles"), WithJson(NameOf[f.id]), f)

IgnitionPut ==
  \E n \in TemplateIn, t \in Text : writeFile(Top("ignition"), n, t)

CloudPut ==
  \E n \in TemplateIn, t \in Text : writeFile(Top("cloud"), n, t)

\* The administrator copies a file to its place.
LayOut ==
  \E h \in ByHand :
    /\ h.path \in DOMAIN text \/ Cardinality(DOMAIN text) < MaxFiles
    /\ Write(h.path, h.doc)
    /\ kept' = With(kept, h.path, h.doc)

GroupGet(name) == ParseGroup(readFile(Join(Top("groups"), WithJson(name))))

ProfileGet(name) == ParseProfile(readFile(Join(Top("profiles"), WithJson(name))))

\* What Get returns for every entry of a directory, in some order, without the
\* errors.  ioutil.ReadDir sorts the entries; who uses a list sorts it again.
List(dir, Get(_)) ==
  IF dir \notin subdirs THEN Failed
  ELSE LET entries == SetToSeq(readDir(dir))
           got[i \in 0..Len(entries)] ==
             IF i = 0 THEN <<>>
             ELSE LET r == Get(<<TrimExt(entries[i])>>)
                  IN  IF r = Failed THEN got[i - 1] ELSE Append(got[i - 1], r)
       IN  got[Len(entries)]

GroupList == List(Top("groups"), GroupGet)

ProfileList == List(Top("profiles"), ProfileGet)

TreeInit == subdirs = {<<>>} /\ text = [p \in {} |-> Failed] /\ kept = text

TreeNext == GroupPut \/ ProfilePut \/ IgnitionPut \/ CloudPut \/ LayOut

TreeSpec == TreeInit /\ [][TreeNext]_treeVars

-----------------------------------------------------------------------------
(***************************************************************************)
(* Properties                                                              *)
(***************************************************************************)

\* fs.go:18-19: access is restricted to a directory tree.  Whatever the names,
\* every file is below the data directory at a path without "..", no path is a
\* file and a directory, and the directories of every file exist.
TreeOK ==
  /\ \A p \in DOMAIN text \cup subdirs : \A i \in DOMAIN p : p[i] \notin {Empty, Dot, DotDot}
  /\ \A p \in DOMAIN text : p \notin subdirs /\ Prefixes(p) \ {p} \subseteq subdirs
  /\ \A p \in subdirs : Prefixes(p) \subseteq subdirs

\* An acknowledged put is found where its name leads, with its content, until
\* a put of the same place replaces it: no put under another name disturbs it,
\* whether it succeeds or fails, however either name is spelled.
KeptReadable == text = kept

\* GroupList and ProfileList return what json.Unmarshal makes of the files with
\* the extension under a plain name of the directory, and nothing else.  Any file
\* with that extension counts, whoever put it there and whatever kind it is meant
\* to be: a stray profile or Ignition config in groups/ is a group that matches
\* every machine.  Files with another extension cost nothing, a group whose id
\* holds a slash lives further down and is never listed, and a file called "json"
\* has no extension.
ListComplete ==
  LET ListsAll(rs, dir, Parse(_)) ==
        rs # Failed =>
          ToSet(rs) = {Parse(kept[p]) : p \in {p \in DOMAIN kept :
                         /\ p # <<>> /\ Front(p) = dir
                         /\ Len(Last(p)) > 1 /\ Last(Last(p)) = "json"}} \ {Failed}
  IN  /\ ListsAll(GroupList, Top("groups"), ParseGroup)
      /\ ListsAll(ProfileList, Top("profiles"), ParseProfile)

\* A put under a plain name fails only because an acknowledged file is in the
\* way: one that took the place of the directory (a template put with an empty
\* name does) or ones below the very name.  No failed put blocks a later one.
PlainPutsWork ==
  \A dir \in StoreDirs, n \in TemplateIn \cup {WithJson(NameOf[i]) : i \in Id} :
    LET p == dir \o n
    IN  (/\ Len(n) = 1 /\ n[1] \notin {Empty, Dot, DotDot}
         /\ \A j \in DOMAIN n[1] : n[1][j] # Nul
         /\ ~Writable(sanitize(p)))
        => dir \in DOMAIN kept \/ \E q \in DOMAIN kept : IsStrictPrefix(p, q)

=============================================================================
