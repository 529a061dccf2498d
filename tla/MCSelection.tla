----------------------------- MODULE MCSelection -----------------------------
(***************************************************************************)
(* Small trees and labels for TLC.                                         *)
(***************************************************************************)
EXTENDS TreeSelection

CONSTANTS
  tmpl,         \* a template
  ign           \* an Ignition config, which is JSON

MCKey == {"mac", "os"}
MCMacKey == {"mac"}
MCValue == {"", "aa", "x"}
MCParseMAC == [v \in MCValue |-> IF v = "aa" THEN "aa" ELSE NoMac]
\* The text of a selector: "mac=..." sorts before "os=...", values as bytes.
MCTextRank ==
  LET place(v) == CASE v = "" -> 1 [] v = "aa" -> 2 [] v = "x" -> 3
  IN  [s \in UNION {[K -> MCValue] : K \in SUBSET MCKey} |->
         CASE DOMAIN s = {} -> 0
           [] DOMAIN s = {"mac"} -> 10 * place(s["mac"])
           [] DOMAIN s = {"os"} -> 100 + place(s["os"])
           [] OTHER -> 10 * place(s["mac"]) + place(s["os"])]
MCVar == {"mac", "os"}
MCToLower == [k \in MCKey |-> k]
MCMetadata == [vars : SUBSET MCVar]
MCUnmarshal == [m \in MCMetadata |-> m.vars]
MCMarshal == [o \in SUBSET MCVar |-> [vars |-> o]]

MCPart ==
  {"", "groups", "profiles", "ignition", "cloud", "json", "a", "b", "c", "t", "u",
   "bak", "note", "txt", Nul}

\* The ids "a", "a/b", "b/../a" (the file of "a" again), "a.b" and "../groups/a",
\* under which a profile takes the place of group "a".
MCNameOf ==
  <<<<<<"a">>>>, <<<<"a">>, <<"b">>>>, <<<<"b">>, DotDot, <<"a">>>>, <<<<"a", "b">>>>,
    <<DotDot, <<"groups">>, <<"a">>>>>>

\* No selector, one for either key, both, one that wants an empty "os" (and so
\* matches a machine that sends none), one that does not parse.
MCSelectors ==
  {<<>>, [mac |-> "aa"], [os |-> "x"], [os |-> ""], [mac |-> "aa", os |-> "x"],
   [mac |-> "x"]}
MCGroupIn == [id : Id \ {5}, profile : {1}, selector : MCSelectors, metadata : {NoBytes}]
MCProfileIn == [id : {1, 2, 5}, ignition : {1}, cloud : {0}, generic : {0}, boot : {TRUE}]
\* The template names "", "t", "t/u", "../../t" and one with a zero byte.
MCTemplateIn ==
  {<<Empty>>, <<<<"t">>>>, <<<<"t">>, <<"u">>>>, <<DotDot, DotDot, <<"t">>>>, <<<<Nul>>>>}
\* A backup of a group, groups without an extension (one called "json"), a note,
\* a file that is all extension and a stray Ignition config.
MCByHand ==
  LET rg(sel) == [id |-> 1, profile |-> 1, selector |-> sel, metadata |-> NilMap]
  IN  {[path |-> <<<<"groups">>, <<"a", "bak">>>>, doc |-> rg([os |-> "x"])],
       [path |-> <<<<"groups">>, <<"c">>>>, doc |-> rg(<<>>)],
       [path |-> <<<<"groups">>, <<"note", "txt">>>>, doc |-> tmpl],
       [path |-> <<<<"groups">>, <<"", "json">>>>, doc |-> rg([os |-> ""])],
       [path |-> <<<<"groups">>, <<"json">>>>, doc |-> rg(<<>>)],
       [path |-> <<<<"groups">>, <<"b", "json">>>>, doc |-> ign]}

MCLabels ==
  {<<>>, [mac |-> "aa"], [os |-> "x"], [mac |-> "aa", os |-> "x"], NilLabels}

=============================================================================
