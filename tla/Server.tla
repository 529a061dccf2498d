------------------------------- MODULE Server -------------------------------
(***************************************************************************)
(* bootcfg as its clients see it: the HTTP endpoints (bootcfg/http) and    *)
(* the gRPC services (bootcfg/rpc), both through the same core server      *)
(* (bootcfg/server) on one file store.  Every request runs on a goroutine  *)
(* of its own; a boot request is a chain of store operations (list the     *)
(* groups, get the profile, get the template) between which the files may  *)
(* change under it.                                                        *)
(*                                                                         *)
(* Bodies are left out but for where they come from: the group, the        *)
(* profile and the template bytes a reply was made of.                     *)
(***************************************************************************)
EXTENDS FileStore, Selection

CONSTANTS
  HTTPProc,     \* goroutines that serve HTTP requests
  RPCProc,      \* goroutines that serve RPCs
  HTTPKind,     \* endpoints that are asked
  RPCKind,      \* RPC methods that are called
  Query,        \* queries and RPC labels
  MacLabel,     \* the key "mac", under which pixiecore looks machines up
  RequestVar,   \* the reserved template variable "request"
  RawName,      \* template names that end in .ign or .ignition
  Needs(_),     \* variables a template refers to
  Accepts(_)    \* per endpoint, the templates whose rendering it can convert

Endpoints == {"boot.ipxe", "grub", "ipxe", "pixiecore", "ignition", "cloud",
              "generic", "metadata"}
Methods == {"SelectGroup", "SelectProfile", "GroupPut", "GroupGet", "GroupList",
            "ProfilePut", "ProfileGet", "ProfileList", "IgnitionPut", "CloudPut"}

ASSUME ServerAssumption ==
  /\ Proc = HTTPProc \cup RPCProc
  /\ HTTPProc \cap RPCProc = {}
  /\ HTTPKind \subseteq Endpoints
  /\ RPCKind \subseteq Methods
  /\ Query \subseteq Selector \cup {NilLabels}
  /\ MacLabel \in MacKey
  /\ RequestVar \in Var
  /\ RawName \subseteq Id
  /\ \A t \in Doc : Needs(t) \subseteq Var
  /\ \A e \in Endpoints : Accepts(e) \subseteq Doc
  \* an empty template refers to nothing; Fuze converts it, cloud-init does not
  /\ \A t \in Doc : Size(t) = 0 =>
       /\ Needs(t) = {}
       /\ t \in Accepts("ignition") \cap Accepts("generic")
       /\ t \notin Accepts("cloud")

VARIABLE req    \* per goroutine, the request it serves

vars == <<storeVars, req>>

NoRequest ==
  [kind |-> "none", stage |-> "idle", labels |-> NilLabels,
   group |-> Failed, profile |-> Failed, bytes |-> <<>>, code |-> "none"]

-----------------------------------------------------------------------------
(***************************************************************************)
(* Replies.  HTTP 200, 400 and 404 and the gRPC codes OK, NotFound and     *)
(* Unknown.                                                                *)
(***************************************************************************)

\* The handler of p returns with this code, having found group g, profile f
\* and template bytes c.
Reply(p, code, g, f, c) ==
  req' = [req EXCEPT ![p].stage = "replied", ![p].code = code, ![p].group = g,
                     ![p].profile = f, ![p].bytes = c]

\* The reply follows a store operation, which has returned.
ReplyAndRelease(p, code, g, f, c) ==
  /\ Reply(p, code, g, f, c)
  /\ io' = [io EXCEPT ![p] = Idle]

\* Mutant: the selection errors are not told apart.
grpcErrorUnknown(err) == "Unknown"

\* grpcError: only the two selection errors have a code of their own.
grpcError(err) ==
  IF err \in {"ErrNoMatchingGroup", "ErrNoMatchingProfile"} THEN "NotFound"
  ELSE "Unknown"

-----------------------------------------------------------------------------
(***************************************************************************)
(* Requests                                                                *)
(***************************************************************************)

\* Query parameters as labels: a "mac" is set if and only if it parses.
labelsFromRequest(q) ==
  [k \in {k \in DOMAIN q : k \in MacKey => ParseMAC[q[k]] # NoMac} |->
     IF k \in MacKey THEN ParseMAC[q[k]] ELSE q[k]]

\* p takes up a request of this kind, which may read the paths X.
Accept(p, kind, stage, labels, X) ==
  /\ req[p].stage = "idle"
  /\ req' = [req EXCEPT ![p] = [NoRequest EXCEPT !.kind = kind, !.stage = stage,
                                                 !.labels = labels]]
  /\ Watch(p, X)
  /\ UNCHANGED <<dirs, created, files, last, spoiled>>

\* A request that is answered without the store.
AnswerAtOnce(p, kind, code) ==
  /\ req[p].stage = "idle"
  /\ req' = [req EXCEPT ![p] = [NoRequest EXCEPT !.kind = kind,
                                  !.stage = "replied", !.code = code]]
  /\ UNCHANGED storeVars

\* boot.ipxe is a fixed script; the other endpoints but pixiecore select by the
\* query parameters.
HTTPRequest(p) ==
  /\ p \in HTTPProc
  /\ \/ "boot.ipxe" \in HTTPKind /\ AnswerAtOnce(p, "boot.ipxe", "OK")
     \/ \E e \in HTTPKind \ {"boot.ipxe", "pixiecore"}, q \in Query \ {NilLabels} :
          /\ Accept(p, e, "groups", labelsFromRequest(q), Path)
          /\ GroupList(p)

\* Pixiecore sends a MAC address in the path.
PixiecoreRequest(p) ==
  /\ p \in HTTPProc
  /\ "pixiecore" \in HTTPKind
  /\ \E v \in Value :
       IF ParseMAC[v] = NoMac THEN AnswerAtOnce(p, "pixiecore", "BadRequest")
       ELSE /\ Accept(p, "pixiecore", "groups", [k \in {MacLabel} |-> ParseMAC[v]], Path)
            /\ GroupList(p)

\* RPC labels are taken as they are.
SelectRPC(p) ==
  /\ p \in RPCProc
  /\ \E m \in RPCKind \cap {"SelectGroup", "SelectProfile"}, labels \in Query :
       Accept(p, m, "groups", labels, Path) /\ GroupList(p)

\* The puts; a group or profile that AssertValid rejects is not stored.  A
\* request without a group or profile makes AssertValid panic, which ends the
\* process: that is Crash.
GroupPutRPC(p) ==
  /\ p \in RPCProc /\ "GroupPut" \in RPCKind
  /\ \E g \in GroupIn :
       IF ~GroupAssertValid(g) THEN AnswerAtOnce(p, "GroupPut", grpcError("invalid"))
       ELSE Accept(p, "GroupPut", "store", NilLabels, {}) /\ GroupPut(p, g)

ProfilePutRPC(p) ==
  /\ p \in RPCProc /\ "ProfilePut" \in RPCKind
  /\ \E f \in ProfileIn :
       IF ~ProfileAssertValid(f) THEN AnswerAtOnce(p, "ProfilePut", grpcError("invalid"))
       ELSE Accept(p, "ProfilePut", "store", NilLabels, {}) /\ ProfilePut(p, f)

IgnitionPutRPC(p) ==
  /\ p \in RPCProc /\ "IgnitionPut" \in RPCKind
  /\ \E t \in TemplateIn :
       /\ t[1] = "ignition"
       /\ Accept(p, "IgnitionPut", "store", NilLabels, {}) /\ IgnitionPut(p, t[2], t[3])

CloudPutRPC(p) ==
  /\ p \in RPCProc /\ "CloudPut" \in RPCKind
  /\ \E t \in TemplateIn :
       /\ t[1] = "cloud"
       /\ Accept(p, "CloudPut", "store", NilLabels, {}) /\ CloudPut(p, t[2], t[3])

\* The gets of single documents and the lists.
GroupGetRPC(p) ==
  /\ p \in RPCProc /\ "GroupGet" \in RPCKind
  /\ \E x \in GetIn :
       /\ x[1] = "groups"
       /\ Accept(p, "GroupGet", "store", NilLabels, {Place(x[1], x[2])})
       /\ GroupGet(p, x[2])

ProfileGetRPC(p) ==
  /\ p \in RPCProc /\ "ProfileGet" \in RPCKind
  /\ \E x \in GetIn :
       /\ x[1] = "profiles"
       /\ Accept(p, "ProfileGet", "store", NilLabels, {Place(x[1], x[2])})
       /\ ProfileGet(p, x[2])

GroupListRPC(p) ==
  /\ p \in RPCProc /\ "GroupList" \in RPCKind
  /\ Accept(p, "GroupList", "store", NilLabels, DirPaths("groups")) /\ GroupList(p)

ProfileListRPC(p) ==
  /\ p \in RPCProc /\ "ProfileList" \in RPCKind
  /\ Accept(p, "ProfileList", "store", NilLabels, DirPaths("profiles"))
  /\ ProfileList(p)

\* The one store operation of an RPC has returned.
StoreRPCDone(p) ==
  /\ req[p].stage = "store" /\ io[p].pc = "done"
  /\ ReplyAndRelease(p, IF io[p].err THEN grpcError("store") ELSE "OK",
                     Failed, Failed, <<>>)
  /\ UNCHANGED <<dirs, created, files, last, spoiled, seen>>

-----------------------------------------------------------------------------
(***************************************************************************)
(* Boot requests: select a group, get its profile, get its template        *)
(***************************************************************************)

\* The groups SelectGroup may return for the groups that p has listed.
Selected(p) ==
  IF io[p].err THEN {Failed} ELSE SelectGroup(io[p].got, req[p].labels)

Listed(p) ==
  /\ req[p].stage = "groups" /\ io[p].pc = "done"
  /\ UNCHANGED <<dirs, created, files, last, spoiled, seen>>

\* No group: HTTP answers 404 whatever the error was.  The SelectGroup RPC tells
\* a failed list from a missing match, the SelectProfile RPC does not.
GroupNotFound(p) ==
  /\ Listed(p)
  /\ Failed \in Selected(p)
  /\ LET err == IF req[p].kind = "SelectGroup" /\ io[p].err THEN "store"
                ELSE "ErrNoMatchingGroup"
     IN  ReplyAndRelease(p, IF p \in RPCProc THEN grpcError(err) ELSE "NotFound",
                         Failed, Failed, <<>>)

\* The variables a template is rendered with: the group's metadata, its
\* selectors and the reserved "request".
collectVariables(g) ==
  LET meta == IF g.metadata = NoBytes THEN {} ELSE Unmarshal[g.metadata]
  IN  IF meta = BadJSON THEN Failed
      ELSE meta \cup {ToLower[k] : k \in DOMAIN g.selector} \cup {RequestVar}

\* A request of this kind needs no more than the group it has selected.
GroupServed(p, kind, Code(_)) ==
  /\ Listed(p)
  /\ req[p].kind = kind
  /\ \E g \in Selected(p) \ {Failed} : ReplyAndRelease(p, Code(g), g, Failed, <<>>)

SelectGroupRPCDone(p) == GroupServed(p, "SelectGroup", LAMBDA g : "OK")

metadataHandler(p) ==
  GroupServed(p, "metadata",
              LAMBDA g : IF collectVariables(g) = Failed THEN "NotFound" ELSE "OK")

\* Mutant: ErrNoMatchingGroup is ignored and the empty profile name looked up.
ProfileOfNoGroup(p) ==
  /\ Listed(p)
  /\ req[p].kind \notin {"SelectGroup", "metadata"}
  /\ \E g \in Selected(p) :
       /\ req' = [req EXCEPT ![p].stage = "profile", ![p].group = g]
       /\ ProfileGet(p, IF g = Failed THEN NoId ELSE g.profile)

\* Mutant: the profile is looked up under the group's own id.
ProfileOfGroupId(p) ==
  /\ Listed(p)
  /\ req[p].kind \notin {"SelectGroup", "metadata"}
  /\ \E g \in Selected(p) \ {Failed} :
       /\ req' = [req EXCEPT ![p].stage = "profile", ![p].group = g]
       /\ ProfileGet(p, g.id)

\* The others go on to the group's profile.
ProfileWanted(p) ==
  /\ Listed(p)
  /\ req[p].kind \notin {"SelectGroup", "metadata"}
  /\ \E g \in Selected(p) \ {Failed} :
       /\ req' = [req EXCEPT ![p].stage = "profile", ![p].group = g]
       /\ ProfileGet(p, g.profile)

ProfileRead(p) ==
  /\ req[p].stage = "profile" /\ io[p].pc = "done"
  /\ UNCHANGED <<dirs, created, files, last, spoiled, seen>>

\* Mutant: HTTP handlers do not return on the error.
ProfileNotFoundRPC(p) ==
  /\ ProfileRead(p)
  /\ io[p].err
  /\ p \in RPCProc
  /\ ReplyAndRelease(p, grpcError("ErrNoMatchingProfile"), req[p].group, Failed, <<>>)

ProfileNotFound(p) ==
  /\ ProfileRead(p)
  /\ io[p].err
  /\ ReplyAndRelease(p, IF p \in RPCProc THEN grpcError("ErrNoMatchingProfile")
                        ELSE "NotFound", req[p].group, Failed, <<>>)

\* A request of this kind needs no more than the profile it has read.
ProfileServed(p, kind, Code(_)) ==
  /\ ProfileRead(p)
  /\ ~io[p].err
  /\ req[p].kind = kind
  /\ LET f == io[p].got[1]
     IN  ReplyAndRelease(p, Code(f), req[p].group, f, <<>>)

SelectProfileRPCDone(p) == ProfileServed(p, "SelectProfile", LAMBDA f : "OK")

\* GRUB and iPXE scripts cannot be rendered from nil boot settings; Pixiecore
\* encodes them as JSON null.
grubHandler(p) ==
  ProfileServed(p, "grub", LAMBDA f : IF f.boot THEN "OK" ELSE "NotFound")

ipxeHandler(p) ==
  ProfileServed(p, "ipxe", LAMBDA f : IF f.boot THEN "OK" ELSE "NotFound")

pixiecoreHandler(p) == ProfileServed(p, "pixiecore", LAMBDA f : "OK")

\* The template a profile names for an endpoint.
TemplateName(f, kind) ==
  CASE kind = "ignition" -> f.ignition
    [] kind = "cloud" -> f.cloud
    [] OTHER -> f.generic

\* Mutant: every endpoint reads its template from ignition/.
TemplateFromIgnition(p) ==
  /\ ProfileRead(p)
  /\ ~io[p].err
  /\ req[p].kind \in {"ignition", "cloud", "generic"}
  /\ req' = [req EXCEPT ![p].stage = "template", ![p].profile = io[p].got[1]]
  /\ IgnitionGet(p, TemplateName(io[p].got[1], req[p].kind))

TemplateWanted(p) ==
  /\ ProfileRead(p)
  /\ ~io[p].err
  /\ req[p].kind \in {"ignition", "cloud", "generic"}
  /\ LET f == io[p].got[1]
         n == TemplateName(f, req[p].kind)
     IN  /\ req' = [req EXCEPT ![p].stage = "template", ![p].profile = f]
         /\ CASE req[p].kind = "ignition" -> IgnitionGet(p, n)
              [] req[p].kind = "cloud" -> CloudGet(p, n)
              [] OTHER -> GenericGet(p, n)

\* Mutant: a missing variable is not an error.
renderAnyKey(kind, empty, c, v) ==
  IF c = <<>> THEN {empty}
  ELSE IF ~Whole(c) THEN {"OK", "NotFound"}
  ELSE {IF c[1] \in Accepts(kind) THEN "OK" ELSE "NotFound"}

\* How an endpoint may answer once it renders template bytes c with variables v
\* and converts the text.  No bytes render to no text, which it answers with
\* the code empty.  Bytes that are not a whole template may still render, or not.
renderTemplate(kind, empty, c, v) ==
  IF v = Failed THEN {"NotFound"}
  ELSE IF c = <<>> THEN {empty}
  ELSE IF ~Whole(c) THEN {"OK", "NotFound"}
  ELSE {IF Needs(c[1]) \subseteq v /\ c[1] \in Accepts(kind) THEN "OK" ELSE "NotFound"}

TemplateNotFound(p) ==
  /\ req[p].stage = "template" /\ io[p].pc = "done"
  /\ io[p].err
  /\ ReplyAndRelease(p, "NotFound", req[p].group, req[p].profile, <<>>)
  /\ UNCHANGED <<dirs, created, files, last, spoiled, seen>>

\* A request of this kind has read its template: Codes says how it may answer,
\* given the bytes and the variables.
TemplateServed(p, kind, Codes(_, _)) ==
  /\ req[p].stage = "template" /\ io[p].pc = "done"
  /\ ~io[p].err
  /\ req[p].kind = kind
  /\ \E code \in Codes(io[p].got[1].bytes, collectVariables(req[p].group)) :
       ReplyAndRelease(p, code, req[p].group, req[p].profile, io[p].got[1].bytes)
  /\ UNCHANGED <<dirs, created, files, last, spoiled, seen>>

\* A raw Ignition file is served as it is; Fuze takes an empty text.
ignitionHandler(p) ==
  TemplateServed(p, "ignition",
    LAMBDA c, v : IF req[p].profile.ignition \in RawName THEN {"OK"}
                  ELSE renderTemplate("ignition", "OK", c, v))

\* An empty text is no Cloud-Config.
cloudHandler(p) ==
  TemplateServed(p, "cloud", LAMBDA c, v : renderTemplate("cloud", "NotFound", c, v))

genericHandler(p) ==
  TemplateServed(p, "generic", LAMBDA c, v : renderTemplate("generic", "OK", c, v))

\* The reply is sent and the goroutine ends.
Finish(p) ==
  /\ req[p].stage = "replied"
  /\ req' = [req EXCEPT ![p] = NoRequest]
  /\ seen' = [seen EXCEPT ![p] = [x \in Path |-> {}]]
  /\ UNCHANGED <<dirs, created, files, io, last, spoiled>>

-----------------------------------------------------------------------------
(***************************************************************************)
(* The specification                                                       *)
(***************************************************************************)

Init == StoreInit /\ req = [p \in Proc |-> NoRequest]

Request(p) ==
  \/ HTTPRequest(p) \/ PixiecoreRequest(p) \/ SelectRPC(p)
  \/ GroupPutRPC(p) \/ ProfilePutRPC(p) \/ IgnitionPutRPC(p) \/ CloudPutRPC(p)
  \/ GroupGetRPC(p) \/ ProfileGetRPC(p) \/ GroupListRPC(p) \/ ProfileListRPC(p)

\* What the goroutine of a request does by itself.
Work(p) ==
  \/ SysCall(p) /\ UNCHANGED req
  \/ StoreRPCDone(p)
  \/ GroupNotFound(p) \/ SelectGroupRPCDone(p) \/ metadataHandler(p)
  \/ ProfileWanted(p) \/ ProfileNotFound(p) \/ SelectProfileRPCDone(p)
  \/ grubHandler(p) \/ ipxeHandler(p) \/ pixiecoreHandler(p)
  \/ TemplateWanted(p) \/ TemplateNotFound(p)
  \/ ignitionHandler(p) \/ cloudHandler(p) \/ genericHandler(p)
  \/ Finish(p)

Next ==
  \/ \E p \in Proc : Request(p) \/ Work(p) \/ (SysFault(p) /\ UNCHANGED req)
  \/ Crash /\ req' = [p \in Proc |-> NoRequest]

\* The Go scheduler runs every goroutine that can run, and the kernel returns
\* from every system call.
Fairness == \A p \in Proc : WF_vars(Work(p))

Spec == Init /\ [][Next]_vars /\ Fairness

-----------------------------------------------------------------------------
(***************************************************************************)
(* Properties                                                              *)
(***************************************************************************)

\* Types, and what a handler relies on when it goes on: it asks for a profile
\* only with the group it was told to, for a template only with the profile, so
\* it never follows a nil pointer; what it serves is what it went on with.
TypeOK ==
  /\ DOMAIN req = Proc
  /\ \A p \in Proc :
       /\ req[p].kind \in Endpoints \cup Methods \cup {"none"}
       /\ req[p].stage \in {"idle", "groups", "profile", "template", "store", "replied"}
       /\ req[p].code \in {"none", "OK", "BadRequest", "NotFound", "Unknown"}
       /\ req[p].group \in Group \cup {Failed}
       /\ req[p].profile \in Profile \cup {Failed}
       /\ req[p].stage \in {"profile", "template"} => req[p].group # Failed
       /\ req[p].stage = "template" => req[p].profile # Failed
       /\ req[p].profile # Failed => req[p].group # Failed

\* A request that selects a group and has its answer.
Answered(r) ==
  /\ r.stage = "replied"
  /\ r.kind \in (Endpoints \ {"boot.ipxe"}) \cup {"SelectGroup", "SelectProfile"}
  /\ r.code # "BadRequest"

\* The groups or profiles that a goroutine that saw s may have read at path x.
ParsedSeen(s, kind, x) == {ParseDoc(kind, d) : d \in Found(s[x])} \ {Failed}

\* Path x has held one thing and nothing else.
Steady(s, x) == \E d \in s[x] : s[x] = {d}

\* Of the groups whose files did not change, none that matches has more
\* selectors than the group of r, and none matches if r found no group.
NoneOutranks(r, s) ==
  \A x \in DirPaths("groups") : Steady(s, x) =>
    \A h \in ParsedSeen(s, "groups", x) :
      Matches(h, r.labels) =>
        r.group # Failed /\ SelectorCount(h) <= SelectorCount(r.group)

\* A group file that nobody touches while a request runs counts: if it matches
\* the machine, SelectGroup never answers with a group of fewer selectors, nor
\* with none, whatever happens to other groups, profiles and templates meanwhile.
StableGroupPreferred ==
  \A p \in Proc : Answered(req[p]) => NoneOutranks(req[p], seen[p])

\* The group of r matched its labels and was found while the request ran.
GroupFound(r, s) ==
  /\ Matches(r.group, r.labels)
  /\ \E x \in DirPaths("groups") : r.group \in ParsedSeen(s, "groups", x)

\* The profile of r was found under the name that its group gives.
ProfileFound(r, s) ==
  /\ r.group.profile \in Id
  /\ r.profile \in ParsedSeen(s, "profiles", Place("profiles", r.group.profile))

\* Every block of r's template was stored under the name its profile gives.
TemplateFound(r, s) ==
  LET n == TemplateName(r.profile, r.kind)
  IN  /\ n \in Id
      /\ \A i \in DOMAIN r.bytes : r.bytes[i] \in s[Place(r.kind, n)] \cup {Hole}

\* A 200 or OK answer is one chain: the group matched the labels and was stored
\* while the request ran, the profile was stored under the name that very group
\* gives, and every block of the template under the name that profile gives.
\* Stored means a whole document, or blocks of documents that were stored
\* meanwhile at a path that was torn.
AnswersFromOneChain ==
  \A p \in Proc : Answered(req[p]) /\ req[p].code = "OK" =>
    /\ GroupFound(req[p], seen[p])
    /\ req[p].kind \notin {"SelectGroup", "metadata"} => ProfileFound(req[p], seen[p])
    /\ req[p].kind \in {"ignition", "cloud", "generic"} => TemplateFound(req[p], seen[p])

\* The tree did not change while a goroutine saw s, and its calls did not fail.
Undisturbed(s) == \A x \in Path : Steady(s, x) /\ Torn \notin s[x]

\* The document of path x in such a tree.
Still(s, x) == CHOOSE d \in s[x] : TRUE

\* The groups stored in it.
GroupsSeen(s) == UNION {ParsedSeen(s, "groups", x) : x \in DirPaths("groups")}

\* How a request of kind k is answered for group g and profile f of that tree.
ExpectedFor(k, s, g, f) ==
  CASE k \in {"SelectProfile", "pixiecore"} -> "OK"
    [] k \in {"grub", "ipxe"} -> IF f.boot THEN "OK" ELSE "NotFound"
    [] OTHER ->
         LET n == TemplateName(f, k)
             t == Still(s, Place(k, n))
         IN  CASE n = NoId -> "NotFound"
               [] n # NoId /\ t = NoFile -> "NotFound"
               [] k = "ignition" /\ n \in RawName /\ t # NoFile -> "OK"
               [] OTHER -> IF /\ Needs(t) \subseteq collectVariables(g)
                              /\ t \in Accepts(k)
                           THEN "OK" ELSE "NotFound"

\* The codes a boot request may be answered with when the tree that it saw is
\* the whole story.
Expected(r, s) ==
  LET best == Best(GroupsSeen(s), r.labels)
      profiles(g) == IF g.profile = NoId THEN {}
                     ELSE ParsedSeen(s, "profiles", Place("profiles", g.profile))
  IN  IF best = {}
      THEN IF r.kind = "SelectGroup" THEN {"NotFound", "Unknown"} ELSE {"NotFound"}
      ELSE UNION {IF r.kind \in {"SelectGroup", "metadata"} THEN {"OK"}
                  ELSE IF profiles(g) = {} THEN {"NotFound"}
                  ELSE {ExpectedFor(r.kind, s, g, f) : f \in profiles(g)}
                  : g \in best}

\* A boot request during which no file changed and no system call failed is
\* answered as if it had run alone on that tree: 200 exactly when a best
\* matching group, its profile and its template all exist and render.
UndisturbedAnswer ==
  \A p \in Proc :
    Answered(req[p]) /\ Undisturbed(seen[p]) => req[p].code \in Expected(req[p], seen[p])

\* Every request is answered (or dies with the process): no chain of store
\* operations waits for another request.
EveryRequestAnswered ==
  \A p \in Proc : req[p].stage # "idle" ~> req[p].stage = "idle"

\* The comment of server.go:129-131: groups are evaluated from most selectors to
\* least.  A group file that exists all along, and that matches in every version
\* the request could have read, is never passed over for a weaker group.
MostSelectorsFirst ==
  \A p \in Proc : Answered(req[p]) =>
    \A x \in DirPaths("groups") :
      NoFile \notin seen[p][x] /\ seen[p][x] \cap Doc # {} =>
        \/ \E d \in seen[p][x] \cap Doc :
             LET h == ParseGroup(d)
             IN  h = Failed \/ ~Matches(h, req[p].labels)
        \/ \E h \in ParsedSeen(seen[p], "groups", x) :
             req[p].group # Failed /\ SelectorCount(h) <= SelectorCount(req[p].group)

=============================================================================
