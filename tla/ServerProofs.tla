----------------------------- MODULE ServerProofs -----------------------------
(***************************************************************************)
(* Proofs about Server: the answers of a boot request are made of one      *)
(* chain of documents, prefer the groups that were there all along, and    *)
(* are the ones of a sequential reading when nothing changes meanwhile.    *)
(* The invariant follows a request from stage to stage: what it has found  *)
(* so far, and the store operation that it waits for.                      *)
(***************************************************************************)
EXTENDS Server, ReadProofs

-----------------------------------------------------------------------------
(***************************************************************************)
(* The invariant                                                           *)
(***************************************************************************)

RequestFields ==
  [kind : Endpoints \cup Methods \cup {"none"},
   stage : {"idle", "groups", "profile", "template", "store", "replied"},
   labels : Selector \cup {NilLabels}, group : Group \cup {Failed},
   profile : Profile \cup {Failed}, bytes : Seq(Block),
   code : {"none", "OK", "BadRequest", "NotFound", "Unknown"}]

\* A profile is only found through a group.
RequestType == {r \in RequestFields : r.profile # Failed => r.group # Failed}

\* The kinds of request that select a group.
BootKinds == (Endpoints \ {"boot.ipxe"}) \cup {"SelectGroup", "SelectProfile"}

TemplateKinds == {"ignition", "cloud", "generic"}

\* A failed list has no result, a get that did not fail has one, of a path that
\* exists as a name; a template is returned as it was read.
GotInv(o, s) ==
  /\ o.op = "list" => /\ o.err => o.got = <<>>
                      /\ o.pc = "readdir" => o.got = <<>>
  /\ o.op = "get" /\ o.pc = "done" /\ ~o.err =>
       \E x \in Path :
         /\ Asks(o, x)
         /\ Len(o.got) = 1
         /\ o.kind \in TemplateKinds =>
              \E c \in Seq(Block) :
                /\ o.got[1] = [bytes |-> c]
                /\ \A i \in 1..Len(c) : c[i] \in s[x] \cup {Hole}

\* A boot request watches the whole tree from its first step on.
AllWatched(s) == \A x \in Path : s[x] # {}

\* The group of r was chosen well.
Chosen(r, s) == r.group \in Group /\ GroupFound(r, s) /\ NoneOutranks(r, s)

\* The operation that r waits for gets path x, for a document of this kind.
Gets(o, kind, x) ==
  /\ o.op = "get" /\ o.kind = kind /\ o.pc \in {"read", "done"}
  /\ o.dir = x[1] /\ o.todo = {x[2]}

AtGroups(r, o, s) ==
  /\ r.kind \in BootKinds /\ AllWatched(s)
  /\ o.op = "list" /\ o.kind = "groups" /\ o.dir = "groups"
  /\ o.pc \in {"readdir", "read", "done"}

AtProfile(r, o, s) ==
  /\ r.kind \in BootKinds \ {"SelectGroup", "metadata"} /\ AllWatched(s)
  /\ Chosen(r, s)
  /\ Gets(o, "profiles", Place("profiles", r.group.profile))

AtTemplate(r, o, s) ==
  /\ r.kind \in TemplateKinds /\ AllWatched(s)
  /\ Chosen(r, s)
  /\ r.profile \in Profile /\ ProfileFound(r, s)
  /\ Gets(o, r.kind, Place(r.kind, TemplateName(r.profile, r.kind)))

\* What the properties say of an answer.
GoodAnswer(r, s) ==
  /\ AllWatched(s)
  /\ NoneOutranks(r, s)
  /\ r.code = "OK" =>
       /\ GroupFound(r, s)
       /\ r.kind \notin {"SelectGroup", "metadata"} => ProfileFound(r, s)
       /\ r.kind \in TemplateKinds => TemplateFound(r, s)
  /\ Undisturbed(s) => r.code \in Expected(r, s)

RequestInv(r, o, s) ==
  /\ r.stage \in {"idle", "replied"} => o.pc = "idle"
  /\ r.stage = "store" => r.kind \notin BootKinds
  /\ r.stage = "groups" => AtGroups(r, o, s)
  /\ r.stage = "profile" => AtProfile(r, o, s)
  /\ r.stage = "template" => AtTemplate(r, o, s)
  /\ Answered(r) => GoodAnswer(r, s)

RequestsInv ==
  /\ req \in [Proc -> RequestType]
  /\ \A p \in Proc :
       /\ GotInv(io[p], seen[p])
       /\ RequestInv(req[p], io[p], seen[p])

\* The inductive invariant.
ServerInv == StoreInv /\ ReadInv /\ RequestsInv

-----------------------------------------------------------------------------
(***************************************************************************)
(* What a system call changes for requests                                 *)
(***************************************************************************)

\* What has been seen only grows.
LEMMA SysSeen ==
  ASSUME StoreInv, ReadInv, NEW p \in Proc, SysCall(p) \/ SysFault(p)
  PROVE  \A q \in Proc, x \in Path : seen[q][x] \subseteq seen'[q][x]
<1>1. CASE OpenTrunc(p)
  <2>1. PICK x \in Path, d \in Doc : Opens(p, x, d)
    BY <1>1, OpenEffect
  <2>2. \A q \in Proc, y \in Path :
          seen'[q][y] = IF y = x /\ seen[q][x] # {} THEN seen[q][x] \cup {Torn, d}
                        ELSE seen[q][y]
    BY <2>1 DEF Opens
  <2>. QED
    BY <2>2
<1>2. CASE \/ ReadDir(p) \/ ReadBlocks(p) \/ ReadEOF(p) \/ ReadMissing(p) \/ ReadError(p)
           \/ ListDone(p) \/ ReadDirError(p)
  <2>1. \A q \in Proc, x \in Path : seen'[q][x] \in {seen[q][x], seen[q][x] \cup {Torn}}
    BY <1>2, ReaderSees
  <2>. QED
    BY <2>1
<1>3. CASE seen' = seen
  BY <1>3
<1>. QED
  BY <1>1, <1>2, <1>3 DEF SysCall, SysFault, MkdirAll, WriteBlocks, CloseFile, WriteError

\* A system call moves one goroutine and goes on with the same operation.
Continues(o, o2) ==
  /\ o.pc # "idle" /\ o2.pc # "idle"
  /\ o.op \in {"get", "list"} =>
       /\ o2.op = o.op /\ o2.kind = o.kind /\ o2.dir = o.dir
       /\ o2.pc \in {"read", "done"}
  /\ o.op = "get" => o2.todo = o.todo

LEMMA SysMoves ==
  ASSUME StoreInv, ReadInv, NEW p \in Proc, SysCall(p) \/ SysFault(p)
  PROVE  /\ \A q \in Proc \ {p} : io'[q] = io[q]
         /\ Continues(io[p], io'[p])
<1>1. io \in [Proc -> Op] /\ io[p] \in Op /\ OpShape(io[p])
  BY DEF StoreInv, StoreTypeOK, ReadInv, ReaderInv
<1>2. CASE MkdirAll(p) \/ OpenTrunc(p) \/ WriteBlocks(p) \/ CloseFile(p) \/ WriteError(p)
  <2>1. io[p].pc \in {"mkdir", "open", "write"} /\ io[p].op = "put"
    BY <1>1, <1>2 DEF MkdirAll, OpenTrunc, WriteBlocks, CloseFile, WriteError, OpShape
  <2>2. io'[p].pc # "idle"
    <3>1. CASE MkdirAll(p) \/ OpenTrunc(p)
      BY <1>1, <3>1 DEF MkdirAll, OpenTrunc, Op
    <3>2. CASE WriteBlocks(p)
      BY <1>1, <3>2 DEF WriteBlocks, Op
    <3>3. CASE CloseFile(p) \/ WriteError(p)
      BY <1>1, <3>3 DEF CloseFile, WriteError, PutReturns, Idle
    <3>. QED
      BY <1>2, <3>1, <3>2, <3>3
  <2>3. \A q \in Proc \ {p} : io'[q] = io[q]
    BY <1>1, <1>2 DEF MkdirAll, OpenTrunc, WriteBlocks, CloseFile, WriteError, PutReturns
  <2>. QED
    BY <2>1, <2>2, <2>3 DEF Continues
<1>3. CASE ReadDir(p)
  <2>1. io[p].pc = "readdir" /\ io[p].op = "list"
    BY <1>1, <1>3 DEF ReadDir, OpShape
  <2>2. /\ io'[p].pc \in {"read", "done"} /\ io'[p].op = "list" /\ io'[p].dir = io[p].dir
        /\ io'[p].kind = io[p].kind
    BY <1>1, <1>3, <2>1 DEF ReadDir, Op
  <2>. QED
    BY <1>1, <1>3, <2>1, <2>2 DEF ReadDir, Continues
<1>4. CASE ReadBlocks(p)
  BY <1>1, <1>4 DEF ReadBlocks, Continues, Op
<1>5. CASE ReadEOF(p) \/ ReadMissing(p) \/ ReadError(p)
  <2>1. PICK r : FileRead(p, r) /\ io[p].pc = "read"
    BY <1>5 DEF ReadEOF, ReadMissing, ReadError
  <2>2. /\ io'[p].pc \in {"read", "done"} /\ io'[p].op = io[p].op /\ io'[p].dir = io[p].dir
        /\ io'[p].kind = io[p].kind
        /\ io[p].op = "get" => io'[p].todo = io[p].todo
    BY <1>1, <2>1 DEF FileRead, Op
  <2>. QED
    BY <1>1, <2>1, <2>2 DEF FileRead, Continues
<1>6. CASE ListDone(p) \/ ReadDirError(p)
  <2>1. io[p].pc \in {"read", "readdir"}
    BY <1>6 DEF ListDone, ReadDirError
  <2>2. /\ io'[p].pc = "done" /\ io'[p].op = io[p].op /\ io'[p].dir = io[p].dir
        /\ io'[p].todo = io[p].todo /\ io'[p].kind = io[p].kind
    BY <1>1, <1>6 DEF ListDone, ReadDirError, Op
  <2>. QED
    BY <1>1, <1>6, <2>1, <2>2 DEF ListDone, ReadDirError, Continues
<1>. QED
  BY <1>2, <1>3, <1>4, <1>5, <1>6 DEF SysCall, SysFault

\* What an operation has got keeps its meaning when more has been seen.
LEMMA GotGrows ==
  ASSUME NEW o, NEW s, NEW t, \A x \in Path : s[x] \subseteq t[x], GotInv(o, s)
  PROVE  GotInv(o, t)
BY DEF GotInv

LEMMA SysGot ==
  ASSUME StoreInv, ReadInv, NEW p \in Proc, GotInv(io[p], seen[p]), SysCall(p) \/ SysFault(p)
  PROVE  GotInv(io'[p], seen'[p])
<1>1. io \in [Proc -> Op] /\ io[p] \in Op /\ OpShape(io[p]) /\ ReaderInv(p)
  BY DEF StoreInv, StoreTypeOK, ReadInv, ReaderInv
<1>2. CASE MkdirAll(p) \/ OpenTrunc(p) \/ WriteBlocks(p) \/ CloseFile(p) \/ WriteError(p)
  <2>1. io[p].op = "put"
    BY <1>1, <1>2 DEF MkdirAll, OpenTrunc, WriteBlocks, CloseFile, WriteError, OpShape
  <2>2. io'[p].op = "put"
    <3>1. CASE MkdirAll(p) \/ OpenTrunc(p)
      BY <1>1, <2>1, <3>1 DEF MkdirAll, OpenTrunc, Op
    <3>2. CASE WriteBlocks(p)
      BY <1>1, <2>1, <3>2 DEF WriteBlocks, Op
    <3>3. CASE CloseFile(p) \/ WriteError(p)
      BY <1>1, <3>3 DEF CloseFile, WriteError, PutReturns, Idle
    <3>. QED
      BY <1>2, <3>1, <3>2, <3>3
  <2>. QED
    BY <2>2 DEF GotInv
<1>3. CASE ReadDir(p) \/ ReadDirError(p)
  <2>1. io[p].op = "list" /\ io[p].got = <<>>
    BY <1>1, <1>3 DEF ReadDir, ReadDirError, OpShape, GotInv
  <2>2. io'[p].op = "list" /\ io'[p].got = <<>>
    <3>1. CASE ReadDir(p)
      BY <1>1, <2>1, <3>1 DEF ReadDir, Op
    <3>2. CASE ReadDirError(p)
      BY <1>1, <2>1, <3>2 DEF ReadDirError, Op
    <3>. QED
      BY <1>3, <3>1, <3>2
  <2>. QED
    BY <2>2 DEF GotInv
<1>4. CASE ReadBlocks(p)
  <2>1. /\ io'[p].op = io[p].op /\ io'[p].got = io[p].got /\ io'[p].err = io[p].err
        /\ io'[p].pc = "read"
    BY <1>1, <1>4 DEF ReadBlocks, Op
  <2>. QED
    BY <2>1 DEF GotInv
<1>5. CASE ListDone(p)
  <2>1. io[p].op = "list"
    BY <1>1, <1>5 DEF ListDone, OpShape, Op
  <2>2. /\ io'[p].op = "list" /\ io'[p].got = io[p].got /\ io'[p].err = io[p].err
        /\ io'[p].pc = "done"
    BY <1>1, <1>5, <2>1 DEF ListDone, Op
  <2>. QED
    BY <2>1, <2>2 DEF GotInv
<1>6. ASSUME io[p].pc = "read", NEW r, FileRead(p, r)
      PROVE  /\ io'[p].op = io[p].op /\ io'[p].dir = io[p].dir /\ io'[p].kind = io[p].kind
             /\ io[p].op = "list" => io'[p].pc = "read" /\ io'[p].err = FALSE
             /\ io[p].op = "get" => /\ io'[p].err = (r = Failed) /\ io'[p].todo = io[p].todo
                                    /\ r # Failed => io'[p].got = <<r>>
  <2>1. /\ io'[p].op = io[p].op /\ io'[p].dir = io[p].dir /\ io'[p].kind = io[p].kind
        /\ io[p].op = "list" => io'[p].pc = "read" /\ io'[p].err = FALSE
        /\ io[p].op = "get" => /\ io'[p].err = (r = Failed) /\ io'[p].todo = io[p].todo
                               /\ r # Failed => io'[p].got = Append(io[p].got, r)
    BY <1>1, <1>6 DEF FileRead, Op
  <2>2. io[p].op = "get" => io[p].got = <<>>
    BY <1>1, <1>6 DEF OpShape
  <2>. QED
    BY <2>1, <2>2
<1>7. CASE ReadMissing(p) \/ ReadError(p)
  <2>1. FileRead(p, Failed) /\ io[p].pc = "read"
    BY <1>7 DEF ReadMissing, ReadError
  <2>2. io[p].op \in {"get", "list"}
    BY <1>1, <2>1 DEF OpShape
  <2>. QED
    BY <1>6, <2>1, <2>2 DEF GotInv
<1>8. CASE ReadEOF(p)
  <2>. DEFINE b == io[p].buf
  <2>0. PICK r \in Parse(io[p].kind, b) : FileRead(p, r)
    BY <1>8 DEF ReadEOF
  <2>1. /\ FileRead(p, r) /\ io[p].pc = "read" /\ io[p].op \in {"get", "list"}
        /\ io[p].todo # {} /\ seen' = seen /\ b \in Seq(Block)
    BY <1>1, <1>8, <2>0 DEF ReadEOF, OpShape, Op
  <2>2. PICK x \in Path : x = Target(p)
    BY <1>8 DEF ReadEOF, StoreInv, StoreTypeOK
  <2>3. Asks(io[p], x)
    BY <1>1, <2>1, <2>2, AsksTarget DEF IsReading
  <2>4. \A i \in 1..Len(b) : b[i] \in seen'[p][x] \cup {Hole}
    BY <1>1, <2>1, <2>2 DEF ReaderInv, Buffered, BufferOK
  <2>5. io[p].kind \in TemplateKinds => r = [bytes |-> b]
    BY <2>0 DEF Parse, TemplateKinds
  <2>. HIDE DEF b
  <2>6. CASE io[p].op = "list"
    BY <1>6, <2>1, <2>6 DEF GotInv
  <2>7. CASE io[p].op = "get" /\ r = Failed
    BY <1>6, <2>1, <2>7 DEF GotInv
  <2>8. CASE io[p].op = "get" /\ r # Failed
    <3>1. /\ io'[p].op = "get" /\ io'[p].dir = io[p].dir /\ io'[p].todo = io[p].todo
          /\ io'[p].got = <<r>> /\ io'[p].kind = io[p].kind
      BY <1>6, <2>1, <2>8
    <3>2. Asks(io'[p], x)
      BY <2>3, <2>8, <3>1 DEF Asks
    <3>3. Len(io'[p].got) = 1 /\ io'[p].got[1] = r
      BY <3>1
    <3>. QED
      BY <2>1, <2>4, <2>5, <3>1, <3>2, <3>3 DEF GotInv
  <2>. QED
    BY <2>1, <2>6, <2>7, <2>8
<1>. QED
  BY <1>2, <1>3, <1>4, <1>5, <1>7, <1>8 DEF SysCall, SysFault

-----------------------------------------------------------------------------
(***************************************************************************)
(* What a request has found stays found                                    *)
(***************************************************************************)

LEMMA ParsedGrows ==
  ASSUME NEW s, NEW t, NEW kind, NEW x, s[x] \subseteq t[x]
  PROVE  ParsedSeen(s, kind, x) \subseteq ParsedSeen(t, kind, x)
<1>1. Found(s[x]) \subseteq Found(t[x])
  BY FoundMonotone
<1>. QED
  BY <1>1 DEF ParsedSeen

\* A path that has held one thing only was never mixed.
LEMMA FoundOfOne ==
  ASSUME NEW d
  PROVE  Found({d}) = {d} \cap Doc
<1>1. CASE d \in Doc
  BY <1>1, Signs DEF Found
<1>2. CASE d \notin Doc
  <2>1. {d} \cap Doc = {}
    BY <1>2
  <2>. QED
    BY <2>1, MixtureOfOne DEF Found
<1>. QED
  BY <1>1, <1>2

\* A path that was watched and is steady has not changed.
LEMMA SteadySame ==
  ASSUME NEW s, NEW t, NEW x, s[x] \subseteq t[x], s[x] # {}, Steady(t, x)
  PROVE  s[x] = t[x]
BY DEF Steady

LEMMA FoundGrows ==
  ASSUME NEW s, NEW t, \A x \in Path : s[x] \subseteq t[x], AllWatched(s), NEW r
  PROVE  /\ AllWatched(t)
         /\ GroupFound(r, s) => GroupFound(r, t)
         /\ NoneOutranks(r, s) => NoneOutranks(r, t)
         /\ ProfileFound(r, s) => ProfileFound(r, t)
         /\ r.kind \in TemplateKinds /\ TemplateFound(r, s) => TemplateFound(r, t)
<1>1. \A kind : \A x \in Path : ParsedSeen(s, kind, x) \subseteq ParsedSeen(t, kind, x)
  BY ParsedGrows
<1>2. AllWatched(t)
  BY DEF AllWatched
<1>3. GroupFound(r, s) => GroupFound(r, t)
  BY <1>1 DEF GroupFound, DirPaths
<1>4. ProfileFound(r, s) => ProfileFound(r, t)
  <2>1. r.group.profile \in Id => Place("profiles", r.group.profile) \in Path
    BY PlaceType DEF Dirs
  <2>. QED
    BY <1>1, <2>1 DEF ProfileFound
<1>5. ASSUME NoneOutranks(r, s) PROVE NoneOutranks(r, t)
  <2>. SUFFICES ASSUME NEW x \in DirPaths("groups"), Steady(t, x)
                PROVE  Steady(s, x) /\ ParsedSeen(s, "groups", x) = ParsedSeen(t, "groups", x)
    BY <1>5 DEF NoneOutranks
  <2>1. x \in Path
    BY DEF DirPaths
  <2>2. s[x] = t[x]
    BY <2>1, SteadySame DEF AllWatched
  <2>. QED
    BY <2>2 DEF Steady, ParsedSeen
<1>6. ASSUME r.kind \in TemplateKinds, TemplateFound(r, s) PROVE TemplateFound(r, t)
  <2>. DEFINE n == TemplateName(r.profile, r.kind)
  <2>1. n \in Id /\ \A i \in DOMAIN r.bytes : r.bytes[i] \in s[Place(r.kind, n)] \cup {Hole}
    BY <1>6 DEF TemplateFound
  <2>2. Place(r.kind, n) \in Path
    BY <1>6, <2>1, PlaceType DEF Dirs, TemplateKinds
  <2>3. s[Place(r.kind, n)] \subseteq t[Place(r.kind, n)]
    BY <2>2
  <2>. QED
    BY <2>1, <2>3 DEF TemplateFound
<1>. QED
  BY <1>2, <1>3, <1>4, <1>5, <1>6

SeenBy == [Path -> SUBSET (Block \cup {NoDoc, Torn, NoFile})]

\* In a tree that was left alone nothing new is seen.
LEMMA UndisturbedSame ==
  ASSUME NEW s \in SeenBy, NEW t \in SeenBy, \A x \in Path : s[x] \subseteq t[x],
         AllWatched(s), Undisturbed(t)
  PROVE  s = t
<1>1. \A x \in Path : s[x] = t[x]
  BY SteadySame DEF AllWatched, Undisturbed
<1>. QED
  BY <1>1 DEF SeenBy

LEMMA GoodAnswerGrows ==
  ASSUME NEW s \in SeenBy, NEW t \in SeenBy, \A x \in Path : s[x] \subseteq t[x],
         NEW r, GoodAnswer(r, s)
  PROVE  GoodAnswer(r, t)
<1>1. AllWatched(s)
  BY DEF GoodAnswer
<1>2. Undisturbed(t) => r.code \in Expected(r, t)
  <2>. SUFFICES ASSUME Undisturbed(t) PROVE r.code \in Expected(r, t)
    OBVIOUS
  <2>1. s = t
    BY <1>1, UndisturbedSame
  <2>. QED
    BY <2>1 DEF GoodAnswer
<1>. QED
  BY <1>1, <1>2, FoundGrows DEF GoodAnswer

\* A request that is waiting or has been answered, while its operation goes on
\* or stands still and more is seen.
LEMMA RequestGrows ==
  ASSUME NEW s \in SeenBy, NEW t \in SeenBy, \A x \in Path : s[x] \subseteq t[x],
         NEW r, NEW o, NEW o2, o2 = o \/ Continues(o, o2), RequestInv(r, o, s)
  PROVE  RequestInv(r, o2, t)
<1>1. r.stage \in {"idle", "replied"} => o2.pc = "idle"
  BY DEF RequestInv, Continues
<1>2. r.stage = "store" => r.kind \notin BootKinds
  BY DEF RequestInv
<1>3. ASSUME r.stage = "groups" PROVE AtGroups(r, o2, t)
  <2>1. AtGroups(r, o, s)
    BY <1>3 DEF RequestInv
  <2>2. AllWatched(t)
    BY <2>1, FoundGrows DEF AtGroups
  <2>. QED
    BY <2>1, <2>2 DEF AtGroups, Continues
<1>4. ASSUME NEW kind, NEW x, Gets(o, kind, x) PROVE Gets(o2, kind, x)
  BY <1>4 DEF Gets, Continues
<1>5. ASSUME AllWatched(s), Chosen(r, s) PROVE Chosen(r, t)
  BY <1>5, FoundGrows DEF Chosen
<1>6. ASSUME r.stage = "profile" PROVE AtProfile(r, o2, t)
  <2>1. AtProfile(r, o, s)
    BY <1>6 DEF RequestInv
  <2>2. AllWatched(t)
    BY <2>1, FoundGrows DEF AtProfile
  <2>. QED
    BY <1>4, <1>5, <2>1, <2>2 DEF AtProfile
<1>7. ASSUME r.stage = "template" PROVE AtTemplate(r, o2, t)
  <2>1. AtTemplate(r, o, s)
    BY <1>7 DEF RequestInv
  <2>2. AllWatched(t) /\ ProfileFound(r, t)
    BY <2>1, FoundGrows DEF AtTemplate
  <2>. QED
    BY <1>4, <1>5, <2>1, <2>2 DEF AtTemplate
<1>8. Answered(r) => GoodAnswer(r, t)
  BY GoodAnswerGrows DEF RequestInv
<1>. QED
  BY <1>1, <1>2, <1>3, <1>6, <1>7, <1>8 DEF RequestInv

\* System calls, whether they fail or not, keep the invariant.
LEMMA SysStep ==
  ASSUME ServerInv, NEW p \in Proc, SysCall(p) \/ SysFault(p), UNCHANGED req
  PROVE  RequestsInv'
<1>1. StoreInv /\ ReadInv /\ RequestsInv
  BY DEF ServerInv
<1>2. StoreInv'
  <2>1. [StoreNext]_storeVars
    BY DEF StoreNext
  <2>. QED
    BY <1>1, <2>1, NextInv
<1>3. \A q \in Proc, x \in Path : seen[q][x] \subseteq seen'[q][x]
  BY <1>1, SysSeen
<1>4. \A q \in Proc : io'[q] = io[q] \/ Continues(io[q], io'[q])
  BY <1>1, SysMoves
<1>5. \A q \in Proc : seen[q] \in SeenBy /\ seen'[q] \in SeenBy
  BY <1>1, <1>2 DEF StoreInv, StoreTypeOK, SeenType, SeenBy
<1>. SUFFICES ASSUME NEW q \in Proc
              PROVE  /\ GotInv(io'[q], seen'[q])
                     /\ RequestInv(req'[q], io'[q], seen'[q])
  BY <1>1 DEF RequestsInv
<1>6. GotInv(io[q], seen[q]) /\ RequestInv(req[q], io[q], seen[q])
  BY <1>1 DEF RequestsInv
<1>8. RequestInv(req'[q], io'[q], seen'[q])
  <2>1. req'[q] = req[q]
    OBVIOUS
  <2>. QED
    BY <1>3, <1>4, <1>5, <1>6, <2>1, RequestGrows
<1>9. GotInv(io'[q], seen'[q])
  <2>1. CASE q = p
    BY <1>1, <1>6, <2>1, SysGot
  <2>2. CASE q # p
    <3>1. io'[q] = io[q]
      BY <1>1, <2>2, SysMoves
    <3>. QED
      BY <1>3, <1>6, <3>1, GotGrows
  <2>. QED
    BY <2>1, <2>2
<1>. QED
  BY <1>8, <1>9

-----------------------------------------------------------------------------
(***************************************************************************)
(* Steps of the store in which one goroutine starts or ends an operation   *)
(***************************************************************************)

\* A goroutine that is not writing ends its operation.
LEMMA ReleaseStore ==
  ASSUME StoreInv, ReadInv, NEW p \in Proc, io' = [io EXCEPT ![p] = Idle],
         io[p].pc # "write", UNCHANGED <<dirs, created, files, last, spoiled, seen>>
  PROVE  StoreInv' /\ ReadInv'
<1>1. Idle.pc = "idle" /\ Idle.op = "none"
  BY DEF Idle
<1>2. StoreInv'
  BY <1>1, IdleType, QuietStep DEF StoreInv, StoreTypeOK
<1>3. io'[p] = Idle
  BY DEF StoreInv, StoreTypeOK
<1>4. ReaderInv(p)'
  BY <1>1, <1>3, NotReading DEF OpShape, IsReading
<1>. QED
  BY <1>1, <1>2, <1>4, QuietUnseen

\* A list starts that watches at least its directory.
LEMMA ListStore ==
  ASSUME StoreInv, ReadInv, NEW p \in Proc, NEW dir \in Dirs, NEW X, DirPaths(dir) \subseteq X,
         StartList(p, dir), Watch(p, X), io[p].pc # "write",
         UNCHANGED <<dirs, created, files, last, spoiled>>
  PROVE  StoreInv' /\ ReadInv'
<1>. DEFINE o == [Idle EXCEPT !.pc = "readdir", !.op = "list", !.kind = dir, !.dir = dir]
<1>1. /\ o.pc = "readdir" /\ o.op = "list" /\ o.dir = dir /\ o.todo = {}
      /\ o.buf = <<>> /\ o.got = <<>>
  BY DEF Idle
<1>2. io' = [io EXCEPT ![p] = o] /\ io'[p] = o
  BY DEF StartList, StoreInv, StoreTypeOK
<1>. HIDE DEF o
<1>3. OpShape(o) /\ IsReading(o)
  BY <1>1 DEF OpShape, IsReading
<1>4. Watches(o, seen'[p])
  <2>1. \A x \in Path : Asks(o, x) => x \in X
    BY <1>1 DEF Asks, DirPaths
  <2>. QED
    BY <2>1, WatchFacts DEF Watches
<1>5. ReaderInv(p)'
  BY <1>1, <1>2, <1>3, <1>4, FreshReader
<1>6. ReadInv'
  BY <1>1, <1>2, <1>5, WatchFacts, QuietRead
<1>7. seen' \in SeenType
  BY WatchType
<1>. QED
  BY <1>6, <1>7, StartListStep

\* A get starts that watches its path, or has watched it before.
LEMMA GetStore ==
  ASSUME StoreInv, ReadInv, NEW p \in Proc, NEW kind \in Dirs,
         NEW x \in Dirs \X (Name \cup {NoId}),
         StartGet(p, kind, x), io[p].pc # "write",
         UNCHANGED <<dirs, created, files, last, spoiled>>,
         Watch(p, {x}) \/ (UNCHANGED seen /\ AllWatched(seen[p]))
  PROVE  StoreInv' /\ ReadInv'
<1>1. seen' \in SeenType
  BY WatchType DEF StoreInv, StoreTypeOK
<1>2. StoreInv'
  BY <1>1, StartGetStep
<1>3. CASE Watch(p, {x})
  BY <1>2, <1>3, StartGetRead
<1>4. CASE UNCHANGED seen /\ AllWatched(seen[p])
  <2>. DEFINE o == [Idle EXCEPT !.pc = "read", !.op = "get", !.kind = kind, !.dir = x[1],
                                !.todo = {x[2]}]
  <2>1. /\ o.pc = "read" /\ o.op = "get" /\ o.dir = x[1] /\ o.todo = {x[2]}
        /\ o.buf = <<>> /\ o.got = <<>>
    BY DEF Idle
  <2>2. io' = [io EXCEPT ![p] = o] /\ io'[p] = o
    BY DEF StartGet, StoreInv, StoreTypeOK
  <2>. HIDE DEF o
  <2>3. OpShape(o) /\ IsReading(o)
    BY <2>1 DEF OpShape, IsReading
  <2>4. Watches(o, seen'[p])
    BY <1>4 DEF Watches, AllWatched
  <2>5. ReaderInv(p)'
    BY <2>1, <2>2, <2>3, <2>4, FreshReader
  <2>6. ReadInv'
    BY <1>4, <2>1, <2>2, <2>5, QuietUnseen
  <2>. QED
    BY <1>2, <2>6
<1>. QED
  BY <1>3, <1>4

\* A put starts, or returns at once; its goroutine watches nothing.
LEMMA PutStore ==
  ASSUME StoreInv, ReadInv, NEW p \in Proc, NEW dir \in Dirs,
         \/ PutReturns(p, dir, TRUE)
         \/ \E x \in Path, d \in Doc : StartWrite(p, x, d),
         io[p].pc # "write", Watch(p, {}),
         UNCHANGED <<dirs, created, files, last, spoiled>>
  PROVE  StoreInv' /\ ReadInv' /\ io'[p].op = "put" /\ io'[p].pc # "idle"
<1>1. seen' \in SeenType
  BY WatchType
<1>2. StoreInv'
  BY <1>1, StartWriteStep, PutReturnsStep
<1>3. PICK o : io' = [io EXCEPT ![p] = o] /\ o.pc \in {"mkdir", "done"} /\ o.op = "put"
  <2>1. CASE PutReturns(p, dir, TRUE)
    <3>. DEFINE o == [Idle EXCEPT !.pc = "done", !.op = "put", !.dir = dir, !.err = TRUE]
    <3>1. o.pc = "done" /\ o.op = "put"
      BY DEF Idle
    <3>2. io' = [io EXCEPT ![p] = o]
      BY <2>1 DEF PutReturns
    <3>. HIDE DEF o
    <3>. QED
      BY <3>1, <3>2
  <2>2. ASSUME NEW x \in Path, NEW d \in Doc, StartWrite(p, x, d)
        PROVE  \E o : io' = [io EXCEPT ![p] = o] /\ o.pc \in {"mkdir", "done"} /\ o.op = "put"
    <3>. DEFINE o == [Idle EXCEPT !.pc = "mkdir", !.op = "put", !.dir = x[1],
                                  !.todo = {x[2]}, !.doc = d]
    <3>1. o.pc = "mkdir" /\ o.op = "put"
      BY DEF Idle
    <3>2. io' = [io EXCEPT ![p] = o]
      BY <2>2 DEF StartWrite
    <3>. HIDE DEF o
    <3>. QED
      BY <3>1, <3>2
  <2>. QED
    BY <2>1, <2>2
<1>4. io'[p] = o
  BY <1>3 DEF StoreInv, StoreTypeOK
<1>5. ReaderInv(p)'
  BY <1>3, <1>4, NotReading DEF OpShape, IsReading
<1>6. ReadInv'
  BY <1>3, <1>5, WatchFacts, QuietRead
<1>. QED
  BY <1>2, <1>3, <1>4, <1>6

-----------------------------------------------------------------------------
(***************************************************************************)
(* Requests arrive                                                         *)
(***************************************************************************)

\* A step of one request leaves the others alone.
LEMMA OneRequest ==
  ASSUME RequestsInv, NEW p \in Proc, req' \in [Proc -> RequestType],
         \A q \in Proc \ {p} : req'[q] = req[q] /\ io'[q] = io[q] /\ seen'[q] = seen[q],
         GotInv(io'[p], seen'[p]), RequestInv(req'[p], io'[p], seen'[p])
  PROVE  RequestsInv'
BY DEF RequestsInv

LEMMA NoRequestType ==
  /\ NoRequest \in RequestType
  /\ NoRequest.kind = "none" /\ NoRequest.stage = "idle"
BY DEF NoRequest, RequestType, RequestFields

\* A request that is taken up.
LEMMA Accepted ==
  ASSUME ServerInv, NEW p \in Proc, NEW kind \in Endpoints \cup Methods,
         NEW stage \in {"groups", "store"}, NEW labels \in Selector \cup {NilLabels}, NEW X,
         Accept(p, kind, stage, labels, X)
  PROVE  /\ req' \in [Proc -> RequestType]
         /\ req'[p].kind = kind /\ req'[p].stage = stage /\ req'[p].labels = labels
         /\ \A q \in Proc \ {p} : req'[q] = req[q] /\ seen'[q] = seen[q]
         /\ io[p].pc = "idle" /\ Watch(p, X)
         /\ UNCHANGED <<dirs, created, files, last, spoiled>>
<1>. DEFINE r == [NoRequest EXCEPT !.kind = kind, !.stage = stage, !.labels = labels]
<1>1. r \in RequestType /\ r.kind = kind /\ r.stage = stage /\ r.labels = labels
  BY NoRequestType, ZenonT(30) DEF RequestType, RequestFields
<1>2. req' = [req EXCEPT ![p] = r] /\ req \in [Proc -> RequestType]
  BY DEF Accept, ServerInv, RequestsInv
<1>. HIDE DEF r
<1>3. /\ req' \in [Proc -> RequestType] /\ req'[p] = r
      /\ \A q \in Proc \ {p} : req'[q] = req[q]
  BY <1>1, <1>2
<1>4. io[p].pc = "idle"
  BY DEF Accept, ServerInv, RequestsInv, RequestInv
<1>5. Watch(p, X) /\ UNCHANGED <<dirs, created, files, last, spoiled>>
  BY DEF Accept
<1>. QED
  BY <1>1, <1>3, <1>4, <1>5, WatchFacts DEF ServerInv

LEMMA AcceptBoot ==
  ASSUME ServerInv, NEW p \in Proc, NEW kind \in BootKinds,
         NEW labels \in Selector \cup {NilLabels},
         Accept(p, kind, "groups", labels, Path), GroupList(p)
  PROVE  ServerInv'
<1>1. kind \in Endpoints \cup Methods
  BY DEF BootKinds, Methods
<1>2. /\ req' \in [Proc -> RequestType]
      /\ req'[p].kind = kind /\ req'[p].stage = "groups"
      /\ \A q \in Proc \ {p} : req'[q] = req[q] /\ seen'[q] = seen[q]
      /\ io[p].pc = "idle" /\ Watch(p, Path)
      /\ UNCHANGED <<dirs, created, files, last, spoiled>>
  BY <1>1, Accepted
<1>3. StartList(p, "groups")
  BY DEF GroupList
<1>4. "groups" \in Dirs /\ DirPaths("groups") \subseteq Path
  BY DEF Dirs, DirPaths
<1>5. StoreInv' /\ ReadInv'
  BY <1>2, <1>3, <1>4, ListStore DEF ServerInv
<1>6. /\ io'[p].op = "list" /\ io'[p].kind = "groups" /\ io'[p].dir = "groups"
      /\ io'[p].pc = "readdir" /\ io'[p].got = <<>>
      /\ \A q \in Proc \ {p} : io'[q] = io[q]
  BY <1>3 DEF StartList, Idle, ServerInv, StoreInv, StoreTypeOK
<1>7. AllWatched(seen'[p])
  BY <1>2, WatchFacts DEF AllWatched, ServerInv
<1>8. RequestInv(req'[p], io'[p], seen'[p])
  <2>1. AtGroups(req'[p], io'[p], seen'[p])
    BY <1>2, <1>6, <1>7 DEF AtGroups
  <2>. QED
    BY <1>2, <2>1 DEF RequestInv, Answered
<1>9. GotInv(io'[p], seen'[p])
  BY <1>6 DEF GotInv
<1>10. RequestsInv'
  BY <1>2, <1>6, <1>8, <1>9, OneRequest DEF ServerInv
<1>. QED
  BY <1>5, <1>10 DEF ServerInv

\* Requests of one store operation.
LEMMA AcceptStore ==
  ASSUME ServerInv, NEW p \in Proc, NEW kind \in Methods \ BootKinds, NEW X,
         Accept(p, kind, "store", NilLabels, X), StoreInv', ReadInv',
         \A q \in Proc \ {p} : io'[q] = io[q],
         GotInv(io'[p], seen'[p])
  PROVE  ServerInv'
<1>1. /\ req' \in [Proc -> RequestType]
      /\ req'[p].kind = kind /\ req'[p].stage = "store"
      /\ \A q \in Proc \ {p} : req'[q] = req[q] /\ seen'[q] = seen[q]
  BY Accepted
<1>2. RequestInv(req'[p], io'[p], seen'[p])
  BY <1>1 DEF RequestInv, Answered
<1>3. RequestsInv'
  BY <1>1, <1>2, OneRequest DEF ServerInv
<1>. QED
  BY <1>3 DEF ServerInv

LEMMA AcceptPut ==
  ASSUME ServerInv, NEW p \in Proc, NEW kind \in Methods \ BootKinds, NEW dir \in Dirs,
         Accept(p, kind, "store", NilLabels, {}),
         \/ PutReturns(p, dir, TRUE)
         \/ \E x \in Path, d \in Doc : StartWrite(p, x, d)
  PROVE  ServerInv'
<1>1. /\ io[p].pc # "write" /\ Watch(p, {})
      /\ UNCHANGED <<dirs, created, files, last, spoiled>>
  BY Accepted
<1>2. StoreInv' /\ ReadInv' /\ io'[p].op = "put"
  BY <1>1, PutStore DEF ServerInv
<1>3. GotInv(io'[p], seen'[p])
  BY <1>2 DEF GotInv
<1>4. \A q \in Proc \ {p} : io'[q] = io[q]
  BY DEF PutReturns, StartWrite, ServerInv, StoreInv, StoreTypeOK
<1>. QED
  BY <1>2, <1>3, <1>4, AcceptStore

LEMMA AcceptGet ==
  ASSUME ServerInv, NEW p \in Proc, NEW kind \in Methods \ BootKinds, NEW y \in GetIn,
         Accept(p, kind, "store", NilLabels, {Place(y[1], y[2])}),
         StartGet(p, y[1], Place(y[1], y[2]))
  PROVE  ServerInv'
<1>1. PICK x \in Dirs \X (Name \cup {NoId}) : x = Place(y[1], y[2])
  BY InputAssumption, PlaceOfGet
<1>2. PICK dir \in Dirs : dir = y[1]
  BY InputAssumption
<1>3. Accept(p, kind, "store", NilLabels, {x}) /\ StartGet(p, dir, x)
  BY <1>1, <1>2
<1>4. /\ io[p].pc # "write" /\ Watch(p, {x})
      /\ UNCHANGED <<dirs, created, files, last, spoiled>>
  BY <1>3, Accepted
<1>5. StoreInv' /\ ReadInv'
  BY <1>1, <1>3, <1>4, GetStore DEF ServerInv
<1>6. /\ io'[p].op = "get" /\ io'[p].pc = "read" /\ \A q \in Proc \ {p} : io'[q] = io[q]
  BY <1>3 DEF StartGet, Idle, ServerInv, StoreInv, StoreTypeOK
<1>7. GotInv(io'[p], seen'[p])
  BY <1>6 DEF GotInv
<1>. QED
  BY <1>3, <1>5, <1>6, <1>7, AcceptStore

LEMMA AcceptList ==
  ASSUME ServerInv, NEW p \in Proc, NEW kind \in Methods \ BootKinds, NEW dir \in Dirs,
         Accept(p, kind, "store", NilLabels, DirPaths(dir)), StartList(p, dir)
  PROVE  ServerInv'
<1>1. /\ io[p].pc # "write" /\ Watch(p, DirPaths(dir))
      /\ UNCHANGED <<dirs, created, files, last, spoiled>>
  BY Accepted
<1>2. StoreInv' /\ ReadInv'
  BY <1>1, ListStore DEF ServerInv
<1>3. /\ io'[p].op = "list" /\ io'[p].got = <<>> /\ io'[p].pc = "readdir"
      /\ \A q \in Proc \ {p} : io'[q] = io[q]
  BY DEF StartList, Idle, ServerInv, StoreInv, StoreTypeOK
<1>4. GotInv(io'[p], seen'[p])
  BY <1>3 DEF GotInv
<1>. QED
  BY <1>2, <1>3, <1>4, AcceptStore

\* A request that is answered without a look at the store.
LEMMA AtOnce ==
  ASSUME ServerInv, NEW p \in Proc, NEW kind \in Endpoints \cup Methods,
         NEW code \in {"OK", "BadRequest", "Unknown"}, AnswerAtOnce(p, kind, code),
         kind \notin BootKinds \/ code = "BadRequest"
  PROVE  ServerInv'
<1>. DEFINE r == [NoRequest EXCEPT !.kind = kind, !.stage = "replied", !.code = code]
<1>1. r \in RequestType /\ r.kind = kind /\ r.stage = "replied" /\ r.code = code
  BY NoRequestType DEF RequestType, RequestFields
<1>2. req' = [req EXCEPT ![p] = r] /\ req \in [Proc -> RequestType] /\ UNCHANGED storeVars
  BY DEF AnswerAtOnce, ServerInv, RequestsInv
<1>. HIDE DEF r
<1>3. /\ req' \in [Proc -> RequestType] /\ req'[p] = r
      /\ \A q \in Proc \ {p} : req'[q] = req[q]
  BY <1>1, <1>2
<1>4. StoreInv' /\ ReadInv'
  BY <1>2, NextInv, NextRead DEF ServerInv
<1>5. io' = io /\ seen' = seen
  BY <1>2 DEF storeVars
<1>6. io[p].pc = "idle" /\ GotInv(io[p], seen[p])
  BY DEF AnswerAtOnce, ServerInv, RequestsInv, RequestInv
<1>7. RequestInv(req'[p], io'[p], seen'[p])
  BY <1>1, <1>3, <1>5, <1>6 DEF RequestInv, Answered, BootKinds
<1>8. RequestsInv'
  BY <1>3, <1>5, <1>6, <1>7, OneRequest DEF ServerInv
<1>. QED
  BY <1>4, <1>8 DEF ServerInv

\* The labels of a query are labels.
LEMMA LabelsType ==
  ASSUME NEW q \in Selector
  PROVE  labelsFromRequest(q) \in Selector
<1>1. PICK K \in SUBSET Key : q \in [K -> Value]
  BY DEF Selector
<1>. DEFINE D == {k \in DOMAIN q : k \in MacKey => ParseMAC[q[k]] # NoMac}
<1>2. D \in SUBSET Key
  BY <1>1
<1>3. \A k \in D : (IF k \in MacKey THEN ParseMAC[q[k]] ELSE q[k]) \in Value
  BY <1>1, SelectorAssumption
<1>4. labelsFromRequest(q) \in [D -> Value]
  BY <1>3 DEF labelsFromRequest
<1>. QED
  BY <1>2, <1>4 DEF Selector

LEMMA RequestStep ==
  ASSUME ServerInv, NEW p \in Proc, Request(p)
  PROVE  ServerInv'
<1>1. CASE HTTPRequest(p)
  <2>1. CASE AnswerAtOnce(p, "boot.ipxe", "OK")
    BY <2>1, AtOnce DEF Endpoints, BootKinds
  <2>2. ASSUME NEW e \in HTTPKind \ {"boot.ipxe", "pixiecore"}, NEW q \in Query \ {NilLabels},
               Accept(p, e, "groups", labelsFromRequest(q), Path), GroupList(p)
        PROVE  ServerInv'
    <3>1. e \in BootKinds /\ labelsFromRequest(q) \in Selector
      BY ServerAssumption, LabelsType DEF BootKinds
    <3>. QED
      BY <2>2, <3>1, AcceptBoot
  <2>. QED
    BY <1>1, <2>1, <2>2 DEF HTTPRequest
<1>2. CASE PixiecoreRequest(p)
  <2>1. PICK v \in Value :
          IF ParseMAC[v] = NoMac THEN AnswerAtOnce(p, "pixiecore", "BadRequest")
          ELSE /\ Accept(p, "pixiecore", "groups", [k \in {MacLabel} |-> ParseMAC[v]], Path)
               /\ GroupList(p)
    BY <1>2 DEF PixiecoreRequest
  <2>2. "pixiecore" \in BootKinds /\ "pixiecore" \in Endpoints
    BY DEF BootKinds, Endpoints
  <2>3. CASE ParseMAC[v] = NoMac
    BY <2>1, <2>2, <2>3, AtOnce
  <2>4. CASE ParseMAC[v] # NoMac
    <3>1. {MacLabel} \in SUBSET Key /\ ParseMAC[v] \in Value
      BY <2>4, ServerAssumption, SelectorAssumption
    <3>2. [k \in {MacLabel} |-> ParseMAC[v]] \in [{MacLabel} -> Value]
      BY <3>1
    <3>3. [k \in {MacLabel} |-> ParseMAC[v]] \in Selector
      BY <3>1, <3>2 DEF Selector
    <3>. QED
      BY <2>1, <2>2, <2>4, <3>3, AcceptBoot
  <2>. QED
    BY <2>3, <2>4
<1>3. CASE SelectRPC(p)
  <2>1. PICK m \in {"SelectGroup", "SelectProfile"}, labels \in Query :
          Accept(p, m, "groups", labels, Path) /\ GroupList(p)
    BY <1>3 DEF SelectRPC
  <2>2. m \in BootKinds /\ labels \in Selector \cup {NilLabels}
    BY ServerAssumption DEF BootKinds
  <2>. QED
    BY <2>1, <2>2, AcceptBoot
<1>4. Methods \ BootKinds = {"GroupPut", "GroupGet", "GroupList", "ProfilePut", "ProfileGet",
                             "ProfileList", "IgnitionPut", "CloudPut"}
  BY DEF Methods, BootKinds, Endpoints
<1>5. {"groups", "profiles", "ignition", "cloud"} \subseteq Dirs
  BY DEF Dirs
<1>6. grpcError("invalid") = "Unknown"
  BY DEF grpcError
<1>7. CASE GroupPutRPC(p)
  <2>1. PICK g \in GroupIn :
          IF ~GroupAssertValid(g) THEN AnswerAtOnce(p, "GroupPut", grpcError("invalid"))
          ELSE Accept(p, "GroupPut", "store", NilLabels, {}) /\ GroupPut(p, g)
    BY <1>7 DEF GroupPutRPC
  <2>2. CASE ~GroupAssertValid(g)
    BY <1>4, <1>6, <2>1, <2>2, AtOnce
  <2>3. CASE GroupAssertValid(g)
    <3>1. g \in Group /\ g.id \in Id
      BY <2>3, InputAssumption DEF Group, GroupAssertValid
    <3>2. CASE ToRichGroup(g) = Failed
      <4>1. PutReturns(p, "groups", TRUE) /\ Accept(p, "GroupPut", "store", NilLabels, {})
        BY <2>1, <2>3, <3>2 DEF GroupPut
      <4>. QED
        BY <1>4, <1>5, <4>1, AcceptPut
    <3>3. CASE ToRichGroup(g) # Failed
      <4>1. MarshalRichGroup(ToRichGroup(g)) \in Doc /\ Place("groups", g.id) \in Path
        BY <1>5, <3>1, <3>3, MarshalType, PlaceType DEF Doc
      <4>2. /\ StartWrite(p, Place("groups", g.id), MarshalRichGroup(ToRichGroup(g)))
            /\ Accept(p, "GroupPut", "store", NilLabels, {})
        BY <2>1, <2>3, <3>3 DEF GroupPut
      <4>. QED
        BY <1>4, <1>5, <3>1, <4>1, <4>2, AcceptPut
    <3>. QED
      BY <3>2, <3>3
  <2>. QED
    BY <2>2, <2>3
<1>8. CASE ProfilePutRPC(p)
  <2>1. PICK f \in ProfileIn :
          IF ~ProfileAssertValid(f) THEN AnswerAtOnce(p, "ProfilePut", grpcError("invalid"))
          ELSE Accept(p, "ProfilePut", "store", NilLabels, {}) /\ ProfilePut(p, f)
    BY <1>8 DEF ProfilePutRPC
  <2>2. CASE ~ProfileAssertValid(f)
    BY <1>4, <1>6, <2>1, <2>2, AtOnce
  <2>3. CASE ProfileAssertValid(f)
    <3>0. f \in Doc /\ f.id \in Id
      BY <2>3, InputAssumption DEF Profile, ProfileAssertValid, Doc
    <3>1. f \in Doc /\ Place("profiles", f.id) \in Path
      BY <1>5, <3>0, PlaceType
    <3>2. /\ StartWrite(p, Place("profiles", f.id), f)
          /\ Accept(p, "ProfilePut", "store", NilLabels, {})
      BY <2>1, <2>3 DEF ProfilePut
    <3>. QED
      BY <1>4, <1>5, <3>1, <3>2, AcceptPut
  <2>. QED
    BY <2>2, <2>3
<1>9. CASE IgnitionPutRPC(p) \/ CloudPutRPC(p)
  <2>1. \A t \in TemplateIn :
          /\ Place("ignition", t[2]) \in Path /\ Place("cloud", t[2]) \in Path
          /\ t[3] \in Doc
    BY <1>5, InputAssumption, PlaceType DEF Doc
  <2>2. CASE IgnitionPutRPC(p)
    BY <1>4, <1>5, <2>1, <2>2, AcceptPut DEF IgnitionPutRPC, IgnitionPut
  <2>3. CASE CloudPutRPC(p)
    BY <1>4, <1>5, <2>1, <2>3, AcceptPut DEF CloudPutRPC, CloudPut
  <2>. QED
    BY <1>9, <2>2, <2>3
<1>10. CASE GroupGetRPC(p) \/ ProfileGetRPC(p)
  <2>1. CASE GroupGetRPC(p)
    BY <1>4, <2>1, AcceptGet DEF GroupGetRPC, GroupGet
  <2>2. CASE ProfileGetRPC(p)
    BY <1>4, <2>2, AcceptGet DEF ProfileGetRPC, ProfileGet
  <2>. QED
    BY <1>10, <2>1, <2>2
<1>11. CASE GroupListRPC(p) \/ ProfileListRPC(p)
  BY <1>4, <1>5, <1>11, AcceptList DEF GroupListRPC, GroupList, ProfileListRPC, ProfileList
<1>. QED
  BY <1>1, <1>2, <1>3, <1>7, <1>8, <1>9, <1>10, <1>11 DEF Request

-----------------------------------------------------------------------------
(***************************************************************************)
(* What the store operations of a request have found                       *)
(***************************************************************************)

\* A parsed group is a group, whose metadata is what json.Marshal writes.
LEMMA ParsedGroup ==
  ASSUME NEW s, NEW x, NEW g \in ParsedSeen(s, "groups", x)
  PROVE  /\ g \in Group
         /\ g.metadata = NoBytes \/ \E o \in SUBSET Var : g.metadata = Marshal[o]
<1>1. PICK d : g = ParseGroup(d) /\ g # Failed
  BY DEF ParsedSeen, ParseDoc
<1>2. PICK rg : rg = UnmarshalRichGroup(d)
  OBVIOUS
<1>3. rg \in RichGroup /\ g = Normalize(ToGroup(rg))
  BY <1>1, <1>2, UnmarshalRichGroupType DEF ParseGroup
<1>4. ToGroup(rg) \in Group
  BY <1>3, MetadataAssumption DEF ToGroup, RichGroup, Group
<1>5. g \in Group
  BY <1>1, <1>3, <1>4, NormalizeType
<1>6. g.metadata = ToGroup(rg).metadata
  <2>1. PICK h \in Group : h = ToGroup(rg)
    BY <1>4
  <2>2. \E m : g = [h EXCEPT !.selector = m]
    BY <1>1, <1>3, <2>1 DEF Normalize
  <2>. QED
    BY <2>1, <2>2 DEF Group
<1>7. \/ ToGroup(rg).metadata = NoBytes
      \/ rg.metadata \in SUBSET Var /\ ToGroup(rg).metadata = Marshal[rg.metadata]
  BY <1>3 DEF ToGroup, RichGroup
<1>. QED
  BY <1>5, <1>6, <1>7

\* So the variables of a stored group are always there.
LEMMA GroupVariables ==
  ASSUME NEW s, NEW x, NEW g \in ParsedSeen(s, "groups", x)
  PROVE  collectVariables(g) \in SUBSET Var /\ collectVariables(g) # Failed
<1>. DEFINE meta == IF g.metadata = NoBytes THEN {} ELSE Unmarshal[g.metadata]
<1>1. g \in Group /\ (g.metadata = NoBytes \/ \E o \in SUBSET Var : g.metadata = Marshal[o])
  BY ParsedGroup
<1>2. meta \in SUBSET Var
  BY <1>1, MetadataAssumption
<1>3. meta # BadJSON
  BY <1>2, MetadataAssumption
<1>4. {ToLower[k] : k \in DOMAIN g.selector} \subseteq Var
  BY <1>1, SelectorAssumption DEF Group, Selector
<1>5. collectVariables(g) = meta \cup {ToLower[k] : k \in DOMAIN g.selector} \cup {RequestVar}
  BY <1>3 DEF collectVariables
<1>6. collectVariables(g) \in SUBSET Var
  BY <1>2, <1>4, <1>5, ServerAssumption
<1>. QED
  BY <1>6, FailedAssumption

\* A parsed profile is a profile.
LEMMA ParsedProfile ==
  ASSUME NEW s, NEW x, NEW f \in ParsedSeen(s, "profiles", x)
  PROVE  f \in Profile
<1>1. PICK d : f = ParseProfile(d) /\ f # Failed
  BY DEF ParsedSeen, ParseDoc
<1>. QED
  BY <1>1, ParseProfileType

\* No result is an error.
LEMMA ResultsAreNoErrors == Failed \notin Result
BY FailedAssumption, ResultAssumption DEF Result

\* The groups that a request has listed were all stored meanwhile, and those
\* that were there all along are among them.
LEMMA ListedGroups ==
  ASSUME ServerInv, NEW p \in Proc, Listed(p)
  PROVE  /\ io[p].got \in Seq(Group)
         /\ \A g \in GroupsOf(io[p].got) :
              \E x \in DirPaths("groups") : g \in ParsedSeen(seen[p], "groups", x)
         /\ \A x \in DirPaths("groups") :
              Steady(seen[p], x) => ParsedSeen(seen[p], "groups", x) \subseteq GroupsOf(io[p].got)
<1>. DEFINE o == io[p]
            s == seen[p]
<1>1. /\ o \in Op /\ o.pc = "done" /\ o.op = "list" /\ o.kind = "groups" /\ o.dir = "groups"
      /\ ReaderInv(p)
  BY DEF Listed, ServerInv, RequestsInv, RequestInv, AtGroups, StoreInv, StoreTypeOK, ReadInv
<1>2. o.got \in Seq(Result) /\ IsReading(o)
  BY <1>1 DEF Op, IsReading
<1>3. ASSUME NEW i \in 1..Len(o.got)
      PROVE  \E x \in DirPaths("groups") : o.got[i] \in ParsedSeen(s, "groups", x)
  <2>1. PICK x \in Path : Asks(o, x) /\ \E d \in Found(s[x]) : o.got[i] = ParseDoc("groups", d)
    BY <1>1, <1>2 DEF ReaderInv, Returns
  <2>2. o.got[i] # Failed
    BY <1>2, ResultsAreNoErrors
  <2>3. x \in DirPaths("groups")
    BY <1>1, <2>1 DEF Asks, DirPaths
  <2>. QED
    BY <2>1, <2>2, <2>3 DEF ParsedSeen
<1>4. \A i \in 1..Len(o.got) : o.got[i] \in Group
  BY <1>1, <1>3, ParsedGroup
<1>5. o.got \in Seq(Group)
  BY <1>2, <1>4
<1>6. ASSUME NEW x \in DirPaths("groups"), Steady(s, x), NEW h \in ParsedSeen(s, "groups", x)
      PROVE  h \in GroupsOf(o.got)
  <2>1. x \in Path /\ Asks(o, x)
    BY <1>1 DEF DirPaths, Asks
  <2>2. PICK d \in Found(s[x]) : h = ParseDoc("groups", d) /\ h # Failed
    BY DEF ParsedSeen
  <2>3. d \in Doc /\ s[x] = {d}
    BY <1>6, <2>2, FoundOfOne DEF Steady
  <2>4. \E i \in 1..Len(o.got) : o.got[i] = h
    BY <1>1, <1>2, <2>1, <2>2, <2>3 DEF ReaderInv, Faithful
  <2>. QED
    BY <2>4 DEF GroupsOf
<1>. HIDE DEF o, s
<1>7. \A g \in GroupsOf(o.got) : \E x \in DirPaths("groups") : g \in ParsedSeen(s, "groups", x)
  BY <1>3 DEF GroupsOf
<1>. QED
  BY <1>5, <1>6, <1>7 DEF o, s

\* Whatever SelectGroup may return is chosen well.
LEMMA SelectedGroup ==
  ASSUME ServerInv, NEW p \in Proc, Listed(p), NEW g \in Selected(p), NEW r,
         r.group = g, r.labels = req[p].labels
  PROVE  /\ NoneOutranks(r, seen[p])
         /\ g # Failed => Chosen(r, seen[p])
<1>. DEFINE gs == io[p].got
            s == seen[p]
            labels == req[p].labels
<1>1. /\ gs \in Seq(Group)
      /\ \A h \in GroupsOf(gs) : \E x \in DirPaths("groups") : h \in ParsedSeen(s, "groups", x)
      /\ \A x \in DirPaths("groups") : Steady(s, x) => ParsedSeen(s, "groups", x) \subseteq GroupsOf(gs)
  BY ListedGroups
<1>2. Failed \notin Group
  BY FailedAssumption
<1>3. GroupsOf(gs) \subseteq Group
  BY <1>1 DEF GroupsOf
<1>4. Selects(g, gs, labels)
  <2>1. CASE io[p].err
    <3>1. g = Failed
      BY <2>1 DEF Selected
    <3>2. gs = <<>>
      BY <2>1 DEF Listed, ServerInv, RequestsInv, RequestInv, AtGroups, GotInv
    <3>3. GroupsOf(gs) = {}
      BY <3>2 DEF GroupsOf
    <3>. QED
      BY <3>1, <3>3 DEF Selects
  <2>2. CASE ~io[p].err
    <3>1. g \in SelectGroup(gs, labels)
      BY <2>2 DEF Selected
    <3>. HIDE DEF gs, labels
    <3>. QED
      BY <1>1, <3>1, SelectGroupCorrect
  <2>. QED
    BY <2>1, <2>2
<1>. HIDE DEF gs, s, labels
<1>5. \A h \in GroupsOf(gs) : Matches(h, labels) => g # Failed /\ SelectorCount(h) <= SelectorCount(g)
  BY <1>2, <1>3, <1>4 DEF Selects, Best
<1>6. NoneOutranks(r, s)
  BY <1>1, <1>5 DEF NoneOutranks, labels
<1>7. ASSUME g # Failed PROVE Chosen(r, s)
  <2>1. g \in GroupsOf(gs) /\ Matches(g, labels)
    BY <1>4, <1>7 DEF Selects, Best
  <2>2. GroupFound(r, s)
    BY <1>1, <2>1 DEF GroupFound, labels
  <2>. QED
    BY <1>3, <1>6, <2>1, <2>2 DEF Chosen
<1>. QED
  BY <1>6, <1>7 DEF s

\* A path that stayed as it was holds a document or does not exist.
LEMMA StillThere ==
  ASSUME StoreInv, ReadInv, NEW p \in Proc, NEW x \in Path, NEW d, seen[p][x] = {d}, d # Torn
  PROVE  d \in Doc \cup {NoFile}
<1>1. View(x) \ {Hole, NoDoc} \subseteq {d}
  BY DEF ReadInv, TreeInv, SeenCurrent
<1>2. View(x) \ {Hole, NoDoc} # {}
  BY ViewFacts DEF ReadInv, TreeInv
<1>3. d \in View(x) /\ d \notin {Hole, NoDoc}
  BY <1>1, <1>2
<1>4. View(x) \in SUBSET (Block \cup {NoDoc, Torn, NoFile})
  BY ViewType
<1>. QED
  BY <1>3, <1>4 DEF Block

\* The profile that a request has read is the one its group names, stored while
\* the request ran; in a tree left alone it is an error only if there is none.
LEMMA ReadProfile ==
  ASSUME ServerInv, NEW p \in Proc, ProfileRead(p)
  PROVE  LET n == req[p].group.profile
             x == Place("profiles", n)
         IN  /\ ~io[p].err => n \in Id /\ io[p].got[1] \in ParsedSeen(seen[p], "profiles", x)
             /\ io[p].err /\ Undisturbed(seen[p]) =>
                  n = NoId \/ ParsedSeen(seen[p], "profiles", x) = {}
<1>. DEFINE o == io[p]
            s == seen[p]
            n == req[p].group.profile
            x == Place("profiles", n)
<1>1. /\ o \in Op /\ o.pc = "done" /\ o.op = "get" /\ o.kind = "profiles"
      /\ o.dir = x[1] /\ o.todo = {x[2]}
      /\ req[p].group \in Group
      /\ GotInv(o, s) /\ ReaderInv(p)
  BY DEF ProfileRead, ServerInv, RequestsInv, RequestInv, AtProfile, Gets, Chosen,
         StoreInv, StoreTypeOK, ReadInv
<1>2. o.got \in Seq(Result) /\ IsReading(o) /\ n \in Id \cup {NoId} /\ "profiles" \in Dirs
  BY <1>1 DEF Op, IsReading, Group, Dirs
<1>. HIDE DEF n
<1>3. /\ x = <<x[1], x[2]>>
      /\ n \in Id => x \in Path
      /\ x \in Path => n \in Id
  BY <1>2, PlaceType, PlaceOfGet
<1>. HIDE DEF x
<1>4. ASSUME NEW y \in Path, Asks(o, y) PROVE y = x /\ n \in Id
  <2>1. y = <<y[1], y[2]>>
    BY DEF Path
  <2>. QED
    BY <1>1, <1>3, <1>4, <2>1 DEF Asks
<1>5. ASSUME ~o.err PROVE n \in Id /\ o.got[1] \in ParsedSeen(s, "profiles", x)
  <2>1. Len(o.got) = 1
    BY <1>1, <1>5 DEF GotInv
  <2>2. PICK y \in Path :
          Asks(o, y) /\ \E d \in Found(s[y]) : o.got[1] = ParseDoc("profiles", d)
    BY <1>1, <1>2, <2>1 DEF ReaderInv, Returns
  <2>3. o.got[1] # Failed
    BY <1>2, <2>1, ResultsAreNoErrors
  <2>. QED
    BY <1>4, <2>2, <2>3 DEF ParsedSeen
<1>6. ASSUME o.err, Undisturbed(s), n # NoId PROVE ParsedSeen(s, "profiles", x) = {}
  <2>1. x \in Path /\ Asks(o, x)
    BY <1>1, <1>2, <1>3, <1>6 DEF Asks
  <2>2. PICK d \in s[x] : s[x] = {d}
    BY <1>6, <2>1 DEF Undisturbed, Steady
  <2>3. d \in Doc => ParseDoc("profiles", d) = Failed
    BY <1>1, <1>2, <1>6, <2>1, <2>2 DEF ReaderInv, Faithful
  <2>4. Found(s[x]) = {d} \cap Doc
    BY <2>2, FoundOfOne
  <2>. QED
    BY <2>3, <2>4 DEF ParsedSeen
<1>. QED
  BY <1>5, <1>6 DEF n, x

\* The template that a request has read is the one its profile names; in a tree
\* left alone it is the whole document, or an error if there is none.
LEMMA ReadTemplate ==
  ASSUME ServerInv, NEW p \in Proc, req[p].stage = "template", io[p].pc = "done"
  PROVE  LET k == req[p].kind
             n == TemplateName(req[p].profile, k)
             x == Place(k, n)
         IN  /\ n \in Id \cup {NoId}
             /\ ~io[p].err =>
                  /\ n \in Id /\ io[p].got[1].bytes \in Seq(Block)
                  /\ \A i \in 1..Len(io[p].got[1].bytes) :
                       io[p].got[1].bytes[i] \in seen[p][x] \cup {Hole}
                  /\ Undisturbed(seen[p]) =>
                       \E d \in Doc : /\ seen[p][x] = {d} /\ d # NoFile
                                           /\ io[p].got[1].bytes = Image(d)
             /\ io[p].err /\ Undisturbed(seen[p]) => n = NoId \/ seen[p][x] = {NoFile}
<1>. DEFINE o == io[p]
            s == seen[p]
            k == req[p].kind
            n == TemplateName(req[p].profile, k)
            x == Place(k, n)
<1>1. /\ o \in Op /\ o.pc = "done" /\ o.op = "get" /\ o.kind = k
      /\ o.dir = x[1] /\ o.todo = {x[2]}
      /\ k \in TemplateKinds /\ req[p].profile \in Profile
      /\ GotInv(o, s) /\ ReaderInv(p)
  BY DEF ServerInv, RequestsInv, RequestInv, AtTemplate, Gets, StoreInv, StoreTypeOK, ReadInv
<1>2. n \in Id \cup {NoId}
  BY <1>1 DEF TemplateName, Profile
<1>3. IsReading(o) /\ k \in Dirs /\ k \notin {"groups", "profiles"}
  BY <1>1 DEF IsReading, TemplateKinds, Dirs
<1>. HIDE DEF n, k
<1>0. /\ x = <<x[1], x[2]>>
      /\ n \in Id => x \in Path
      /\ x \in Path => n \in Id
  BY <1>2, <1>3, PlaceType, PlaceOfGet
<1>. HIDE DEF x
<1>4. ASSUME NEW y \in Path, Asks(o, y) PROVE y = x /\ n \in Id
  <2>1. y = <<y[1], y[2]>>
    BY DEF Path
  <2>. QED
    BY <1>0, <1>1, <1>4, <2>1 DEF Asks
<1>5. n \in Id => x \in Path /\ Asks(o, x)
  BY <1>0, <1>1 DEF Asks
<1>6. n \in Id /\ Undisturbed(s) => \E d \in Doc \cup {NoFile} : s[x] = {d}
  <2>. SUFFICES ASSUME n \in Id, Undisturbed(s) PROVE \E d \in Doc \cup {NoFile} : s[x] = {d}
    OBVIOUS
  <2>1. PICK d \in s[x] : s[x] = {d} /\ d # Torn
    BY <1>5 DEF Undisturbed, Steady
  <2>. QED
    BY <1>5, <2>1, StillThere DEF ServerInv
<1>7. ASSUME n \in Id, NEW d \in Doc, s[x] = {d}
      PROVE  o.err = FALSE /\ o.got = <<[bytes |-> Image(d)]>>
  <2>2. ParseDoc(k, d) = [bytes |-> Image(d)]
    BY <1>3 DEF ParseDoc
  <2>3. [bytes |-> Image(d)] # Failed
    <3>1. Image(d) \in Seq(Block)
      BY ImageType
    <3>. QED
      BY <3>1, ResultAssumption
  <2>4. /\ o.err = (ParseDoc(k, d) = Failed)
        /\ ParseDoc(k, d) # Failed => o.got = <<ParseDoc(k, d)>>
    BY <1>1, <1>3, <1>5, <1>7 DEF ReaderInv, Faithful
  <2>. QED
    BY <2>2, <2>3, <2>4
<1>8. ASSUME n \in Id, s[x] = {NoFile} PROVE o.err
  BY <1>1, <1>3, <1>5, <1>8 DEF ReaderInv, Faithful
<1>9. ASSUME ~o.err
      PROVE  /\ n \in Id /\ o.got[1].bytes \in Seq(Block)
             /\ \A i \in 1..Len(o.got[1].bytes) : o.got[1].bytes[i] \in s[x] \cup {Hole}
             /\ Undisturbed(s) => \E d \in Doc : /\ s[x] = {d} /\ d # NoFile
                                                      /\ o.got[1].bytes = Image(d)
  <2>1. PICK y \in Path, c \in Seq(Block) :
          /\ Asks(o, y) /\ Len(o.got) = 1 /\ o.got[1] = [bytes |-> c]
          /\ \A i \in 1..Len(c) : c[i] \in s[y] \cup {Hole}
    BY <1>1, <1>9 DEF GotInv
  <2>2. y = x /\ n \in Id
    BY <1>4, <2>1
  <2>3. o.got[1].bytes = c
    BY <2>1
  <2>4. Undisturbed(s) => \E d \in Doc : s[x] = {d} /\ d # NoFile /\ c = Image(d)
    <3>. SUFFICES ASSUME Undisturbed(s)
                  PROVE  \E d \in Doc : s[x] = {d} /\ d # NoFile /\ c = Image(d)
      OBVIOUS
    <3>1. PICK d \in Doc \cup {NoFile} : s[x] = {d}
      BY <1>6, <2>2
    <3>2. d \in Doc
      BY <1>8, <1>9, <2>2, <3>1
    <3>3. o.got = <<[bytes |-> Image(d)]>>
      BY <1>7, <2>2, <3>1, <3>2
    <3>4. c = Image(d)
      BY <2>1, <3>3
    <3>. QED
      BY <3>1, <3>2, <3>3, <3>4, Signs
  <2>. QED
    BY <2>1, <2>2, <2>3, <2>4
<1>10. ASSUME o.err, Undisturbed(s) PROVE n = NoId \/ s[x] = {NoFile}
  BY <1>2, <1>6, <1>7, <1>10
<1>. HIDE DEF o, s
<1>. QED
  BY <1>2, <1>9, <1>10 DEF n, k, o, s, x

-----------------------------------------------------------------------------
(***************************************************************************)
(* What a tree that was left alone has for a request                       *)
(***************************************************************************)

\* A group chosen well is a best match of the whole tree, and none is chosen
\* only if nothing matches.
LEMMA BestSeen ==
  ASSUME NEW s, Undisturbed(s), NEW r, NoneOutranks(r, s)
  PROVE  /\ r.group = Failed => Best(GroupsSeen(s), r.labels) = {}
         /\ GroupFound(r, s) /\ r.group # Failed => r.group \in Best(GroupsSeen(s), r.labels)
<1>1. \A x \in DirPaths("groups") : Steady(s, x)
  BY DEF Undisturbed, DirPaths
<1>2. \A h \in GroupsSeen(s) : Matches(h, r.labels) =>
        r.group # Failed /\ SelectorCount(h) <= SelectorCount(r.group)
  BY <1>1 DEF GroupsSeen, NoneOutranks
<1>3. GroupFound(r, s) => r.group \in GroupsSeen(s) /\ Matches(r.group, r.labels)
  BY DEF GroupFound, GroupsSeen
<1>. QED
  BY <1>2, <1>3 DEF Best

LEMMA ExpectedNone ==
  ASSUME NEW s, NEW r, Best(GroupsSeen(s), r.labels) = {}
  PROVE  /\ r.kind = "SelectGroup" => Expected(r, s) = {"NotFound", "Unknown"}
         /\ r.kind # "SelectGroup" => Expected(r, s) = {"NotFound"}
BY DEF Expected

LEMMA ExpectedSome ==
  ASSUME NEW s, NEW r, NEW g \in Best(GroupsSeen(s), r.labels)
  PROVE  /\ r.kind \in {"SelectGroup", "metadata"} => "OK" \in Expected(r, s)
         /\ r.kind \notin {"SelectGroup", "metadata"} =>
              /\ g.profile = NoId \/ ParsedSeen(s, "profiles", Place("profiles", g.profile)) = {}
                   => "NotFound" \in Expected(r, s)
              /\ g.profile # NoId =>
                   \A f \in ParsedSeen(s, "profiles", Place("profiles", g.profile)) :
                     ExpectedFor(r.kind, s, g, f) \in Expected(r, s)
<1>. DEFINE best == Best(GroupsSeen(s), r.labels)
            profiles(h) == IF h.profile = NoId THEN {}
                           ELSE ParsedSeen(s, "profiles", Place("profiles", h.profile))
            codes(h) == IF r.kind \in {"SelectGroup", "metadata"} THEN {"OK"}
                        ELSE IF profiles(h) = {} THEN {"NotFound"}
                        ELSE {ExpectedFor(r.kind, s, h, f) : f \in profiles(h)}
<1>1. Expected(r, s) = UNION {codes(h) : h \in best}
  BY DEF Expected
<1>2. codes(g) \subseteq UNION {codes(h) : h \in best}
  <2>. HIDE DEF codes, best
  <2>1. g \in best
    BY DEF best
  <2>. QED
    BY <2>1
<1>3. codes(g) \subseteq Expected(r, s)
  BY <1>1, <1>2
<1>4. r.kind \in {"SelectGroup", "metadata"} => codes(g) = {"OK"}
  OBVIOUS
<1>5. r.kind \notin {"SelectGroup", "metadata"} /\ profiles(g) = {} => codes(g) = {"NotFound"}
  OBVIOUS
<1>6. r.kind \notin {"SelectGroup", "metadata"} =>
        \A f \in profiles(g) : ExpectedFor(r.kind, s, g, f) \in codes(g)
  <2>. HIDE DEF profiles
  <2>. QED
    OBVIOUS
<1>7. /\ g.profile = NoId \/ ParsedSeen(s, "profiles", Place("profiles", g.profile)) = {} => profiles(g) = {}
      /\ g.profile # NoId => profiles(g) = ParsedSeen(s, "profiles", Place("profiles", g.profile))
  OBVIOUS
<1>. HIDE DEF codes, profiles
<1>. QED
  BY <1>3, <1>4, <1>5, <1>6, <1>7

\* How a whole template is answered.
LEMMA RenderWhole ==
  ASSUME NEW k \in TemplateKinds, NEW t \in Doc, NEW v \in SUBSET Var, v # Failed,
         NEW code \in renderTemplate(k, IF k = "cloud" THEN "NotFound" ELSE "OK", Image(t), v)
  PROVE  code = IF Needs(t) \subseteq v /\ t \in Accepts(k) THEN "OK" ELSE "NotFound"
<1>1. CASE Size(t) = 0
  <2>1. code = IF k = "cloud" THEN "NotFound" ELSE "OK"
    BY <1>1 DEF Image, renderTemplate
  <2>2. /\ Needs(t) = {}
        /\ t \in Accepts("ignition") \cap Accepts("generic")
        /\ t \notin Accepts("cloud")
    BY <1>1, ServerAssumption
  <2>3. CASE k = "cloud"
    BY <2>1, <2>2, <2>3
  <2>4. CASE k \in {"ignition", "generic"}
    BY <2>1, <2>2, <2>4
  <2>. QED
    BY <2>3, <2>4 DEF TemplateKinds
<1>2. CASE Size(t) # 0
  <2>1. Image(t) # <<>> /\ Whole(Image(t)) /\ Image(t)[1] = t
    BY <1>2, WholeImage DEF Whole
  <2>. QED
    BY <2>1 DEF renderTemplate
<1>. QED
  BY <1>1, <1>2

\* What is expected of a template endpoint.
LEMMA ExpectedTemplate ==
  ASSUME NEW k \in TemplateKinds, NEW s, NEW g, NEW f
  PROVE  LET n == TemplateName(f, k)
         IN  /\ n = NoId \/ s[Place(k, n)] = {NoFile} => ExpectedFor(k, s, g, f) = "NotFound"
             /\ \A t : n # NoId /\ t # NoFile /\ s[Place(k, n)] = {t} =>
                  ExpectedFor(k, s, g, f) =
                    IF k = "ignition" /\ n \in RawName THEN "OK"
                    ELSE IF Needs(t) \subseteq collectVariables(g) /\ t \in Accepts(k)
                         THEN "OK" ELSE "NotFound"
<1>. DEFINE n == TemplateName(f, k)
            x == Place(k, n)
<1>1. k \notin {"SelectProfile", "pixiecore", "grub", "ipxe"}
  BY DEF TemplateKinds
<1>2. \A t : s[x] = {t} => Still(s, x) = t
  BY DEF Still
<1>3. ExpectedFor(k, s, g, f) =
        CASE n = NoId -> "NotFound"
          [] n # NoId /\ Still(s, x) = NoFile -> "NotFound"
          [] k = "ignition" /\ n \in RawName /\ Still(s, x) # NoFile -> "OK"
          [] OTHER -> IF /\ Needs(Still(s, x)) \subseteq collectVariables(g)
                         /\ Still(s, x) \in Accepts(k)
                      THEN "OK" ELSE "NotFound"
  BY <1>1 DEF ExpectedFor
<1>4. n = NoId => ~(k = "ignition" /\ n \in RawName)
  BY ServerAssumption, IdFacts
<1>. HIDE DEF n, x
<1>5. n = NoId \/ s[x] = {NoFile} => ExpectedFor(k, s, g, f) = "NotFound"
  BY <1>2, <1>3, <1>4
<1>6. ASSUME NEW t, n # NoId, t # NoFile, s[x] = {t}
      PROVE  ExpectedFor(k, s, g, f) =
               IF k = "ignition" /\ n \in RawName THEN "OK"
               ELSE IF Needs(t) \subseteq collectVariables(g) /\ t \in Accepts(k)
                    THEN "OK" ELSE "NotFound"
  BY <1>2, <1>3, <1>6
<1>. QED
  BY <1>5, <1>6 DEF n, x

-----------------------------------------------------------------------------
(***************************************************************************)
(* Requests go on                                                          *)
(***************************************************************************)

\* Answer a of request r: what Reply leaves of it.
IsReply(a, r, code, g, f, c) ==
  /\ a.stage = "replied" /\ a.kind = r.kind /\ a.labels = r.labels
  /\ a.code = code /\ a.group = g /\ a.profile = f /\ a.bytes = c

\* What holds of a group holds of it in any record with the same labels.
LEMMA SameGroup ==
  ASSUME NEW s, NEW r, NEW a, a.group = r.group, a.labels = r.labels
  PROVE  /\ NoneOutranks(r, s) => NoneOutranks(a, s)
         /\ GroupFound(r, s) => GroupFound(a, s)
         /\ Chosen(r, s) => Chosen(a, s)
<1>1. NoneOutranks(r, s) => NoneOutranks(a, s)
  BY DEF NoneOutranks
<1>2. GroupFound(r, s) => GroupFound(a, s)
  BY DEF GroupFound
<1>. QED
  BY <1>1, <1>2 DEF Chosen

\* A handler whose store operation has returned answers.
LEMMA ReplyStep ==
  ASSUME ServerInv, NEW p \in Proc, io[p].pc = "done",
         NEW code \in {"OK", "NotFound", "Unknown"}, NEW g \in Group \cup {Failed},
         NEW f \in Profile \cup {Failed}, f # Failed => g # Failed, NEW c \in Seq(Block),
         ReplyAndRelease(p, code, g, f, c),
         UNCHANGED <<dirs, created, files, last, spoiled, seen>>,
         \A a : req[p].kind \in BootKinds /\ IsReply(a, req[p], code, g, f, c)
                  => GoodAnswer(a, seen[p])
  PROVE  ServerInv'
<1>1. /\ req \in [Proc -> RequestType] /\ io \in [Proc -> Op]
      /\ StoreInv /\ ReadInv /\ RequestsInv
  BY DEF ServerInv, RequestsInv, StoreInv, StoreTypeOK
<1>2. StoreInv' /\ ReadInv'
  BY <1>1, ReleaseStore DEF ReplyAndRelease
<1>3. io'[p] = Idle /\ \A q \in Proc \ {p} : io'[q] = io[q]
  BY <1>1 DEF ReplyAndRelease
<1>4. Idle.pc = "idle" /\ Idle.op = "none"
  BY DEF Idle
<1>5. req' \in [Proc -> RequestType] /\ \A q \in Proc \ {p} : req'[q] = req[q]
  <2>. DEFINE a == [req[p] EXCEPT !.stage = "replied", !.code = code, !.group = g,
                                  !.profile = f, !.bytes = c]
  <2>1. a \in RequestType
    <3>1. req[p] \in RequestType
      BY <1>1
    <3>. QED
      BY <3>1, ZenonT(30) DEF RequestType, RequestFields
  <2>2. req' = [req EXCEPT ![p] = a]
    BY DEF ReplyAndRelease, Reply
  <2>. HIDE DEF a
  <2>. QED
    BY <1>1, <2>1, <2>2
<1>6. IsReply(req'[p], req[p], code, g, f, c)
  BY <1>1 DEF ReplyAndRelease, Reply, RequestType, RequestFields, IsReply
<1>7. RequestInv(req'[p], io'[p], seen'[p])
  <2>1. Answered(req'[p]) => GoodAnswer(req'[p], seen'[p])
    BY <1>6 DEF Answered, BootKinds, IsReply
  <2>. QED
    BY <1>3, <1>4, <1>6, <2>1 DEF RequestInv, IsReply
<1>8. GotInv(io'[p], seen'[p])
  BY <1>3, <1>4 DEF GotInv
<1>9. RequestsInv'
  BY <1>1, <1>3, <1>5, <1>7, <1>8, OneRequest
<1>. QED
  BY <1>2, <1>9 DEF ServerInv

\* An RPC of one store operation.
LEMMA StoreRPCDoneStep ==
  ASSUME ServerInv, NEW p \in Proc, StoreRPCDone(p)
  PROVE  ServerInv'
<1>1. req[p].kind \notin BootKinds /\ io[p].pc = "done"
  BY DEF StoreRPCDone, ServerInv, RequestsInv, RequestInv
<1>2. <<>> \in Seq(Block)
  OBVIOUS
<1>3. PICK code \in {"OK", "NotFound", "Unknown"} :
        ReplyAndRelease(p, code, Failed, Failed, <<>>)
  BY DEF StoreRPCDone, grpcError
<1>. QED
  BY <1>1, <1>2, <1>3, ReplyStep DEF StoreRPCDone

\* The list of groups failed, or none of them matches.
LEMMA GroupNotFoundStep ==
  ASSUME ServerInv, NEW p \in Proc, GroupNotFound(p)
  PROVE  ServerInv'
<1>1. Listed(p) /\ Failed \in Selected(p) /\ io[p].pc = "done"
  BY DEF GroupNotFound, Listed
<1>2. AllWatched(seen[p]) /\ req[p].kind \in BootKinds
  BY <1>1 DEF Listed, ServerInv, RequestsInv, RequestInv, AtGroups
<1>3. PICK code \in {"NotFound", "Unknown"} :
        /\ ReplyAndRelease(p, code, Failed, Failed, <<>>)
        /\ code = "Unknown" => req[p].kind = "SelectGroup"
  BY DEF GroupNotFound, grpcError
<1>4. ASSUME NEW a, IsReply(a, req[p], code, Failed, Failed, <<>>)
      PROVE  GoodAnswer(a, seen[p])
  <2>1. /\ a.group = Failed /\ a.labels = req[p].labels /\ a.code = code
        /\ a.kind = req[p].kind
    BY <1>4 DEF IsReply
  <2>2. NoneOutranks(a, seen[p])
    BY <1>1, <2>1, SelectedGroup
  <2>3. ASSUME Undisturbed(seen[p]) PROVE a.code \in Expected(a, seen[p])
    <3>1. Best(GroupsSeen(seen[p]), a.labels) = {}
      BY <2>1, <2>2, <2>3, BestSeen
    <3>. QED
      BY <1>3, <2>1, <3>1, ExpectedNone
  <2>. QED
    BY <1>2, <2>1, <2>2, <2>3 DEF GoodAnswer
<1>5. <<>> \in Seq(Block)
  OBVIOUS
<1>. QED
  BY <1>1, <1>3, <1>4, <1>5, ReplyStep DEF Listed

\* A request that needs no more than its group.
LEMMA GroupServedStep ==
  ASSUME ServerInv, NEW p \in Proc, SelectGroupRPCDone(p) \/ metadataHandler(p)
  PROVE  ServerInv'
<1>1. Listed(p) /\ req[p].kind \in {"SelectGroup", "metadata"} /\ io[p].pc = "done"
  BY DEF SelectGroupRPCDone, metadataHandler, GroupServed, Listed
<1>2. AllWatched(seen[p]) /\ req[p].kind \in BootKinds
  BY <1>1 DEF Listed, ServerInv, RequestsInv, RequestInv, AtGroups
<1>3. ASSUME NEW g \in Selected(p) \ {Failed}
      PROVE  g \in Group /\ collectVariables(g) # Failed
  <2>. DEFINE r == [req[p] EXCEPT !.group = g]
  <2>1. r.group = g /\ r.labels = req[p].labels
    BY DEF ServerInv, RequestsInv, RequestType, RequestFields
  <2>. HIDE DEF r
  <2>2. Chosen(r, seen[p])
    BY <1>1, <2>1, SelectedGroup
  <2>. QED
    BY <1>2, <2>1, <2>2, GroupVariables DEF Chosen, GroupFound
<1>4. PICK g \in Selected(p) \ {Failed} : ReplyAndRelease(p, "OK", g, Failed, <<>>)
  BY <1>3 DEF SelectGroupRPCDone, metadataHandler, GroupServed
<1>5. ASSUME NEW a, IsReply(a, req[p], "OK", g, Failed, <<>>)
      PROVE  GoodAnswer(a, seen[p])
  <2>1. /\ a.group = g /\ a.labels = req[p].labels /\ a.code = "OK"
        /\ a.kind = req[p].kind
    BY <1>5 DEF IsReply
  <2>2. Chosen(a, seen[p])
    BY <1>1, <2>1, SelectedGroup
  <2>3. ASSUME Undisturbed(seen[p]) PROVE "OK" \in Expected(a, seen[p])
    <3>1. g \in Best(GroupsSeen(seen[p]), a.labels)
      BY <2>1, <2>2, <2>3, BestSeen DEF Chosen
    <3>. QED
      BY <1>1, <2>1, <3>1, ExpectedSome
  <2>4. a.kind \notin TemplateKinds
    BY <1>1, <2>1 DEF TemplateKinds
  <2>. QED
    BY <1>1, <1>2, <2>1, <2>2, <2>3, <2>4 DEF GoodAnswer, Chosen
<1>6. <<>> \in Seq(Block)
  OBVIOUS
<1>. QED
  BY <1>1, <1>3, <1>4, <1>5, <1>6, ReplyStep DEF Listed

\* A request starts to get its profile or its template.
LEMMA WantedStep ==
  ASSUME ServerInv, NEW p \in Proc, NEW a \in RequestType, req' = [req EXCEPT ![p] = a],
         a.stage \in {"profile", "template"}, AllWatched(seen[p]), io[p].pc = "done",
         NEW kind \in Dirs, NEW x \in Dirs \X (Name \cup {NoId}), StartGet(p, kind, x),
         UNCHANGED <<dirs, created, files, last, spoiled, seen>>,
         \A o : Gets(o, kind, x) => /\ a.stage = "profile" => AtProfile(a, o, seen[p])
                                    /\ a.stage = "template" => AtTemplate(a, o, seen[p])
  PROVE  ServerInv'
<1>1. /\ req \in [Proc -> RequestType] /\ io \in [Proc -> Op]
      /\ StoreInv /\ ReadInv /\ RequestsInv
  BY DEF ServerInv, RequestsInv, StoreInv, StoreTypeOK
<1>2. StoreInv' /\ ReadInv'
  BY <1>1, GetStore
<1>3. /\ io'[p].op = "get" /\ io'[p].kind = kind /\ io'[p].pc = "read"
      /\ io'[p].dir = x[1] /\ io'[p].todo = {x[2]}
      /\ \A q \in Proc \ {p} : io'[q] = io[q]
  BY <1>1 DEF StartGet, Idle
<1>4. /\ req' \in [Proc -> RequestType] /\ req'[p] = a
      /\ \A q \in Proc \ {p} : req'[q] = req[q]
  BY <1>1
<1>5. Gets(io'[p], kind, x)
  BY <1>3 DEF Gets
<1>6. RequestInv(req'[p], io'[p], seen'[p])
  BY <1>4, <1>5 DEF RequestInv, Answered
<1>7. GotInv(io'[p], seen'[p])
  BY <1>3 DEF GotInv
<1>8. RequestsInv'
  BY <1>1, <1>3, <1>4, <1>6, <1>7, OneRequest
<1>. QED
  BY <1>2, <1>8 DEF ServerInv

LEMMA ProfileWantedStep ==
  ASSUME ServerInv, NEW p \in Proc, ProfileWanted(p)
  PROVE  ServerInv'
<1>1. /\ Listed(p) /\ io[p].pc = "done" /\ req[p].kind \notin {"SelectGroup", "metadata"}
      /\ req[p] \in RequestType
  BY DEF ProfileWanted, Listed, ServerInv, RequestsInv
<1>2. AllWatched(seen[p]) /\ req[p].kind \in BootKinds
  BY <1>1 DEF Listed, ServerInv, RequestsInv, RequestInv, AtGroups
<1>3. PICK g \in Selected(p) \ {Failed} :
        /\ req' = [req EXCEPT ![p].stage = "profile", ![p].group = g]
        /\ StartGet(p, "profiles", Place("profiles", g.profile))
  BY DEF ProfileWanted, ProfileGet
<1>. DEFINE a == [req[p] EXCEPT !.stage = "profile", !.group = g]
<1>4. /\ req' = [req EXCEPT ![p] = a]
      /\ a.stage = "profile" /\ a.group = g /\ a.labels = req[p].labels
      /\ a.kind = req[p].kind
  BY <1>1, <1>3 DEF RequestType, RequestFields
<1>. HIDE DEF a
<1>5. Chosen(a, seen[p])
  BY <1>1, <1>4, SelectedGroup
<1>6. g \in Group /\ g.profile \in Id \cup {NoId}
  BY <1>4, <1>5 DEF Chosen, Group
<1>7. a \in RequestType
  BY <1>1, <1>6, FailedAssumption DEF a, RequestType, RequestFields
<1>8. "profiles" \in Dirs
  BY DEF Dirs
<1>9. PICK x \in Dirs \X (Name \cup {NoId}) : x = Place("profiles", g.profile)
  BY <1>6, <1>8, PlaceOfGet
<1>10. \A o : Gets(o, "profiles", x) => AtProfile(a, o, seen[p])
  BY <1>1, <1>2, <1>4, <1>5, <1>9 DEF AtProfile
<1>. QED
  BY <1>1, <1>2, <1>3, <1>4, <1>7, <1>8, <1>9, <1>10, WantedStep DEF Listed

\* What a request knows once its profile has been read.
LEMMA AtProfileFacts ==
  ASSUME ServerInv, NEW p \in Proc, ProfileRead(p)
  PROVE  /\ req[p] \in RequestType /\ io[p].pc = "done"
         /\ req[p].kind \in BootKinds \ {"SelectGroup", "metadata"}
         /\ AllWatched(seen[p])
         /\ Chosen(req[p], seen[p]) /\ req[p].group \in Group
         /\ UNCHANGED <<dirs, created, files, last, spoiled, seen>>
BY DEF ProfileRead, ServerInv, RequestsInv, RequestInv, AtProfile, Chosen

\* In a tree left alone the group of an answer is a best match.
LEMMA ChosenBest ==
  ASSUME NEW s, Undisturbed(s), NEW r, Chosen(r, s)
  PROVE  r.group \in Best(GroupsSeen(s), r.labels)
<1>1. r.group # Failed
  BY FailedAssumption DEF Chosen
<1>. QED
  BY <1>1, BestSeen DEF Chosen

LEMMA ProfileNotFoundStep ==
  ASSUME ServerInv, NEW p \in Proc, ProfileNotFound(p)
  PROVE  ServerInv'
<1>. DEFINE g == req[p].group
            s == seen[p]
<1>1. ProfileRead(p) /\ io[p].err
  BY DEF ProfileNotFound
<1>2. /\ req[p] \in RequestType /\ io[p].pc = "done"
      /\ req[p].kind \in BootKinds \ {"SelectGroup", "metadata"}
      /\ AllWatched(s) /\ Chosen(req[p], s) /\ g \in Group
      /\ UNCHANGED <<dirs, created, files, last, spoiled, seen>>
  BY <1>1, AtProfileFacts
<1>3. ReplyAndRelease(p, "NotFound", g, Failed, <<>>)
  BY DEF ProfileNotFound, grpcError
<1>4. ASSUME NEW a, IsReply(a, req[p], "NotFound", g, Failed, <<>>)
      PROVE  GoodAnswer(a, s)
  <2>1. /\ a.group = g /\ a.labels = req[p].labels /\ a.code = "NotFound"
        /\ a.kind = req[p].kind
    BY <1>4 DEF IsReply
  <2>2. Chosen(a, s)
    BY <1>2, <2>1, SameGroup
  <2>3. ASSUME Undisturbed(s) PROVE "NotFound" \in Expected(a, s)
    <3>1. a.group \in Best(GroupsSeen(s), a.labels)
      BY <2>2, <2>3, ChosenBest
    <3>2. a.group.profile = NoId \/ ParsedSeen(s, "profiles", Place("profiles", a.group.profile)) = {}
      BY <1>1, <2>1, <2>3, ReadProfile
    <3>. QED
      BY <1>2, <2>1, <3>1, <3>2, ExpectedSome
  <2>. QED
    BY <1>2, <2>1, <2>2, <2>3 DEF GoodAnswer, Chosen
<1>5. <<>> \in Seq(Block)
  OBVIOUS
<1>. QED
  BY <1>2, <1>3, <1>4, <1>5, ReplyStep

\* A request that needs no more than its profile.
LEMMA ProfileServedStep ==
  ASSUME ServerInv, NEW p \in Proc,
         \/ SelectProfileRPCDone(p) \/ pixiecoreHandler(p) \/ grubHandler(p) \/ ipxeHandler(p)
  PROVE  ServerInv'
<1>. DEFINE g == req[p].group
            k == req[p].kind
            s == seen[p]
            f == io[p].got[1]
            code == IF k \in {"grub", "ipxe"} /\ ~f.boot THEN "NotFound" ELSE "OK"
<1>1. /\ ProfileRead(p) /\ ~io[p].err
      /\ k \in {"SelectProfile", "pixiecore", "grub", "ipxe"}
  BY DEF SelectProfileRPCDone, pixiecoreHandler, grubHandler, ipxeHandler, ProfileServed
<1>2. /\ req[p] \in RequestType /\ io[p].pc = "done"
      /\ AllWatched(s) /\ Chosen(req[p], s) /\ g \in Group
      /\ UNCHANGED <<dirs, created, files, last, spoiled, seen>>
  BY <1>1, AtProfileFacts
<1>3. g.profile \in Id /\ f \in ParsedSeen(s, "profiles", Place("profiles", g.profile))
  BY <1>1, ReadProfile
<1>4. f \in Profile /\ g # Failed
  BY <1>2, <1>3, ParsedProfile, FailedAssumption
<1>5. ReplyAndRelease(p, code, g, f, <<>>)
  <2>1. CASE SelectProfileRPCDone(p) \/ pixiecoreHandler(p)
    BY <2>1 DEF SelectProfileRPCDone, pixiecoreHandler, ProfileServed
  <2>2. CASE grubHandler(p)
    BY <2>2 DEF grubHandler, ProfileServed
  <2>3. CASE ipxeHandler(p)
    BY <2>3 DEF ipxeHandler, ProfileServed
  <2>. QED
    BY <2>1, <2>2, <2>3
<1>6. code \in {"OK", "NotFound"} /\ code = ExpectedFor(k, s, g, f)
  BY <1>1 DEF ExpectedFor
<1>. HIDE DEF f, code
<1>7. ASSUME NEW a, IsReply(a, req[p], code, g, f, <<>>)
      PROVE  GoodAnswer(a, s)
  <2>1. /\ a.group = g /\ a.labels = req[p].labels /\ a.code = code
        /\ a.kind = k /\ a.profile = f
    BY <1>7 DEF IsReply
  <2>2. Chosen(a, s)
    BY <1>2, <2>1, SameGroup
  <2>3. ASSUME Undisturbed(s) PROVE code \in Expected(a, s)
    <3>1. g \in Best(GroupsSeen(s), a.labels)
      BY <2>1, <2>2, <2>3, ChosenBest
    <3>2. g.profile # NoId /\ a.kind \notin {"SelectGroup", "metadata"}
      BY <1>1, <1>3, <2>1, IdFacts
    <3>. QED
      BY <1>3, <1>6, <2>1, <3>1, <3>2, ExpectedSome
  <2>4. ProfileFound(a, s)
    BY <1>3, <2>1 DEF ProfileFound
  <2>5. a.kind \notin TemplateKinds
    BY <1>1, <2>1 DEF TemplateKinds
  <2>. QED
    BY <1>2, <2>1, <2>2, <2>3, <2>4, <2>5 DEF GoodAnswer, Chosen
<1>8. <<>> \in Seq(Block)
  OBVIOUS
<1>. QED
  BY <1>2, <1>4, <1>5, <1>6, <1>7, <1>8, ReplyStep

LEMMA TemplateWantedStep ==
  ASSUME ServerInv, NEW p \in Proc, TemplateWanted(p)
  PROVE  ServerInv'
<1>. DEFINE g == req[p].group
            k == req[p].kind
            s == seen[p]
            f == io[p].got[1]
            n == TemplateName(f, k)
            a == [req[p] EXCEPT !.stage = "template", !.profile = f]
<1>1. ProfileRead(p) /\ ~io[p].err /\ k \in TemplateKinds
  BY DEF TemplateWanted, TemplateKinds
<1>2. /\ req[p] \in RequestType /\ io[p].pc = "done"
      /\ AllWatched(s) /\ Chosen(req[p], s) /\ g \in Group
      /\ UNCHANGED <<dirs, created, files, last, spoiled, seen>>
  BY <1>1, AtProfileFacts
<1>3. g.profile \in Id /\ f \in ParsedSeen(s, "profiles", Place("profiles", g.profile))
  BY <1>1, ReadProfile
<1>4. f \in Profile /\ g # Failed
  BY <1>2, <1>3, ParsedProfile, FailedAssumption
<1>5. StartGet(p, k, Place(k, n))
  <2>1. CASE k = "ignition"
    BY <2>1 DEF TemplateWanted, IgnitionGet
  <2>2. CASE k = "cloud"
    BY <2>2 DEF TemplateWanted, CloudGet
  <2>3. CASE k = "generic"
    BY <2>3 DEF TemplateWanted, GenericGet
  <2>. QED
    BY <1>1, <2>1, <2>2, <2>3 DEF TemplateKinds
<1>6. req' = [req EXCEPT ![p] = a]
  BY DEF TemplateWanted
<1>. HIDE DEF f
<1>7. n \in Id \cup {NoId}
  BY <1>4 DEF TemplateName, Profile
<1>8. /\ a \in RequestType /\ a.stage = "template" /\ a.group = g /\ a.labels = req[p].labels
      /\ a.kind = k /\ a.profile = f
  BY <1>2, <1>4 DEF RequestType, RequestFields
<1>. HIDE DEF a
<1>9. Chosen(a, s)
  BY <1>2, <1>8, SameGroup
<1>10. ProfileFound(a, s)
  BY <1>3, <1>8 DEF ProfileFound
<1>11. k \in Dirs
  BY <1>1 DEF TemplateKinds, Dirs
<1>12. PICK x \in Dirs \X (Name \cup {NoId}) : x = Place(k, n)
  BY <1>7, <1>11, PlaceOfGet
<1>13. \A o : Gets(o, k, x) => AtTemplate(a, o, s)
  BY <1>1, <1>2, <1>4, <1>8, <1>9, <1>10, <1>12 DEF AtTemplate
<1>. HIDE DEF n, k
<1>. QED
  BY <1>2, <1>5, <1>6, <1>8, <1>11, <1>12, <1>13, WantedStep

\* What a request knows once its template has been read.
LEMMA AtTemplateFacts ==
  ASSUME ServerInv, NEW p \in Proc, req[p].stage = "template", io[p].pc = "done"
  PROVE  /\ req[p] \in RequestType /\ req[p].kind \in TemplateKinds
         /\ req[p].kind \in BootKinds \ {"SelectGroup", "metadata"}
         /\ AllWatched(seen[p])
         /\ Chosen(req[p], seen[p]) /\ req[p].group \in Group
         /\ ProfileFound(req[p], seen[p]) /\ req[p].profile \in Profile
<1>1. TemplateKinds \subseteq BootKinds \ {"SelectGroup", "metadata"}
  BY DEF TemplateKinds, BootKinds, Endpoints
<1>. QED
  BY <1>1 DEF ServerInv, RequestsInv, RequestInv, AtTemplate, Chosen

\* A code is good for a template request that found its group and profile if
\* what it says of the template is.
LEMMA TemplateAnswer ==
  ASSUME ServerInv, NEW p \in Proc, req[p].stage = "template", io[p].pc = "done",
         NEW code, NEW c, NEW a,
         IsReply(a, req[p], code, req[p].group, req[p].profile, c),
         code = "OK" => TemplateFound(a, seen[p]),
         Undisturbed(seen[p]) =>
           code = ExpectedFor(req[p].kind, seen[p], req[p].group, req[p].profile)
  PROVE  GoodAnswer(a, seen[p])
<1>. DEFINE g == req[p].group
            f == req[p].profile
            k == req[p].kind
            s == seen[p]
<1>1. /\ k \in BootKinds \ {"SelectGroup", "metadata"}
      /\ AllWatched(s) /\ Chosen(req[p], s) /\ ProfileFound(req[p], s)
  BY AtTemplateFacts
<1>2. /\ a.group = g /\ a.labels = req[p].labels /\ a.code = code
      /\ a.kind = k /\ a.profile = f
  BY DEF IsReply
<1>3. Chosen(a, s)
  BY <1>1, <1>2, SameGroup
<1>4. ProfileFound(a, s)
  BY <1>1, <1>2 DEF ProfileFound
<1>5. ASSUME Undisturbed(s) PROVE code \in Expected(a, s)
  <2>1. g \in Best(GroupsSeen(s), a.labels)
    BY <1>2, <1>3, <1>5, ChosenBest
  <2>2. g.profile # NoId /\ f \in ParsedSeen(s, "profiles", Place("profiles", g.profile))
    BY <1>1, IdFacts DEF ProfileFound
  <2>. QED
    BY <1>1, <1>2, <1>5, <2>1, <2>2, ExpectedSome
<1>. QED
  BY <1>1, <1>2, <1>3, <1>4, <1>5 DEF GoodAnswer, Chosen

LEMMA TemplateNotFoundStep ==
  ASSUME ServerInv, NEW p \in Proc, TemplateNotFound(p)
  PROVE  ServerInv'
<1>. DEFINE g == req[p].group
            f == req[p].profile
            k == req[p].kind
            s == seen[p]
            n == TemplateName(f, k)
<1>1. /\ req[p].stage = "template" /\ io[p].pc = "done" /\ io[p].err
      /\ ReplyAndRelease(p, "NotFound", g, f, <<>>)
      /\ UNCHANGED <<dirs, created, files, last, spoiled, seen>>
  BY DEF TemplateNotFound
<1>2. g \in Group /\ g # Failed /\ f \in Profile /\ k \in TemplateKinds
  BY <1>1, AtTemplateFacts, FailedAssumption
<1>3. ASSUME Undisturbed(s) PROVE ExpectedFor(k, s, g, f) = "NotFound"
  <2>1. n = NoId \/ s[Place(k, n)] = {NoFile}
    BY <1>1, <1>3, ReadTemplate
  <2>. QED
    BY <1>2, <2>1, ExpectedTemplate
<1>4. ASSUME NEW a, IsReply(a, req[p], "NotFound", g, f, <<>>) PROVE GoodAnswer(a, s)
  <2>1. "NotFound" # "OK"
    OBVIOUS
  <2>. QED
    BY <1>1, <1>3, <1>4, <2>1, TemplateAnswer
<1>5. <<>> \in Seq(Block)
  OBVIOUS
<1>. QED
  BY <1>1, <1>2, <1>4, <1>5, ReplyStep

\* A template endpoint renders what it has read, or sends it as it is.
LEMMA TemplateServedStep ==
  ASSUME ServerInv, NEW p \in Proc, ignitionHandler(p) \/ cloudHandler(p) \/ genericHandler(p)
  PROVE  ServerInv'
<1>. DEFINE g == req[p].group
            f == req[p].profile
            k == req[p].kind
            s == seen[p]
            n == TemplateName(f, k)
            c == io[p].got[1].bytes
            v == collectVariables(g)
            raw == k = "ignition" /\ n \in RawName
            empty == IF k = "cloud" THEN "NotFound" ELSE "OK"
<1>1. /\ req[p].stage = "template" /\ io[p].pc = "done" /\ ~io[p].err
      /\ UNCHANGED <<dirs, created, files, last, spoiled, seen>>
  BY DEF ignitionHandler, cloudHandler, genericHandler, TemplateServed
<1>2. /\ g \in Group /\ g # Failed /\ f \in Profile /\ k \in TemplateKinds
      /\ Chosen(req[p], s)
  BY <1>1, AtTemplateFacts, FailedAssumption
<1>3. v \in SUBSET Var /\ v # Failed
  BY <1>2, GroupVariables DEF Chosen, GroupFound
<1>4. /\ n \in Id /\ c \in Seq(Block)
      /\ \A i \in 1..Len(c) : c[i] \in s[Place(k, n)] \cup {Hole}
      /\ Undisturbed(s) => \E d \in Doc : s[Place(k, n)] = {d} /\ d # NoFile /\ c = Image(d)
  BY <1>1, ReadTemplate
<1>5. PICK code : /\ ReplyAndRelease(p, code, g, f, c)
                  /\ raw => code = "OK"
                  /\ ~raw => code \in renderTemplate(k, empty, c, v)
  <2>1. CASE ignitionHandler(p)
    <3>1. k = "ignition" /\ n = f.ignition
      BY <2>1 DEF ignitionHandler, TemplateServed, TemplateName
    <3>. QED
      BY <2>1, <3>1 DEF ignitionHandler, TemplateServed
  <2>2. CASE cloudHandler(p)
    BY <2>2 DEF cloudHandler, TemplateServed
  <2>3. CASE genericHandler(p)
    BY <2>3 DEF genericHandler, TemplateServed
  <2>. QED
    BY <2>1, <2>2, <2>3
<1>6. code \in {"OK", "NotFound"}
  BY <1>5 DEF renderTemplate
<1>7. ASSUME Undisturbed(s) PROVE code = ExpectedFor(k, s, g, f)
  <2>1. PICK d \in Doc : s[Place(k, n)] = {d} /\ d # NoFile /\ c = Image(d)
    BY <1>4, <1>7
  <2>2. n # NoId
    BY <1>4, IdFacts
  <2>3. ExpectedFor(k, s, g, f) =
          IF raw THEN "OK" ELSE IF Needs(d) \subseteq v /\ d \in Accepts(k) THEN "OK"
                                ELSE "NotFound"
    BY <1>2, <2>1, <2>2, ExpectedTemplate
  <2>4. CASE raw
    BY <1>5, <2>3, <2>4
  <2>5. CASE ~raw
    <3>1. code \in renderTemplate(k, IF k = "cloud" THEN "NotFound" ELSE "OK", Image(d), v)
      BY <1>5, <2>1, <2>5
    <3>2. code = IF Needs(d) \subseteq v /\ d \in Accepts(k) THEN "OK" ELSE "NotFound"
      BY <1>2, <1>3, <3>1, RenderWhole
    <3>. QED
      BY <2>3, <2>5, <3>2
  <2>. QED
    BY <2>4, <2>5
<1>8. ASSUME NEW a, IsReply(a, req[p], code, g, f, c) PROVE GoodAnswer(a, s)
  <2>1. a.kind = k /\ a.profile = f /\ a.bytes = c
    BY <1>8 DEF IsReply
  <2>2. DOMAIN c = 1..Len(c)
    BY <1>4
  <2>. HIDE DEF c, k, f
  <2>3. TemplateFound(a, s)
    BY <1>4, <2>1, <2>2 DEF TemplateFound
  <2>. USE DEF c, k, f
  <2>. QED
    BY <1>1, <1>7, <1>8, <2>3, TemplateAnswer
<1>. HIDE DEF c
<1>. QED
  BY <1>1, <1>2, <1>4, <1>5, <1>6, <1>8, ReplyStep

\* The goroutine of an answered request ends.
LEMMA FinishStep ==
  ASSUME ServerInv, NEW p \in Proc, Finish(p)
  PROVE  ServerInv'
<1>1. /\ StoreInv /\ ReadInv /\ RequestsInv /\ io \in [Proc -> Op] /\ io[p].pc = "idle"
      /\ req \in [Proc -> RequestType] /\ seen \in SeenType
  BY DEF Finish, ServerInv, RequestsInv, RequestInv, StoreInv, StoreTypeOK
<1>2. io[p] = Idle /\ Idle.op = "none" /\ Idle.pc = "idle"
  BY <1>1 DEF ReadInv, ReaderInv, OpShape, Idle
<1>3. /\ io' = [io EXCEPT ![p] = Idle] /\ io' = io
      /\ UNCHANGED <<dirs, created, files, last, spoiled>>
  BY <1>1, <1>2 DEF Finish
<1>4. /\ seen' \in SeenType /\ \A q \in Proc \ {p} : seen'[q] = seen[q]
      /\ \A x \in Path : seen'[p][x] = {}
  BY <1>1 DEF Finish, SeenType
<1>5. StoreInv'
  BY <1>1, <1>2, <1>3, <1>4, IdleType, QuietStep DEF StoreInv, StoreTypeOK
<1>6. ReadInv'
  <2>1. ReaderInv(p)'
    BY <1>2, <1>3, NotReading DEF OpShape, IsReading
  <2>. QED
    BY <1>1, <1>2, <1>3, <1>4, <2>1, QuietRead
<1>7. /\ req' \in [Proc -> RequestType] /\ req'[p] = NoRequest
      /\ \A q \in Proc \ {p} : req'[q] = req[q]
  BY <1>1, NoRequestType DEF Finish
<1>8. GotInv(io'[p], seen'[p])
  BY <1>2, <1>3 DEF GotInv
<1>9. RequestInv(req'[p], io'[p], seen'[p])
  BY <1>1, <1>3, <1>7, NoRequestType DEF RequestInv, Answered
<1>10. RequestsInv'
  BY <1>1, <1>3, <1>4, <1>7, <1>8, <1>9, OneRequest
<1>. QED
  BY <1>5, <1>6, <1>10 DEF ServerInv

\* With every goroutine idle there is nothing to say of requests.
LEMMA NobodyAsks ==
  ASSUME NEW r, NEW o, NEW s, r = NoRequest, o = Idle, s = [x \in Path |-> {}]
  PROVE  GotInv(o, s) /\ RequestInv(r, o, s)
<1>1. Idle.pc = "idle" /\ Idle.op = "none"
  BY DEF Idle
<1>. QED
  BY <1>1, NoRequestType DEF GotInv, RequestInv, Answered

\* A crash ends every request.
LEMMA ServerCrashStep ==
  ASSUME ServerInv, Crash, req' = [p \in Proc |-> NoRequest]
  PROVE  ServerInv'
<1>1. StoreInv' /\ ReadInv'
  BY CrashStep, CrashRead DEF ServerInv
<1>2. \A p \in Proc : /\ req'[p] = NoRequest /\ io'[p] = Idle
                      /\ seen'[p] = [x \in Path |-> {}]
  BY DEF Crash
<1>3. req' \in [Proc -> RequestType]
  BY NoRequestType
<1>4. RequestsInv'
  BY <1>2, <1>3, NobodyAsks DEF RequestsInv
<1>. QED
  BY <1>1, <1>4 DEF ServerInv

LEMMA InitServer == Init => ServerInv
<1>. SUFFICES ASSUME Init PROVE ServerInv
  OBVIOUS
<1>1. StoreInv /\ ReadInv
  BY InitInv, InitRead DEF Init
<1>2. \A p \in Proc : /\ req[p] = NoRequest /\ io[p] = Idle
                      /\ seen[p] = [x \in Path |-> {}]
  BY DEF Init, StoreInit
<1>3. req \in [Proc -> RequestType]
  BY NoRequestType DEF Init
<1>4. RequestsInv
  BY <1>2, <1>3, NobodyAsks DEF RequestsInv
<1>. QED
  BY <1>1, <1>4 DEF ServerInv

LEMMA NextServer == ServerInv /\ [Next]_vars => ServerInv'
<1>. SUFFICES ASSUME ServerInv, [Next]_vars PROVE ServerInv'
  OBVIOUS
<1>1. ASSUME NEW p \in Proc, SysCall(p) \/ SysFault(p), UNCHANGED req PROVE ServerInv'
  <2>1. [StoreNext]_storeVars
    BY <1>1 DEF StoreNext
  <2>2. StoreInv' /\ ReadInv'
    BY <2>1, NextInv, NextRead DEF ServerInv
  <2>. QED
    BY <1>1, <2>2, SysStep DEF ServerInv
<1>2. ASSUME NEW p \in Proc, Request(p) PROVE ServerInv'
  BY <1>2, RequestStep
<1>3. ASSUME NEW p \in Proc, Work(p) PROVE ServerInv'
  <2>1. CASE SysCall(p) /\ UNCHANGED req
    BY <1>1, <2>1
  <2>2. CASE StoreRPCDone(p)
    BY <2>2, StoreRPCDoneStep
  <2>3. CASE GroupNotFound(p)
    BY <2>3, GroupNotFoundStep
  <2>4. CASE SelectGroupRPCDone(p) \/ metadataHandler(p)
    BY <2>4, GroupServedStep
  <2>5. CASE ProfileWanted(p)
    BY <2>5, ProfileWantedStep
  <2>6. CASE ProfileNotFound(p)
    BY <2>6, ProfileNotFoundStep
  <2>7. CASE SelectProfileRPCDone(p) \/ pixiecoreHandler(p) \/ grubHandler(p) \/ ipxeHandler(p)
    BY <2>7, ProfileServedStep
  <2>8. CASE TemplateWanted(p)
    BY <2>8, TemplateWantedStep
  <2>9. CASE TemplateNotFound(p)
    BY <2>9, TemplateNotFoundStep
  <2>10. CASE ignitionHandler(p) \/ cloudHandler(p) \/ genericHandler(p)
    BY <2>10, TemplateServedStep
  <2>11. CASE Finish(p)
    BY <2>11, FinishStep
  <2>. QED
    BY <1>3, <2>1, <2>2, <2>3, <2>4, <2>5, <2>6, <2>7, <2>8, <2>9, <2>10, <2>11 DEF Work
<1>4. CASE Crash /\ req' = [p \in Proc |-> NoRequest]
  BY <1>4, ServerCrashStep
<1>5. CASE UNCHANGED vars
  <2>1. UNCHANGED storeVars /\ req' = req /\ io' = io /\ seen' = seen
    BY <1>5 DEF vars, storeVars
  <2>2. StoreInv' /\ ReadInv'
    BY <2>1, NextInv, NextRead DEF ServerInv
  <2>3. RequestsInv'
    BY <2>1 DEF ServerInv, RequestsInv
  <2>. QED
    BY <2>2, <2>3 DEF ServerInv
<1>. QED
  BY <1>1, <1>2, <1>3, <1>4, <1>5 DEF Next

-----------------------------------------------------------------------------
(***************************************************************************)
(* Theorems                                                                *)
(***************************************************************************)

\* In every state of bootcfg, whatever requests the handlers of bootcfg/http and
\* bootcfg/rpc serve at once, each of them knows what it has found of its chain
\* and waits for the store operation that its stage calls for.
THEOREM ServerInvariance == Spec => []ServerInv
BY InitServer, NextServer, PTL DEF Spec

\* The invariant implies each of the properties.
LEMMA ServerFromInv ==
  ServerInv => TypeOK /\ StableGroupPreferred /\ AnswersFromOneChain /\ UndisturbedAnswer
<1>. SUFFICES ASSUME ServerInv
              PROVE  TypeOK /\ StableGroupPreferred /\ AnswersFromOneChain /\ UndisturbedAnswer
  OBVIOUS
<1>1. TypeOK
  <2>1. req \in [Proc -> RequestType]
    BY DEF ServerInv, RequestsInv
  <2>2. ASSUME NEW p \in Proc
        PROVE  /\ req[p].stage \in {"profile", "template"} => req[p].group # Failed
               /\ req[p].stage = "template" => req[p].profile # Failed
    <3>1. RequestInv(req[p], io[p], seen[p])
      BY DEF ServerInv, RequestsInv
    <3>. QED
      BY <3>1, FailedAssumption DEF RequestInv, AtProfile, AtTemplate, Chosen
  <2>. QED
    BY <2>1, <2>2 DEF TypeOK, RequestType, RequestFields
<1>2. \A p \in Proc : Answered(req[p]) => GoodAnswer(req[p], seen[p])
  BY DEF ServerInv, RequestsInv, RequestInv
<1>3. StableGroupPreferred
  BY <1>2 DEF StableGroupPreferred, GoodAnswer
<1>4. AnswersFromOneChain
  BY <1>2 DEF AnswersFromOneChain, GoodAnswer, TemplateKinds
<1>5. UndisturbedAnswer
  BY <1>2 DEF UndisturbedAnswer, GoodAnswer
<1>. QED
  BY <1>1, <1>3, <1>4, <1>5

\* The handlers of bootcfg/http and the selection RPCs never go on without what
\* they were told to look up: whatever fails or changes meanwhile, a request that
\* waits for a profile has its group, and one that waits for a template its group
\* and profile, so that no nil pointer is followed.
THEOREM ServerTypeCorrect == Spec => []TypeOK
BY ServerInvariance, ServerFromInv, PTL

\* SelectGroup of server.go never prefers a group of fewer selectors to a matching
\* one whose file stayed as it was during the request, nor finds none, for any
\* number of groups, requests and concurrent puts.
THEOREM StableGroupPreferredCorrect == Spec => []StableGroupPreferred
BY ServerInvariance, ServerFromInv, PTL

\* A 200 or OK of the boot endpoints is made of a group that matched, the profile
\* that this group names and the template that this profile names, each of them
\* stored while the request ran, however puts and crashes interleave with it; of
\* several documents together only where a file was torn by its puts.
THEOREM AnswersFromOneChainCorrect == Spec => []AnswersFromOneChain
BY ServerInvariance, ServerFromInv, PTL

\* A boot request during which no file changes and no system call fails is
\* answered as the handlers would answer it alone on that tree.
THEOREM UndisturbedAnswerCorrect == Spec => []UndisturbedAnswer
BY ServerInvariance, ServerFromInv, PTL

=============================================================================
