--------------------------- MODULE FileStoreProofs ---------------------------
(***************************************************************************)
(* Proofs about FileStore, for every set of goroutines, ids, documents and *)
(* document sizes: type correctness, and that a path whose puts do not     *)
(* overlap, fail or crash holds the document last acknowledged.            *)
(***************************************************************************)
EXTENDS FileStore, SelectionProofs

-----------------------------------------------------------------------------
(***************************************************************************)
(* Documents and paths                                                     *)
(***************************************************************************)

\* Nothing that stands for a missing document is one.
LEMMA Markers ==
  /\ Hole \notin Doc /\ NoDoc \notin Doc /\ Torn \notin Doc /\ NoFile \notin Doc
BY StoreAssumption

\* Ids are positive naturals, so no path has the empty name.
LEMMA IdFacts ==
  /\ Id \subseteq Nat /\ NoId \in Nat /\ NoId \notin Id
  /\ Name \subseteq Nat /\ Name \subseteq Id /\ NoId \notin Name
BY IdAssumption, NameAssumption DEF NoId

\* Every id, plain or not, leads to a path; the empty one to no path.
LEMMA PlaceType ==
  ASSUME NEW dir \in Dirs
  PROVE  /\ \A n \in Id : Place(dir, n) \in Path
         /\ \A n \in Name : Place(dir, n) = <<dir, n>>
         /\ Place(dir, NoId) = <<dir, NoId>> /\ Place(dir, NoId) \notin Path
<1>1. ASSUME NEW n \in Id \ Name PROVE Place(dir, n) \in Path
  <2>1. n \notin Name \cup {NoId} /\ <<dir, n>> \in Dirs \X (Id \ Name)
    BY IdFacts
  <2>2. Alias[<<dir, n>>] \in Path
    BY <2>1, NameAssumption
  <2>. QED
    BY <2>1, <2>2 DEF Place
<1>2. /\ \A n \in Name : Place(dir, n) = <<dir, n>> /\ <<dir, n>> \in Path
      /\ Place(dir, NoId) = <<dir, NoId>> /\ <<dir, NoId>> \notin Path
  BY IdFacts DEF Place, Path
<1>. QED
  BY <1>1, <1>2

\* So does the pair of a directory and a name that a get may ask for.
LEMMA PlaceOfGet ==
  ASSUME NEW dir \in Dirs, NEW n \in Id \cup {NoId}
  PROVE  Place(dir, n) \in Dirs \X (Name \cup {NoId})
BY PlaceType DEF Path

\* A put or get works on the one name it was started with.
LEMMA TargetOfOne ==
  ASSUME NEW p, NEW n \in Nat, io[p].todo = {n}
  PROVE  Current(p) = n /\ Target(p) = <<io[p].dir, n>>
<1>1. \A m \in {n} : n <= m
  OBVIOUS
<1>2. Current(p) = n
  BY <1>1 DEF Current
<1>. QED
  BY <1>2 DEF Target

\* The image of a document is a sequence of its blocks.
LEMMA ImageType ==
  ASSUME NEW d \in Doc
  PROVE  /\ Image(d) \in Seq(Block)
         /\ Len(Image(d)) = Size(d)
         /\ \A i \in 1..Size(d) : Image(d)[i] = d
BY StoreAssumption DEF Image, Block

\* Blocks lo+1..hi of d over blocks 1..lo of d are blocks 1..hi of d.
LEMMA OverlayPrefix ==
  ASSUME NEW d, NEW lo \in Nat, NEW hi \in Nat, lo < hi
  PROVE  Overlay([i \in 1..lo |-> d], lo, hi, d) = [i \in 1..hi |-> d]
<1>1. Len([i \in 1..lo |-> d]) = lo
  OBVIOUS
<1>. QED
  BY <1>1 DEF Overlay

\* Writing blocks of d leaves a sequence of old blocks, of d, and of holes.
LEMMA OverlayType ==
  ASSUME NEW S, NEW c \in Seq(S), NEW d \in S, NEW lo \in Nat, NEW hi \in Nat, Hole \in S
  PROVE  Overlay(c, lo, hi, d) \in Seq(S)
<1>. DEFINE n == IF hi > Len(c) THEN hi ELSE Len(c)
<1>1. n \in Nat
  OBVIOUS
<1>2. \A i \in 1..n :
        (IF lo < i /\ i <= hi THEN d ELSE IF i <= Len(c) THEN c[i] ELSE Hole) \in S
  OBVIOUS
<1>. QED
  BY <1>1, <1>2 DEF Overlay

\* Parsing a document of any kind gives a result or an error.
LEMMA ParseDocType ==
  ASSUME NEW kind, NEW d \in Doc
  PROVE  ParseDoc(kind, d) \in Result \cup {Failed}
<1>1. ParseGroup(d) \in Group \cup {Failed} /\ ParseProfile(d) \in Profile \cup {Failed}
  BY ParseGroupType, ParseProfileType
<1>2. [bytes |-> Image(d)] \in [bytes : Seq(Block)]
  BY ImageType
<1>. QED
  BY <1>1, <1>2 DEF ParseDoc, Result

\* Mixtures are documents, and more documents have more of them.
LEMMA MixtureType ==
  ASSUME NEW D, NEW E, D \subseteq E
  PROVE  Mixture(D) \subseteq Doc /\ Mixture(D) \subseteq Mixture(E)
BY MixedAssumption DEF Mixture

\* It takes two documents to make one.
LEMMA MixtureOfOne ==
  ASSUME NEW d PROVE Mixture({d}) = {} /\ Mixture({}) = {}
BY MixedAssumption DEF Mixture

\* What bytes decode to is a document.
LEMMA DecodingsType ==
  ASSUME NEW c \in Seq(Block)
  PROVE  Decodings(c) \subseteq Doc
<1>1. CASE Whole(c)
  <2>1. c # <<>> /\ c[1] # Hole /\ c[1] \in Block
    BY <1>1 DEF Whole
  <2>. QED
    BY <1>1, <2>1 DEF Decodings, Block
<1>2. CASE ~Whole(c)
  BY <1>2, MixtureType DEF Decodings
<1>. QED
  BY <1>1, <1>2

\* Parsing bytes gives results or an error too.
LEMMA ParseType ==
  ASSUME NEW kind, NEW c \in Seq(Block), NEW r \in Parse(kind, c)
  PROVE  r \in Result \cup {Failed}
<1>1. CASE kind \notin {"groups", "profiles"}
  BY <1>1 DEF Parse, Result
<1>2. CASE kind \in {"groups", "profiles"}
  <2>1. r = Failed \/ \E d \in Decodings(c) : r = ParseDoc(kind, d)
    BY <1>2 DEF Parse
  <2>. QED
    BY <2>1, DecodingsType, ParseDocType
<1>. QED
  BY <1>1, <1>2

\* A group that passes ToRichGroup is written as a document of groups/.
LEMMA MarshalType ==
  ASSUME NEW g \in Group, ToRichGroup(g) # Failed
  PROVE  MarshalRichGroup(ToRichGroup(g)) \in RichGroup
<1>. DEFINE meta == IF g.metadata = NoBytes THEN {} ELSE Unmarshal[g.metadata]
<1>1. meta # BadJSON /\ meta \in {BadJSON} \cup SUBSET Var
  BY MetadataAssumption DEF ToRichGroup, Group
<1>2. ToRichGroup(g) = [id |-> g.id, profile |-> g.profile, selector |-> g.selector,
                        metadata |-> meta]
  BY <1>1 DEF ToRichGroup
<1>. QED
  BY <1>1, <1>2 DEF MarshalRichGroup, RichGroup, Group

-----------------------------------------------------------------------------
(***************************************************************************)
(* Steps                                                                   *)
(***************************************************************************)

LEMMA IdleType == Idle \in Op /\ OpWellFormed(Idle)
BY DEF Idle, Op, Dirs, OpWellFormed, NoId

\* A put in flight writes a path of the store.
LEMMA PutTarget ==
  ASSUME StoreInv, NEW p \in Proc, io[p].pc \in {"mkdir", "open", "write"}
  PROVE  Target(p) \in Path
<1>1. PICK n \in Name : io[p].todo = {n}
  BY DEF StoreInv, PutWellFormed, OpWellFormed
<1>2. Target(p) = <<io[p].dir, n>>
  BY <1>1, IdFacts, TargetOfOne
<1>3. io[p].dir \in Dirs
  BY DEF StoreInv, StoreTypeOK, Op
<1>. QED
  BY <1>2, <1>3 DEF Path

\* What a goroutine may read of a path is made of blocks and markers.
LEMMA ViewType ==
  ASSUME StoreInv, NEW x \in Path
  PROVE  View(x) \in SUBSET (Block \cup {NoDoc, Torn, NoFile})
<1>1. last[x] \in Block \cup {NoDoc}
  BY DEF StoreInv, StoreTypeOK, Block
<1>2. \A i \in DOMAIN files[x] : files[x][i] \in Block
  BY DEF StoreInv, StoreTypeOK
<1>3. \A p \in Writers(x) : io[p].doc \in Block \cup {NoDoc}
  BY DEF StoreInv, StoreTypeOK, Op, Writers, Block
<1>. QED
  BY <1>1, <1>2, <1>3 DEF View

LEMMA WatchType ==
  ASSUME StoreInv, NEW p \in Proc, NEW X, Watch(p, X)
  PROVE  seen' \in SeenType
BY ViewType DEF Watch, SeenType, StoreInv, StoreTypeOK

LEMMA DisturbType ==
  ASSUME StoreInv, NEW p \in Proc, NEW X, Disturb(p, X)
  PROVE  seen' \in SeenType
BY DEF Disturb, SeenType, StoreInv, StoreTypeOK

\* A step that changes no file and moves one goroutine that is not writing to
\* another operation that is not writing keeps the invariant.
LEMMA QuietStep ==
  ASSUME StoreInv, NEW p \in Proc, NEW o \in Op, OpWellFormed(o),
         io' = [io EXCEPT ![p] = o], io[p].pc # "write", o.pc # "write",
         dirs' \subseteq Dirs, UNCHANGED <<created, files, last, spoiled>>,
         seen' \in SeenType
  PROVE  StoreInv'
<1>1. io' \in [Proc -> Op]
  BY DEF StoreInv, StoreTypeOK
<1>2. \A q \in Proc : io'[q] = IF q = p THEN o ELSE io[q]
  BY DEF StoreInv, StoreTypeOK
<1>3. StoreTypeOK'
  BY <1>1, <1>2 DEF StoreInv, StoreTypeOK
<1>4. PutWellFormed'
  BY <1>2 DEF StoreInv, PutWellFormed
<1>5. \A x : Writers(x)' = Writers(x)
  <2>1. \A q \in Proc : q # p => Target(q)' = Target(q)
    BY <1>2 DEF Target, Current
  <2>. QED
    BY <1>2, <2>1 DEF Writers
<1>6. \A x : \A q \in Writers(x) : io'[q] = io[q]
  BY <1>2 DEF Writers
<1>7. PutAlone'
  BY <1>5, <1>6 DEF StoreInv, PutAlone
<1>8. Healthy'
  BY <1>5 DEF StoreInv, Healthy
<1>. QED
  BY <1>3, <1>4, <1>7, <1>8 DEF StoreInv

\* Starting an operation, or returning from a put that did not open its file.
LEMMA StartWriteStep ==
  ASSUME StoreInv, NEW p \in Proc, NEW x \in Path, NEW d \in Doc,
         StartWrite(p, x, d), io[p].pc # "write",
         UNCHANGED <<dirs, created, files, last, spoiled>>, seen' \in SeenType
  PROVE  StoreInv'
<1>. DEFINE o == [Idle EXCEPT !.pc = "mkdir", !.op = "put", !.dir = x[1],
                              !.todo = {x[2]}, !.doc = d]
<1>0. x[1] \in Dirs /\ x[2] \in Name
  BY DEF Path
<1>1. o \in Op
  BY <1>0, IdleType DEF Op
<1>3. OpWellFormed(o)
  BY <1>0, StoreAssumption DEF OpWellFormed, Idle
<1>4. io' = [io EXCEPT ![p] = o] /\ o.pc # "write"
  BY DEF StartWrite, Idle
<1>. QED
  BY <1>1, <1>3, <1>4, QuietStep DEF StoreInv, StoreTypeOK

LEMMA StartGetStep ==
  ASSUME StoreInv, NEW p \in Proc, NEW kind \in Dirs, NEW x \in Dirs \X (Name \cup {NoId}),
         StartGet(p, kind, x), io[p].pc # "write",
         UNCHANGED <<dirs, created, files, last, spoiled>>, seen' \in SeenType
  PROVE  StoreInv'
<1>. DEFINE o == [Idle EXCEPT !.pc = "read", !.op = "get", !.kind = kind, !.dir = x[1],
                              !.todo = {x[2]}]
<1>1. o \in Op
  BY IdleType DEF Op
<1>2. OpWellFormed(o)
  BY DEF OpWellFormed, Idle
<1>3. io' = [io EXCEPT ![p] = o] /\ o.pc # "write"
  BY DEF StartGet, Idle
<1>. QED
  BY <1>1, <1>2, <1>3, QuietStep DEF StoreInv, StoreTypeOK

LEMMA StartListStep ==
  ASSUME StoreInv, NEW p \in Proc, NEW dir \in Dirs,
         StartList(p, dir), io[p].pc # "write",
         UNCHANGED <<dirs, created, files, last, spoiled>>, seen' \in SeenType
  PROVE  StoreInv'
<1>. DEFINE o == [Idle EXCEPT !.pc = "readdir", !.op = "list", !.kind = dir, !.dir = dir]
<1>1. o \in Op
  BY IdleType DEF Op
<1>2. OpWellFormed(o)
  BY DEF OpWellFormed, Idle
<1>3. io' = [io EXCEPT ![p] = o] /\ o.pc # "write"
  BY DEF StartList, Idle
<1>. QED
  BY <1>1, <1>2, <1>3, QuietStep DEF StoreInv, StoreTypeOK

LEMMA PutReturnsType ==
  ASSUME NEW dir \in Dirs, NEW err \in BOOLEAN
  PROVE  LET o == [Idle EXCEPT !.pc = "done", !.op = "put", !.dir = dir, !.err = err]
         IN  o \in Op /\ OpWellFormed(o) /\ o.pc # "write"
<1>. DEFINE o == [Idle EXCEPT !.pc = "done", !.op = "put", !.dir = dir, !.err = err]
<1>1. o \in Op
  BY IdleType DEF Op
<1>2. OpWellFormed(o) /\ o.pc # "write"
  BY DEF Idle, OpWellFormed
<1>. QED
  BY <1>1, <1>2

LEMMA PutReturnsStep ==
  ASSUME StoreInv, NEW p \in Proc, NEW dir \in Dirs, NEW err \in BOOLEAN,
         PutReturns(p, dir, err), io[p].pc # "write",
         UNCHANGED <<dirs, created, files, last, spoiled>>, seen' \in SeenType
  PROVE  StoreInv'
BY PutReturnsType, QuietStep DEF PutReturns, StoreInv, StoreTypeOK

\* The four kinds of call.
AsksGet(p) ==
  \E kind \in Dirs, x \in Dirs \X (Name \cup {NoId}) :
    AskingToRead(p, {x}) /\ StartGet(p, kind, x)

AsksList(p) ==
  \E dir \in Dirs : AskingToRead(p, DirPaths(dir)) /\ StartList(p, dir)

AsksPut(p) ==
  /\ AskingToPut(p)
  /\ \E x \in Path, d \in Doc : StartWrite(p, x, d)

AsksBadPut(p) ==
  /\ AskingToPut(p)
  /\ \E dir \in Dirs : PutReturns(p, dir, TRUE)

\* Every call of a client is of one of them, with arguments of the right kind.
LEMMA CallKinds ==
  ASSUME NEW p \in Proc, Call(p)
  PROVE  AsksGet(p) \/ AsksList(p) \/ AsksPut(p) \/ AsksBadPut(p)
<1>1. Dirs = {"groups", "profiles", "ignition", "cloud", "generic"}
  BY DEF Dirs
<1>2. CASE CallGroupPut(p)
  <2>1. PICK g \in GroupIn : AskingToPut(p) /\ GroupAssertValid(g) /\ GroupPut(p, g)
    BY <1>2 DEF CallGroupPut
  <2>2. g \in Group /\ g.id \in Id
    BY <2>1, InputAssumption DEF Group, GroupAssertValid
  <2>3. CASE ToRichGroup(g) = Failed
    BY <1>1, <2>1, <2>3 DEF GroupPut, AsksBadPut
  <2>4. CASE ToRichGroup(g) # Failed
    <3>1. MarshalRichGroup(ToRichGroup(g)) \in Doc
      BY <2>2, <2>4, MarshalType DEF Doc
    <3>2. StartWrite(p, Place("groups", g.id), MarshalRichGroup(ToRichGroup(g)))
      BY <2>1, <2>4 DEF GroupPut
    <3>3. Place("groups", g.id) \in Path
      BY <1>1, <2>2, PlaceType
    <3>. QED
      BY <2>1, <3>1, <3>2, <3>3 DEF AsksPut
  <2>. QED
    BY <2>3, <2>4
<1>3. CASE CallProfilePut(p)
  <2>1. PICK f \in ProfileIn :
          AskingToPut(p) /\ ProfileAssertValid(f) /\ ProfilePut(p, f)
    BY <1>3 DEF CallProfilePut
  <2>2. f \in Doc /\ f.id \in Id
    BY <2>1, InputAssumption DEF Profile, ProfileAssertValid, Doc
  <2>3. Place("profiles", f.id) \in Path
    BY <1>1, <2>2, PlaceType
  <2>. QED
    BY <2>1, <2>2, <2>3 DEF ProfilePut, AsksPut
<1>4. CASE CallIgnitionPut(p) \/ CallCloudPut(p)
  <2>1. \A t \in TemplateIn : t[2] \in Id /\ t[3] \in Doc
    BY InputAssumption DEF Doc
  <2>2. \A t \in TemplateIn :
          Place("ignition", t[2]) \in Path /\ Place("cloud", t[2]) \in Path
    BY <1>1, <2>1, PlaceType
  <2>. QED
    BY <1>4, <2>1, <2>2 DEF CallIgnitionPut, IgnitionPut, CallCloudPut, CloudPut, AsksPut
<1>5. CASE CallGroupList(p) \/ CallProfileList(p)
  BY <1>1, <1>5 DEF CallGroupList, GroupList, CallProfileList, ProfileList, AsksList
<1>6. CASE \/ CallGroupGet(p) \/ CallProfileGet(p) \/ CallIgnitionGet(p) \/ CallCloudGet(p)
           \/ CallGenericGet(p)
  <2>1. PICK x \in GetIn :
          AskingToRead(p, {Place(x[1], x[2])}) /\ StartGet(p, x[1], Place(x[1], x[2]))
    BY <1>6 DEF CallGroupGet, GroupGet, CallProfileGet, ProfileGet, CallIgnitionGet,
                IgnitionGet, CallCloudGet, CloudGet, CallGenericGet, GenericGet
  <2>2. x[1] \in Dirs /\ x[2] \in Id \cup {NoId}
    BY InputAssumption
  <2>3. Place(x[1], x[2]) \in Dirs \X (Name \cup {NoId})
    BY <2>2, PlaceOfGet
  <2>. QED
    BY <2>1, <2>2, <2>3 DEF AsksGet
<1>. QED
  BY <1>2, <1>3, <1>4, <1>5, <1>6 DEF Call

LEMMA CallStep ==
  ASSUME StoreInv, NEW p \in Proc, Call(p)
  PROVE  StoreInv'
<1>1. ASSUME NEW X, AskingToRead(p, X)
      PROVE  /\ seen' \in SeenType /\ io[p].pc # "write"
             /\ UNCHANGED <<dirs, created, files, last, spoiled>>
  BY <1>1, WatchType DEF AskingToRead, Asking
<1>2. ASSUME AskingToPut(p)
      PROVE  /\ seen' \in SeenType /\ io[p].pc # "write"
             /\ UNCHANGED <<dirs, created, files, last, spoiled>>
  BY <1>2 DEF AskingToPut, Asking, StoreInv, StoreTypeOK
<1>3. CASE AsksGet(p)
  BY <1>1, <1>3, StartGetStep DEF AsksGet
<1>4. CASE AsksList(p)
  BY <1>1, <1>4, StartListStep DEF AsksList
<1>5. CASE AsksPut(p)
  BY <1>2, <1>5, StartWriteStep DEF AsksPut
<1>6. CASE AsksBadPut(p)
  BY <1>2, <1>6, PutReturnsStep DEF AsksBadPut
<1>. QED
  BY <1>3, <1>4, <1>5, <1>6, CallKinds

\* The steps of a put.
LEMMA MkdirAllStep ==
  ASSUME StoreInv, NEW p \in Proc, MkdirAll(p)
  PROVE  StoreInv'
<1>. DEFINE o == [io[p] EXCEPT !.pc = "open"]
<1>1. io[p] \in Op /\ OpWellFormed(io[p])
  BY DEF StoreInv, StoreTypeOK, PutWellFormed
<1>2. o \in Op
  BY <1>1 DEF Op
<1>3. OpWellFormed(o)
  BY <1>1 DEF MkdirAll, OpWellFormed, Op
<1>4. io' = [io EXCEPT ![p] = o] /\ o.pc # "write" /\ io[p].pc # "write"
  BY <1>1 DEF MkdirAll, StoreInv, StoreTypeOK, Op
<1>5. dirs' \subseteq Dirs
  BY <1>1 DEF MkdirAll, StoreInv, StoreTypeOK, Op
<1>. QED
  BY <1>2, <1>3, <1>4, <1>5, QuietStep DEF MkdirAll, StoreInv, StoreTypeOK

LEMMA OpenTruncStep ==
  ASSUME StoreInv, NEW p \in Proc, OpenTrunc(p)
  PROVE  StoreInv'
<1>. DEFINE o == [io[p] EXCEPT !.pc = "write"]
<1>1. io[p] \in Op /\ OpWellFormed(io[p]) /\ io[p].pc = "open"
  BY DEF StoreInv, StoreTypeOK, PutWellFormed, OpenTrunc
<1>2. PICK x \in Path : x = Target(p)
  BY <1>1, PutTarget
<1>3. o \in Op /\ OpWellFormed(o)
  BY <1>1 DEF OpWellFormed, Op
<1>4. io' = [io EXCEPT ![p] = o]
  BY <1>1 DEF OpenTrunc, StoreInv, StoreTypeOK, Op
<1>5. io' \in [Proc -> Op] /\ \A q \in Proc : io'[q] = IF q = p THEN o ELSE io[q]
  BY <1>3, <1>4 DEF StoreInv, StoreTypeOK
<1>6. files' = [files EXCEPT ![x] = <<>>] /\ files' \in [Path -> Seq(Block)]
  BY <1>2 DEF OpenTrunc, StoreInv, StoreTypeOK
<1>7. seen' \in SeenType
  <2>1. io[p].doc \in Block \cup {NoDoc}
    BY <1>1 DEF Op, Block
  <2>. QED
    BY <1>2, <2>1 DEF OpenTrunc, StoreInv, StoreTypeOK, SeenType
<1>8. StoreTypeOK'
  <2>1. /\ dirs' \subseteq Dirs /\ created' \subseteq Path /\ spoiled' \subseteq Path
        /\ last' = last
    BY <1>2 DEF OpenTrunc, StoreInv, StoreTypeOK
  <2>. QED
    BY <1>3, <1>5, <1>6, <1>7, <2>1 DEF StoreInv, StoreTypeOK
<1>9. PutWellFormed'
  BY <1>3, <1>5 DEF StoreInv, PutWellFormed
<1>10. o.pc = "write" /\ o.todo = io[p].todo /\ o.dir = io[p].dir
        /\ o.off = io[p].off /\ o.doc = io[p].doc
  BY <1>1 DEF Op
<1>. HIDE DEF o
<1>11. /\ \A y \in Path : y # x => Writers(y)' = Writers(y)
       /\ Writers(x)' = Writers(x) \cup {p}
  <2>1. \A q \in Proc : Target(q)' = Target(q)
    BY <1>5, <1>10 DEF Target, Current
  <2>. QED
    BY <1>1, <1>2, <1>5, <1>10, <2>1 DEF Writers
<1>12. PutAlone'
  <2>. SUFFICES ASSUME NEW y \in Path, y \notin spoiled'
                PROVE  /\ \A q, r \in Writers(y)' : q = r
                       /\ \A q \in Writers(y)' :
                            files'[y] = [i \in 1..io'[q].off |-> io'[q].doc]
    BY DEF PutAlone
  <2>1. CASE y = x
    <3>1. Writers(x) = {} /\ Writers(x)' = {p}
      BY <1>2, <1>11, <2>1 DEF OpenTrunc
    <3>2. io'[p].off = 0
      BY <1>1, <1>5, <1>10 DEF OpWellFormed
    <3>3. files'[x] = <<>>
      BY <1>2, <1>6 DEF StoreInv, StoreTypeOK
    <3>4. [i \in 1..0 |-> io'[p].doc] = <<>>
      OBVIOUS
    <3>5. files'[x] = [i \in 1..io'[p].off |-> io'[p].doc]
      BY <3>2, <3>3, <3>4
    <3>. QED
      BY <2>1, <3>1, <3>5
  <2>2. CASE y # x
    <3>1. y \notin spoiled /\ files'[y] = files[y] /\ Writers(y)' = Writers(y)
      BY <1>2, <1>11, <2>2 DEF OpenTrunc, StoreInv, StoreTypeOK
    <3>2. \A q \in Writers(y) : q # p /\ q \in Proc
      BY <1>1 DEF Writers
    <3>. QED
      BY <1>5, <3>1, <3>2 DEF StoreInv, PutAlone
  <2>. QED
    BY <2>1, <2>2
<1>13. Healthy'
  <2>. SUFFICES ASSUME NEW y \in created', y \notin spoiled', Writers(y)' = {}
                PROVE  files'[y] = Image(last'[y])
    BY DEF Healthy
  <2>1. y \in Path
    BY <1>2 DEF OpenTrunc, StoreInv, StoreTypeOK
  <2>2. y # x /\ y \in created /\ y \notin spoiled /\ Writers(y) = {}
    BY <1>2, <1>11, <2>1 DEF OpenTrunc
  <2>3. files'[y] = files[y] /\ last' = last
    BY <1>2, <2>1, <2>2 DEF OpenTrunc, StoreInv, StoreTypeOK
  <2>. QED
    BY <2>2, <2>3 DEF StoreInv, Healthy
<1>. QED
  BY <1>8, <1>9, <1>12, <1>13 DEF StoreInv


LEMMA WriteBlocksStep ==
  ASSUME StoreInv, NEW p \in Proc, WriteBlocks(p)
  PROVE  StoreInv'
<1>1. io[p] \in Op /\ OpWellFormed(io[p]) /\ io[p].pc = "write"
  BY DEF StoreInv, StoreTypeOK, PutWellFormed, WriteBlocks
<1>2. PICK x \in Path : x = Target(p)
  BY <1>1, PutTarget
<1>3. PICK d \in Doc : d = io[p].doc
  BY <1>1, <1>2, PutTarget DEF OpWellFormed
<1>4. PICK lo \in Nat : lo = io[p].off
  BY <1>1 DEF Op
<1>5. d \in Doc /\ Size(d) \in Nat
  BY StoreAssumption
<1>6. PICK k \in (lo + 1)..Size(d) :
        /\ files' = [files EXCEPT ![x] = Overlay(files[x], lo, k, d)]
        /\ io' = [io EXCEPT ![p].off = k]
  BY <1>2, <1>3, <1>4 DEF WriteBlocks
<1>. DEFINE o == [io[p] EXCEPT !.off = k]
<1>7. o \in Op /\ OpWellFormed(o)
  BY <1>1, <1>3, <1>4, <1>5, <1>6, SMTT(30) DEF OpWellFormed, Op
<1>8. io' \in [Proc -> Op] /\ \A q \in Proc : io'[q] = IF q = p THEN o ELSE io[q]
  BY <1>6, <1>7 DEF StoreInv, StoreTypeOK
<1>9. o.pc = "write" /\ o.todo = io[p].todo /\ o.dir = io[p].dir
        /\ o.off = k /\ o.doc = d
  BY <1>1, <1>3 DEF Op
<1>. HIDE DEF o
<1>10. UNCHANGED <<dirs, created, last, spoiled, seen>>
  BY DEF WriteBlocks
<1>11. files' \in [Path -> Seq(Block)]
       /\ \A y \in Path : files'[y] = IF y = x THEN Overlay(files[x], lo, k, d) ELSE files[y]
  <2>1. files[x] \in Seq(Block) /\ d \in Block /\ Hole \in Block /\ k \in Nat
    BY <1>4, <1>5, <1>6 DEF Block, StoreInv, StoreTypeOK
  <2>2. Overlay(files[x], lo, k, d) \in Seq(Block)
    BY <1>4, <2>1, OverlayType
  <2>. QED
    BY <1>6, <2>2 DEF StoreInv, StoreTypeOK
<1>13. StoreTypeOK'
  BY <1>7, <1>8, <1>10, <1>11 DEF StoreInv, StoreTypeOK
<1>14. PutWellFormed'
  BY <1>7, <1>8 DEF StoreInv, PutWellFormed
<1>15. \A y \in Path : Writers(y)' = Writers(y)
  <2>1. \A q \in Proc : Target(q)' = Target(q)
    BY <1>8, <1>9 DEF Target, Current
  <2>. QED
    BY <1>1, <1>8, <1>9, <2>1 DEF Writers
<1>16. PutAlone'
  <2>. SUFFICES ASSUME NEW y \in Path, y \notin spoiled
                PROVE  /\ \A q, r \in Writers(y)' : q = r
                       /\ \A q \in Writers(y)' :
                            files'[y] = [i \in 1..io'[q].off |-> io'[q].doc]
    BY <1>10 DEF PutAlone
  <2>1. \A q, r \in Writers(y) : q = r
    BY DEF StoreInv, PutAlone
  <2>2. CASE y = x
    <3>1. p \in Writers(y)
      BY <1>1, <1>2, <2>2 DEF Writers
    <3>2. files[x] = [i \in 1..lo |-> d]
      BY <1>3, <1>4, <2>2, <3>1 DEF StoreInv, PutAlone
    <3>3. files'[x] = [i \in 1..k |-> d]
      <4>1. k \in Nat /\ lo < k
        BY <1>4, <1>5, <1>6
      <4>2. Overlay(files[x], lo, k, d) = [i \in 1..k |-> d]
        BY <1>4, <3>2, <4>1, OverlayPrefix
      <4>. QED
        BY <1>11, <4>2
    <3>. QED
      BY <1>8, <1>9, <1>15, <2>1, <2>2, <3>1, <3>3
  <2>3. CASE y # x
    <3>1. \A q \in Writers(y) : q # p /\ q \in Proc
      BY <1>2, <2>3 DEF Writers
    <3>2. \A q \in Writers(y) : files[y] = [i \in 1..io[q].off |-> io[q].doc]
      BY DEF StoreInv, PutAlone
    <3>3. files'[y] = files[y] /\ \A q \in Writers(y) : io'[q] = io[q]
      BY <1>8, <1>11, <2>3, <3>1
    <3>. QED
      BY <1>15, <2>1, <3>2, <3>3
  <2>. QED
    BY <2>2, <2>3
<1>17. Healthy'
  <2>. SUFFICES ASSUME NEW y \in created \ spoiled, Writers(y)' = {}
                PROVE  files'[y] = Image(last[y])
    BY <1>10 DEF Healthy
  <2>1. y \in Path
    BY DEF StoreInv, StoreTypeOK
  <2>2. y # x
    BY <1>1, <1>2, <1>15, <2>1 DEF Writers
  <2>. QED
    BY <1>11, <1>15, <2>1, <2>2 DEF StoreInv, Healthy
<1>. QED
  BY <1>13, <1>14, <1>16, <1>17 DEF StoreInv

\* A put that leaves its file, acknowledged or not.
LEMMA LeaveFile ==
  ASSUME StoreInv, NEW p \in Proc, NEW dir \in Dirs, NEW err \in BOOLEAN,
         PutReturns(p, dir, err), io[p].pc = "write", NEW x \in Path, x = Target(p)
  PROVE  /\ io' \in [Proc -> Op]
         /\ \A q \in Proc : OpWellFormed(io'[q])
         /\ \A q \in Proc \ {p} : io'[q] = io[q]
         /\ Writers(x)' = Writers(x) \ {p}
         /\ \A y \in Path : y # x => Writers(y)' = Writers(y)
         /\ \A y \in Path : \A q \in Writers(y)' : q \in Proc \ {p}
<1>1. PICK o \in Op : io' = [io EXCEPT ![p] = o] /\ OpWellFormed(o)
                      /\ o.pc # "write"
  BY PutReturnsType DEF PutReturns
<1>2. io' \in [Proc -> Op] /\ \A q \in Proc : io'[q] = IF q = p THEN o ELSE io[q]
  BY <1>1 DEF StoreInv, StoreTypeOK
<1>3. \A q \in Proc \ {p} : Target(q)' = Target(q)
  BY <1>2 DEF Target, Current
<1>4. \A q \in Proc : OpWellFormed(io'[q])
  BY <1>1, <1>2 DEF StoreInv, StoreTypeOK, PutWellFormed
<1>. QED
  BY <1>1, <1>2, <1>3, <1>4 DEF Writers

LEMMA CloseFileStep ==
  ASSUME StoreInv, NEW p \in Proc, CloseFile(p)
  PROVE  StoreInv'
<1>1. io[p] \in Op /\ OpWellFormed(io[p]) /\ io[p].pc = "write"
  BY DEF StoreInv, StoreTypeOK, PutWellFormed, CloseFile
<1>2. PICK x \in Path : x = Target(p)
  BY <1>1, PutTarget
<1>3. PICK d \in Doc : d = io[p].doc
  BY <1>1, <1>2, PutTarget DEF OpWellFormed
<1>4. io[p].dir \in Dirs
  BY <1>1 DEF Op
<1>5. /\ io' \in [Proc -> Op]
      /\ \A q \in Proc : OpWellFormed(io'[q])
      /\ \A q \in Proc \ {p} : io'[q] = io[q]
      /\ Writers(x)' = Writers(x) \ {p}
      /\ \A y \in Path : y # x => Writers(y)' = Writers(y)
      /\ \A y \in Path : \A q \in Writers(y)' : q \in Proc \ {p}
  BY <1>1, <1>2, <1>4, LeaveFile DEF CloseFile
<1>6. /\ UNCHANGED <<dirs, created, files, spoiled, seen>>
      /\ last' = [last EXCEPT ![x] = d] /\ io[p].off = Size(d)
  BY <1>2, <1>3 DEF CloseFile
<1>7. StoreTypeOK'
  BY <1>3, <1>5, <1>6 DEF StoreInv, StoreTypeOK
<1>8. PutWellFormed'
  BY <1>5 DEF PutWellFormed
<1>9. PutAlone'
  <2>. SUFFICES ASSUME NEW y \in Path, y \notin spoiled
                PROVE  /\ \A q, r \in Writers(y)' : q = r
                       /\ \A q \in Writers(y)' :
                            files[y] = [i \in 1..io'[q].off |-> io'[q].doc]
    BY <1>6 DEF PutAlone
  <2>1. \A q \in Writers(y)' : q \in Writers(y) /\ io'[q] = io[q]
    BY <1>5
  <2>. QED
    BY <2>1 DEF StoreInv, PutAlone
<1>10. Healthy'
  <2>. SUFFICES ASSUME NEW y \in created \ spoiled, Writers(y)' = {}
                PROVE  files[y] = Image(last'[y])
    BY <1>6 DEF Healthy
  <2>1. y \in Path
    BY DEF StoreInv, StoreTypeOK
  <2>2. CASE y = x
    <3>1. p \in Writers(y)
      BY <1>1, <1>2, <2>2 DEF Writers
    <3>2. files[x] = [i \in 1..Size(d) |-> d]
      BY <1>3, <1>6, <2>1, <2>2, <3>1 DEF StoreInv, PutAlone
    <3>3. last'[x] = d
      BY <1>6 DEF StoreInv, StoreTypeOK
    <3>. QED
      BY <2>2, <3>2, <3>3 DEF Image
  <2>3. CASE y # x
    <3>1. last'[y] = last[y] /\ Writers(y) = {}
      BY <1>5, <1>6, <2>1, <2>3 DEF StoreInv, StoreTypeOK
    <3>. QED
      BY <3>1 DEF StoreInv, Healthy
  <2>. QED
    BY <2>2, <2>3
<1>. QED
  BY <1>7, <1>8, <1>9, <1>10 DEF StoreInv

LEMMA WriteErrorStep ==
  ASSUME StoreInv, NEW p \in Proc, WriteError(p)
  PROVE  StoreInv'
<1>1. io[p] \in Op /\ io[p].dir \in Dirs /\ seen' \in SeenType
      /\ UNCHANGED <<dirs, created, files, last, seen>>
  BY DEF StoreInv, StoreTypeOK, WriteError, Op
<1>2. CASE io[p].pc # "write"
  BY <1>1, <1>2, PutReturnsStep DEF WriteError
<1>3. CASE io[p].pc = "write"
  <2>1. PICK x \in Path : x = Target(p)
    BY <1>3, PutTarget
  <2>2. /\ io' \in [Proc -> Op]
        /\ \A q \in Proc : OpWellFormed(io'[q])
        /\ \A q \in Proc \ {p} : io'[q] = io[q]
        /\ Writers(x)' = Writers(x) \ {p}
        /\ \A y \in Path : y # x => Writers(y)' = Writers(y)
        /\ \A y \in Path : \A q \in Writers(y)' : q \in Proc \ {p}
    BY <1>1, <1>3, <2>1, LeaveFile DEF WriteError
  <2>3. spoiled' = spoiled \cup {x}
    BY <1>3, <2>1 DEF WriteError
  <2>4. StoreTypeOK'
    BY <1>1, <2>2, <2>3 DEF StoreInv, StoreTypeOK
  <2>5. PutWellFormed'
    BY <2>2 DEF PutWellFormed
  <2>6. PutAlone'
    <3>. SUFFICES ASSUME NEW y \in Path, y \notin spoiled, y # x
                  PROVE  /\ \A q, r \in Writers(y)' : q = r
                         /\ \A q \in Writers(y)' :
                              files[y] = [i \in 1..io'[q].off |-> io'[q].doc]
      BY <1>1, <2>3 DEF PutAlone
    <3>1. \A q \in Writers(y)' : q \in Writers(y) /\ io'[q] = io[q]
      BY <2>2
    <3>. QED
      BY <3>1 DEF StoreInv, PutAlone
  <2>7. Healthy'
    <3>. SUFFICES ASSUME NEW y \in created \ spoiled, y # x, Writers(y)' = {}
                  PROVE  files[y] = Image(last[y])
      BY <1>1, <2>3 DEF Healthy
    <3>1. y \in Path
      BY DEF StoreInv, StoreTypeOK
    <3>. QED
      BY <2>2, <3>1 DEF StoreInv, Healthy
  <2>. QED
    BY <2>4, <2>5, <2>6, <2>7 DEF StoreInv
<1>. QED
  BY <1>2, <1>3

\* The steps of a get and of a list.
LEMMA ReadDirStep ==
  ASSUME StoreInv, NEW p \in Proc, ReadDir(p)
  PROVE  StoreInv'
<1>. DEFINE o == IF io[p].dir \in dirs
                 THEN [io[p] EXCEPT !.pc = "read",
                                    !.todo = {n \in Name : <<io[p].dir, n>> \in created}]
                 ELSE [io[p] EXCEPT !.pc = "done", !.err = TRUE]
<1>1. io[p] \in Op /\ io[p].pc = "readdir"
  BY DEF StoreInv, StoreTypeOK, ReadDir
<1>2. o \in Op /\ o.pc \in {"read", "done"}
  BY <1>1 DEF Op
<1>3. OpWellFormed(o)
  BY <1>2 DEF OpWellFormed
<1>4. io' = [io EXCEPT ![p] = o]
  BY DEF ReadDir, StoreInv, StoreTypeOK
<1>. HIDE DEF o
<1>. QED
  BY <1>1, <1>2, <1>3, <1>4, QuietStep DEF ReadDir, StoreInv, StoreTypeOK

LEMMA ReadBlocksStep ==
  ASSUME StoreInv, NEW p \in Proc, ReadBlocks(p)
  PROVE  StoreInv'
<1>1. io[p] \in Op /\ io[p].pc = "read"
  BY DEF StoreInv, StoreTypeOK, ReadBlocks
<1>2. PICK x \in Path : x = Target(p)
  BY DEF ReadBlocks, StoreInv, StoreTypeOK
<1>4. PICK k \in (Len(io[p].buf) + 1)..Len(files[x]) :
        io' = [io EXCEPT ![p].buf = @ \o SubSeq(files[x], Len(@) + 1, k)]
  BY <1>2 DEF ReadBlocks
<1>. DEFINE new == io[p].buf \o SubSeq(files[x], Len(io[p].buf) + 1, k)
            o == [io[p] EXCEPT !.buf = new]
<1>5. files[x] \in Seq(Block) /\ io[p].buf \in Seq(Block)
  BY <1>1 DEF StoreInv, StoreTypeOK, Op
<1>7. new \in Seq(Block)
  BY <1>4, <1>5
<1>. HIDE DEF new
<1>8. o \in Op /\ o.pc = "read" /\ o.buf = new /\ o.dir = io[p].dir /\ o.doc = io[p].doc
  BY <1>1, <1>7 DEF Op
<1>9. io' = [io EXCEPT ![p] = o]
  BY <1>4 DEF StoreInv, StoreTypeOK, new
<1>. HIDE DEF o
<1>10. OpWellFormed(o)
  BY <1>8 DEF OpWellFormed
<1>. QED
  BY <1>1, <1>8, <1>9, <1>10, QuietStep DEF ReadBlocks, StoreInv, StoreTypeOK

LEMMA FileReadStep ==
  ASSUME StoreInv, NEW p \in Proc, io[p].pc = "read", NEW r \in Result \cup {Failed},
         FileRead(p, r), UNCHANGED <<dirs, created, files, last, spoiled>>,
         seen' \in SeenType
  PROVE  StoreInv'
<1>. DEFINE inList == io[p].op = "list"
            pc == IF inList THEN "read" ELSE "done"
            todo == IF inList THEN io[p].todo \ {Current(p)} ELSE io[p].todo
            got == IF r = Failed THEN io[p].got ELSE Append(io[p].got, r)
            err == ~inList /\ r = Failed
            o == [io[p] EXCEPT !.pc = pc, !.todo = todo, !.buf = <<>>,
                               !.got = got, !.err = err]
<1>1. io[p] \in Op
  BY DEF StoreInv, StoreTypeOK
<1>2. /\ pc \in {"read", "done"} /\ todo \in SUBSET (Name \cup {NoId})
      /\ got \in Seq(Result) /\ err \in BOOLEAN
  BY <1>1 DEF Op
<1>3. io' = [io EXCEPT ![p] = o]
  BY DEF FileRead, StoreInv, StoreTypeOK
<1>. HIDE DEF pc, todo, got, err
<1>4. o.pc = pc /\ o.buf = <<>> /\ o.dir = io[p].dir /\ o.doc = io[p].doc
  BY <1>1 DEF Op
<1>. o \in Op
  <2>1. <<>> \in Seq(Block)
    OBVIOUS
  <2>. QED
    BY <1>1, <1>2, <2>1 DEF Op
<1>. HIDE DEF o
<1>5. OpWellFormed(o)
  BY <1>1, <1>2, <1>4 DEF OpWellFormed
<1>. QED
  BY <1>2, <1>3, <1>4, <1>5, QuietStep DEF StoreInv, StoreTypeOK

LEMMA ReadStep ==
  ASSUME StoreInv, NEW p \in Proc, ReadEOF(p) \/ ReadMissing(p) \/ ReadError(p)
  PROVE  StoreInv'
<1>1. seen' \in SeenType
  BY DisturbType DEF ReadEOF, ReadMissing, ReadError, StoreInv, StoreTypeOK
<1>2. UNCHANGED <<dirs, created, files, last, spoiled>> /\ io[p].pc = "read"
  BY DEF ReadEOF, ReadMissing, ReadError
<1>3. CASE ReadEOF(p)
  <2>1. io[p].buf \in Seq(Block)
    BY DEF StoreInv, StoreTypeOK, Op
  <2>2. PICK r \in Parse(io[p].kind, io[p].buf) : FileRead(p, r)
    BY <1>3 DEF ReadEOF
  <2>3. r \in Result \cup {Failed}
    BY <2>1, ParseType
  <2>. QED
    BY <1>1, <1>2, <2>2, <2>3, FileReadStep
<1>4. CASE ReadMissing(p) \/ ReadError(p)
  BY <1>1, <1>2, <1>4, FileReadStep DEF ReadMissing, ReadError
<1>. QED
  BY <1>3, <1>4

LEMMA ListStep ==
  ASSUME StoreInv, NEW p \in Proc, ReadDirError(p) \/ ListDone(p)
  PROVE  StoreInv'
<1>1. io[p] \in Op /\ io[p].pc # "write"
  BY DEF StoreInv, StoreTypeOK, ReadDirError, ListDone
<1>2. seen' \in SeenType /\ UNCHANGED <<dirs, created, files, last, spoiled>>
  BY DisturbType DEF ReadDirError, ListDone, StoreInv, StoreTypeOK
<1>3. PICK e \in BOOLEAN : io' = [io EXCEPT ![p] = [@ EXCEPT !.pc = "done", !.err = e]]
  <2>1. CASE ReadDirError(p)
    BY <2>1 DEF ReadDirError, StoreInv, StoreTypeOK
  <2>2. CASE ListDone(p)
    <3>1. [io[p] EXCEPT !.pc = "done", !.err = io[p].err] = [io[p] EXCEPT !.pc = "done"]
      BY <1>1 DEF Op
    <3>. QED
      BY <1>1, <2>2, <3>1 DEF ListDone, StoreInv, StoreTypeOK, Op
  <2>. QED
    BY <2>1, <2>2
<1>. DEFINE o == [io[p] EXCEPT !.pc = "done", !.err = e]
<1>4. o \in Op /\ o.pc = "done" /\ io' = [io EXCEPT ![p] = o]
  BY <1>1, <1>3 DEF Op
<1>. HIDE DEF o
<1>5. OpWellFormed(o)
  BY <1>4 DEF OpWellFormed
<1>. QED
  BY <1>1, <1>2, <1>4, <1>5, QuietStep DEF StoreInv, StoreTypeOK

LEMMA ReturnStep ==
  ASSUME StoreInv, NEW p \in Proc, Return(p)
  PROVE  StoreInv'
<1>1. seen' \in SeenType
  BY DEF Return, SeenType, StoreInv, StoreTypeOK
<1>2. Idle.pc = "idle"
  BY DEF Idle
<1>. QED
  BY <1>1, <1>2, IdleType, QuietStep DEF Return, StoreInv, StoreTypeOK

\* A crash spoils every path that was being written.
LEMMA CrashStep ==
  ASSUME StoreInv, Crash
  PROVE  StoreInv'
<1>1. io' \in [Proc -> Op] /\ \A p \in Proc : io'[p] = Idle
  BY IdleType DEF Crash
<1>2. seen' \in SeenType
  BY DEF Crash, SeenType
<1>3. /\ UNCHANGED <<dirs, created, files, last>> /\ spoiled' \subseteq Path
      /\ \A x \in Path \ spoiled' : x \notin spoiled /\ Writers(x) = {}
  BY DEF Crash, StoreInv, StoreTypeOK
<1>4. StoreTypeOK'
  BY <1>1, <1>2, <1>3, IdleType DEF StoreInv, StoreTypeOK
<1>5. PutWellFormed'
  BY <1>1, IdleType DEF PutWellFormed
<1>6. \A x \in Path : Writers(x)' = {}
  BY <1>1 DEF Writers, Idle
<1>7. PutAlone'
  BY <1>6 DEF PutAlone
<1>8. Healthy'
  BY <1>3 DEF StoreInv, StoreTypeOK, Healthy
<1>. QED
  BY <1>4, <1>5, <1>7, <1>8 DEF StoreInv

\* Files laid out by hand are whole documents.
LEMMA InitInv == StoreInit => StoreInv
<1>. SUFFICES ASSUME StoreInit PROVE StoreInv
  OBVIOUS
<1>1. PICK t \in Tree :
        /\ created = DOMAIN t
        /\ files = [x \in Path |-> IF x \in DOMAIN t THEN Image(t[x]) ELSE <<>>]
        /\ last = [x \in Path |-> IF x \in DOMAIN t THEN t[x] ELSE NoDoc]
        /\ dirs \in {Dirs, {x[1] : x \in DOMAIN t}}
  BY DEF StoreInit
<1>2. io = [p \in Proc |-> Idle] /\ spoiled = {}
      /\ seen = [p \in Proc |-> [x \in Path |-> {}]]
  BY DEF StoreInit
<1>3. created \subseteq Path /\ \A x \in created : t[x] \in Doc
  BY <1>1, InputAssumption
<1>4. dirs \subseteq Dirs
  BY <1>1, <1>3 DEF Path
<1>5. \A x \in Path : files[x] \in Seq(Block)
  BY <1>1, <1>3, ImageType
<1>6. files \in [Path -> Seq(Block)]
  BY <1>1, <1>5
<1>7. last \in [Path -> Doc \cup {NoDoc}]
  BY <1>1, <1>3
<1>8. StoreTypeOK
  BY <1>2, <1>3, <1>4, <1>5, <1>6, <1>7, IdleType DEF StoreTypeOK, SeenType
<1>9. PutWellFormed
  BY <1>2, IdleType DEF PutWellFormed
<1>10. \A x \in Path : Writers(x) = {}
  BY <1>2 DEF Writers, Idle
<1>11. PutAlone
  BY <1>10 DEF PutAlone
<1>12. Healthy
  BY <1>1, <1>3 DEF Healthy
<1>. QED
  BY <1>8, <1>9, <1>11, <1>12 DEF StoreInv

\* Every step keeps the invariant.
LEMMA NextInv == StoreInv /\ [StoreNext]_storeVars => StoreInv'
<1>. SUFFICES ASSUME StoreInv, [StoreNext]_storeVars PROVE StoreInv'
  OBVIOUS
<1>1. CASE UNCHANGED storeVars
  <2>. USE <1>1 DEF storeVars
  <2>1. \A x : Writers(x)' = Writers(x)
    BY DEF Writers, Target, Current
  <2>2. StoreTypeOK' /\ PutWellFormed'
    BY DEF StoreInv, StoreTypeOK, PutWellFormed
  <2>3. PutAlone' /\ Healthy'
    BY <2>1 DEF StoreInv, PutAlone, Healthy
  <2>. QED
    BY <2>2, <2>3 DEF StoreInv
<1>2. ASSUME NEW p \in Proc, SysCall(p) PROVE StoreInv'
  BY <1>2, MkdirAllStep, OpenTruncStep, WriteBlocksStep, CloseFileStep, ReadDirStep,
     ReadBlocksStep, ReadStep, ListStep DEF SysCall
<1>3. ASSUME NEW p \in Proc, SysFault(p) PROVE StoreInv'
  BY <1>3, WriteErrorStep, ReadStep, ListStep DEF SysFault
<1>. QED
  BY <1>1, <1>2, <1>3, CallStep, ReturnStep, CrashStep DEF StoreNext

-----------------------------------------------------------------------------
(***************************************************************************)
(* Theorems                                                                *)
(***************************************************************************)

THEOREM Invariance == StoreSpec => []StoreInv
BY InitInv, NextInv, PTL DEF StoreSpec

\* Whatever ids are put and whatever requests interleave, fail or crash, every
\* file that filestore.go creates is a path of the store made of blocks of
\* documents, and reads return groups, profiles and bytes.
THEOREM StoreTypeCorrect == StoreSpec => []StoreTypeOK
<1>1. StoreInv => StoreTypeOK
  BY DEF StoreInv
<1>. QED
  BY <1>1, Invariance, PTL

\* ioutil.WriteFile, as long as no second put of the same path overlaps it,
\* only ever shows a prefix of its own document.
THEOREM PutAloneCorrect == StoreSpec => []PutAlone
<1>1. StoreInv => PutAlone
  BY DEF StoreInv
<1>. QED
  BY <1>1, Invariance, PTL

\* Between puts that did not overlap, fail or crash, a file is exactly the
\* document last acknowledged.
THEOREM HealthyCorrect == StoreSpec => []Healthy
<1>1. StoreInv => Healthy
  BY DEF StoreInv
<1>. QED
  BY <1>1, Invariance, PTL

=============================================================================
