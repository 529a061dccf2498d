------------------------------ MODULE ReadProofs ------------------------------
(***************************************************************************)
(* Proofs about the gets and lists of FileStore: what they return was in   *)
(* the file since the caller asked, and a file that is left alone is read  *)
(* for what it is.  The invariant behind both follows a reader from the    *)
(* directory listing over its buffer to its results, and relates each to   *)
(* what the path has held meanwhile.                                       *)
(***************************************************************************)
EXTENDS FileStoreProofs

-----------------------------------------------------------------------------
(***************************************************************************)
(* The invariant                                                           *)
(***************************************************************************)

\* The directory of a file exists, so a list never misses it.
FilesHaveDirs ==
  /\ \A x \in created : x[1] \in dirs
  /\ \A p \in Proc : io[p].pc \in {"open", "write"} => io[p].dir \in dirs

\* A path that does not exist was never put, and nobody is writing it.
Absent ==
  \A x \in Path \ created : Writers(x) = {} /\ last[x] = NoDoc

\* A file that no put is writing or has spoiled was acknowledged or laid out.
Settled ==
  \A x \in created \ spoiled : Writers(x) = {} => last[x] \in Doc

\* Whatever a path may be found to hold now, its readers have seen.
SeenCurrent ==
  \A p \in Proc, x \in Path :
    seen[p][x] # {} => View(x) \ {Hole, NoDoc} \subseteq seen[p][x]

\* The form of an operation on its way.
OpShape(o) ==
  /\ o.pc = "idle" => o = Idle
  /\ o.pc \in {"mkdir", "open", "write"} => o.op = "put"
  /\ o.pc = "readdir" => o.op = "list" /\ o.buf = <<>>
  /\ o.pc = "read" => o.op \in {"get", "list"}
  /\ o.op = "list" => o.todo \subseteq Name
  /\ o.op = "get" => \E n \in Name \cup {NoId} : o.todo = {n}
  /\ o.op = "get" /\ o.pc = "read" => o.got = <<>>

\* The paths that operation o is about.
Asks(o, x) == x[1] = o.dir /\ (o.op = "get" => o.todo = {x[2]})

IsReading(o) == o.pc \in {"readdir", "read", "done"} /\ o.op \in {"get", "list"}

\* A reader watches every path it asks for.
Watches(o, s) == IsReading(o) => \A x \in Path : Asks(o, x) => s[x] # {}

\* The bytes read so far were in the file since the reader asked, and as long
\* as nobody writes the file they are its first bytes.
BufferOK(o, x, s, c) ==
  /\ \A i \in 1..Len(o.buf) : o.buf[i] \in s[x] \cup {Hole}
  /\ Torn \notin s[x] =>
       Len(o.buf) <= Len(c) /\ \A i \in 1..Len(o.buf) : o.buf[i] = c[i]

Buffered(p) ==
  io[p].pc = "read" /\ io[p].todo # {} /\ Target(p) \in Path =>
    BufferOK(io[p], Target(p), seen[p], files[Target(p)])

\* Every result so far is a document that a path asked for has held, or one
\* that its blocks make together.
Returns(o, s) ==
  IsReading(o) /\ o.kind \in {"groups", "profiles"} =>
    \A i \in 1..Len(o.got) :
      \E x \in Path : /\ Asks(o, x)
                      /\ \E d \in Found(s[x]) : o.got[i] = ParseDoc(o.kind, d)

\* What is known of path x after a read in which it was not disturbed.
Faithful(o, x, s) ==
  Asks(o, x) /\ IsReading(o) =>
    /\ s[x] = {NoFile} /\ o.op = "get" /\ o.pc = "done" => o.err
    /\ \A d \in Doc : s[x] = {d} =>
         /\ o.op = "list" /\ (o.pc = "done" \/ (o.pc = "read" /\ x[2] \notin o.todo))
              => \/ ParseDoc(o.kind, d) = Failed
                 \/ \E i \in 1..Len(o.got) : o.got[i] = ParseDoc(o.kind, d)
         /\ o.op = "get" /\ o.pc = "done"
              => /\ o.err = (ParseDoc(o.kind, d) = Failed)
                 /\ ParseDoc(o.kind, d) # Failed => o.got = <<ParseDoc(o.kind, d)>>

ReaderInv(p) ==
  /\ OpShape(io[p])
  /\ Watches(io[p], seen[p])
  /\ Buffered(p)
  /\ Returns(io[p], seen[p])
  /\ \A x \in Path : Faithful(io[p], x, seen[p])

TreeInv == FilesHaveDirs /\ Absent /\ Settled /\ SeenCurrent

ReadInv == TreeInv /\ \A p \in Proc : ReaderInv(p)

-----------------------------------------------------------------------------
(***************************************************************************)
(* Targets and views                                                       *)
(***************************************************************************)

\* The signs are no documents and differ from each other.
LEMMA Signs ==
  /\ Hole \notin Doc /\ NoDoc \notin Doc /\ Torn \notin Doc /\ NoFile \notin Doc
  /\ Hole # NoDoc /\ Hole # Torn /\ Hole # NoFile
  /\ NoDoc # Torn /\ NoDoc # NoFile /\ Torn # NoFile
BY StoreAssumption

\* An operation works on one of the names it has left.
LEMMA CurrentLeft ==
  ASSUME NEW p, io[p].todo \subseteq Nat, io[p].todo # {}
  PROVE  Current(p) \in io[p].todo
<1>1. \E n \in io[p].todo : \A m \in io[p].todo : n <= m
  BY LeastOf
<1>. QED
  BY <1>1 DEF Current

\* The path a get or a list works on is one that it asks for.
LEMMA AsksTarget ==
  ASSUME NEW p \in Proc, io[p] \in Op, OpShape(io[p]), IsReading(io[p]), io[p].todo # {}
  PROVE  /\ Asks(io[p], Target(p))
         /\ Target(p) = <<io[p].dir, Current(p)>>
         /\ Current(p) \in io[p].todo
         /\ io[p].op = "list" => Target(p) \in Path
<1>1. io[p].todo \subseteq Nat
  BY IdFacts DEF Op
<1>2. Current(p) \in io[p].todo
  BY <1>1, CurrentLeft
<1>3. io[p].op = "get" => io[p].todo = {Current(p)}
  BY <1>2 DEF OpShape
<1>. QED
  BY <1>2, <1>3 DEF Asks, Target, Path, OpShape, Op

\* A get asks for its target only.
LEMMA GetAsks ==
  ASSUME NEW p \in Proc, io[p] \in Op, OpShape(io[p]), io[p].op = "get", NEW x \in Path
  PROVE  Asks(io[p], x) <=> x = Target(p)
<1>1. PICK n \in Name \cup {NoId} : io[p].todo = {n}
  BY DEF OpShape
<1>2. Target(p) = <<io[p].dir, n>>
  BY <1>1, IdFacts, TargetOfOne
<1>3. x = <<x[1], x[2]>>
  BY DEF Path
<1>. QED
  BY <1>1, <1>2, <1>3 DEF Asks

\* What is known of the view of a path from the state of its file.
LEMMA ViewFacts ==
  ASSUME StoreInv, Settled, NEW x \in Path
  PROVE  /\ View(x) \ {Hole, NoDoc} # {}
         /\ x \notin created => View(x) = {NoFile}
         /\ x \in created /\ Torn \notin View(x)
              => /\ x \notin spoiled /\ Writers(x) = {}
                 /\ last[x] \in Doc /\ last[x] \in View(x)
                 /\ files[x] = Image(last[x])
         /\ x \in created => \A i \in 1..Len(files[x]) : files[x][i] \in View(x)
         /\ NoFile \in View(x) => x \notin created
<1>1. x \notin created => View(x) = {NoFile}
  BY DEF View
<1>2. ASSUME x \in created, Torn \notin View(x)
      PROVE  /\ x \notin spoiled /\ Writers(x) = {}
             /\ last[x] \in Doc /\ last[x] \in View(x)
             /\ files[x] = Image(last[x])
  <2>1. x \notin spoiled /\ Writers(x) = {} /\ last[x] \in View(x)
    BY <1>2 DEF View
  <2>. QED
    BY <1>2, <2>1 DEF StoreInv, Healthy, Settled
<1>3. x \in created => \A i \in 1..Len(files[x]) : files[x][i] \in View(x)
  <2>1. files[x] \in Seq(Block)
    BY DEF StoreInv, StoreTypeOK
  <2>2. DOMAIN files[x] = 1..Len(files[x])
    BY <2>1
  <2>. QED
    BY <2>2 DEF View
<1>4. NoFile \in View(x) => x \notin created
  <2>. SUFFICES ASSUME x \in created PROVE NoFile \notin View(x)
    OBVIOUS
  <2>1. last[x] \in Doc \cup {NoDoc}
    BY DEF StoreInv, StoreTypeOK
  <2>2. \A i \in DOMAIN files[x] : files[x][i] \in Doc \cup {Hole}
    BY DEF StoreInv, StoreTypeOK, Block
  <2>3. \A p \in Writers(x) : io[p].doc \in Doc \cup {NoDoc}
    BY DEF StoreInv, StoreTypeOK, Op, Writers
  <2>. QED
    BY <2>1, <2>2, <2>3, Signs DEF View
<1>5. View(x) \ {Hole, NoDoc} # {}
  BY <1>1, <1>2, Signs
<1>. QED
  BY <1>1, <1>2, <1>3, <1>4, <1>5

\* A watched path of which only a document was seen is that document; one of
\* which only its absence was seen is absent.
LEMMA QuietPath ==
  ASSUME StoreInv, TreeInv, NEW p \in Proc, NEW x \in Path
  PROVE  /\ \A d \in Doc :
              seen[p][x] = {d} => x \in created /\ files[x] = Image(d)
         /\ seen[p][x] = {NoFile} => x \notin created
<1>1. seen[p][x] # {} => View(x) \ {Hole, NoDoc} \subseteq seen[p][x]
  BY DEF TreeInv, SeenCurrent
<1>2. ASSUME NEW d \in Doc, seen[p][x] = {d}
      PROVE  x \in created /\ files[x] = Image(d)
  <2>1. Torn \notin View(x) /\ NoFile \notin View(x)
    BY <1>1, <1>2, Signs
  <2>2. x \in created
    BY <2>1, ViewFacts DEF TreeInv
  <2>3. last[x] \in View(x) /\ last[x] \in Doc /\ files[x] = Image(last[x])
    BY <2>1, <2>2, ViewFacts DEF TreeInv
  <2>. QED
    BY <1>1, <1>2, <2>2, <2>3, Signs
<1>3. ASSUME seen[p][x] = {NoFile}, x \in created PROVE FALSE
  <2>1. Torn \notin View(x)
    BY <1>1, <1>3, Signs
  <2>2. last[x] \in View(x) /\ last[x] \in Doc
    BY <1>3, <2>1, ViewFacts DEF TreeInv
  <2>. QED
    BY <1>1, <1>3, <2>2, Signs
<1>. QED
  BY <1>2, <1>3

\* Found documents are documents, and more of them are found in more.
LEMMA FoundMonotone ==
  ASSUME NEW S, NEW T, S \subseteq T
  PROVE  Found(S) \subseteq Doc /\ Found(S) \subseteq Found(T)
<1>1. S \cap Doc \subseteq T \cap Doc
  OBVIOUS
<1>2. Mixture(S \cap Doc) \subseteq Doc /\ Mixture(S \cap Doc) \subseteq Mixture(T \cap Doc)
  BY <1>1, MixtureType
<1>. QED
  BY <1>1, <1>2 DEF Found

\* The bytes of a document are the whole of it, unless it is empty.
LEMMA WholeImage ==
  ASSUME NEW d \in Doc
  PROVE  /\ Size(d) # 0 => Whole(Image(d)) /\ Image(d)[1] = d
         /\ Size(d) = 0 => ~Whole(Image(d)) /\ Decodings(Image(d)) = {}
<1>1. Size(d) \in Nat /\ d # Hole
  BY StoreAssumption, Signs
<1>2. ASSUME Size(d) # 0 PROVE Whole(Image(d)) /\ Image(d)[1] = d
  <2>1. Image(d) # <<>> /\ Image(d)[1] = d
    BY <1>1, <1>2, ImageType
  <2>. QED
    BY <1>1, <2>1 DEF Whole
<1>3. ASSUME Size(d) = 0 PROVE ~Whole(Image(d)) /\ Decodings(Image(d)) = {}
  <2>1. Image(d) = <<>>
    BY <1>3 DEF Image
  <2>2. ~Whole(<<>>)
    BY DEF Whole
  <2>3. {<<>>[i] : i \in DOMAIN <<>>} = {}
    OBVIOUS
  <2>. QED
    BY <2>1, <2>2, <2>3, MixtureOfOne DEF Decodings
<1>. QED
  BY <1>2, <1>3

\* The bytes of a document parse to what the document does; an empty one is
\* no JSON.
LEMMA ParseImage ==
  ASSUME NEW kind, NEW d \in Doc
  PROVE  Parse(kind, Image(d)) = {ParseDoc(kind, d)}
<1>1. CASE kind \notin {"groups", "profiles"}
  BY <1>1 DEF Parse, ParseDoc
<1>2. CASE kind \in {"groups", "profiles"} /\ Size(d) # 0
  <2>1. Whole(Image(d)) /\ Image(d)[1] = d
    BY <1>2, WholeImage
  <2>2. Decodings(Image(d)) = {d}
    BY <2>1 DEF Decodings
  <2>. QED
    BY <1>2, <2>1, <2>2 DEF Parse
<1>3. CASE kind \in {"groups", "profiles"} /\ Size(d) = 0
  <2>1. d \notin RichGroup \cup Profile \cup OtherJSON
    BY <1>3, StoreAssumption
  <2>2. ParseGroup(d) = Failed /\ ParseProfile(d) = Failed
    BY <2>1 DEF ParseGroup, UnmarshalRichGroup, ParseProfile, UnmarshalProfile
  <2>3. ParseDoc(kind, d) = Failed
    BY <1>3, <2>2 DEF ParseDoc
  <2>4. ~Whole(Image(d)) /\ Decodings(Image(d)) = {}
    BY <1>3, WholeImage
  <2>. QED
    BY <1>3, <2>3, <2>4 DEF Parse
<1>. QED
  BY <1>1, <1>2, <1>3

\* Whatever a get makes of bytes, they are a document that parses to it, or
\* blocks of documents that make one together.
LEMMA ParseFromBuffer ==
  ASSUME NEW kind \in {"groups", "profiles"}, NEW c \in Seq(Block),
         NEW r \in Parse(kind, c), r # Failed, NEW S,
         \A i \in 1..Len(c) : c[i] \in S \cup {Hole}
  PROVE  \E d \in Doc :
           /\ r = ParseDoc(kind, d)
           /\ d \in S \/ (~Whole(c) /\ c # <<>> /\ d \in Mixture(S \cap Doc))
<1>1. PICK d \in Decodings(c) : r = ParseDoc(kind, d)
  BY DEF Parse
<1>2. d \in Doc
  BY DecodingsType
<1>3. CASE Whole(c)
  <2>1. d = c[1] /\ c # <<>> /\ c[1] # Hole
    BY <1>3 DEF Decodings, Whole
  <2>2. 1 \in 1..Len(c)
    BY <2>1
  <2>. QED
    BY <1>1, <1>2, <2>1, <2>2
<1>4. CASE ~Whole(c)
  <2>. DEFINE D == {c[i] : i \in DOMAIN c}
  <2>1. Hole \notin D /\ d \in Mixture(D)
    BY <1>4 DEF Decodings
  <2>2. DOMAIN c = 1..Len(c) /\ \A i \in 1..Len(c) : c[i] \in Doc \cup {Hole}
    BY DEF Block
  <2>3. D \subseteq S \cap Doc
    BY <2>1, <2>2
  <2>4. c # <<>>
    <3>. SUFFICES ASSUME c = <<>> PROVE FALSE
      OBVIOUS
    <3>1. D = {}
      OBVIOUS
    <3>. QED
      BY <2>1, <3>1, MixtureOfOne
  <2>. HIDE DEF D
  <2>5. Mixture(D) \subseteq Mixture(S \cap Doc)
    BY <2>3, MixtureType
  <2>. QED
    BY <1>1, <1>2, <1>4, <2>1, <2>4, <2>5
<1>. QED
  BY <1>3, <1>4

-----------------------------------------------------------------------------
(***************************************************************************)
(* What the steps of a put do to files, writers and readers                *)
(***************************************************************************)

\* What OpenTrunc(p) of path x for document d does.
Opens(p, x, d) ==
  /\ x = Target(p) /\ x[1] = io[p].dir /\ d = io[p].doc
  /\ io[p].pc = "open"
  /\ dirs' = dirs /\ created' = created \cup {x} /\ last' = last
  /\ \A y \in Path : files'[y] = IF y = x THEN <<>> ELSE files[y]
  /\ \A q \in Proc : io'[q] = IF q = p THEN [io[p] EXCEPT !.pc = "write"] ELSE io[q]
  /\ \A y \in Path : Writers(y)' = IF y = x THEN Writers(x) \cup {p} ELSE Writers(y)
  /\ \A y \in Path : y \in spoiled' <=> IF y = x THEN Writers(x) # {} ELSE y \in spoiled
  /\ \A q \in Proc, y \in Path :
       seen'[q][y] = IF y = x /\ seen[q][x] # {} THEN seen[q][x] \cup {Torn, d}
                     ELSE seen[q][y]

LEMMA OpenEffect ==
  ASSUME StoreInv, NEW p \in Proc, OpenTrunc(p)
  PROVE  \E x \in Path, d \in Doc : Opens(p, x, d)
<1>1. io[p] \in Op /\ OpWellFormed(io[p]) /\ io[p].pc = "open"
  BY DEF StoreInv, StoreTypeOK, PutWellFormed, OpenTrunc
<1>2. PICK x \in Path : x = Target(p) /\ x[1] = io[p].dir
  BY <1>1, PutTarget DEF Target
<1>3. PICK d \in Doc : d = io[p].doc
  BY <1>1, <1>2 DEF OpWellFormed
<1>4. dirs' = dirs /\ created' = created \cup {x} /\ last' = last
  BY <1>2 DEF OpenTrunc
<1>5. \A y \in Path : files'[y] = IF y = x THEN <<>> ELSE files[y]
  BY <1>2 DEF OpenTrunc, StoreInv, StoreTypeOK
<1>. DEFINE o == [io[p] EXCEPT !.pc = "write"]
<1>6. \A q \in Proc : io'[q] = IF q = p THEN o ELSE io[q]
  BY DEF OpenTrunc, StoreInv, StoreTypeOK
<1>7. o.pc = "write" /\ o.todo = io[p].todo /\ o.dir = io[p].dir
  BY <1>1 DEF Op
<1>. HIDE DEF o
<1>8. \A y \in Path : Writers(y)' = IF y = x THEN Writers(x) \cup {p} ELSE Writers(y)
  <2>1. \A q \in Proc : Target(q)' = Target(q)
    BY <1>6, <1>7 DEF Target, Current
  <2>. QED
    BY <1>1, <1>2, <1>6, <1>7, <2>1 DEF Writers
<1>9. \A y \in Path : y \in spoiled' <=> IF y = x THEN Writers(x) # {} ELSE y \in spoiled
  BY <1>2 DEF OpenTrunc
<1>10. \A q \in Proc, y \in Path :
         seen'[q][y] = IF y = x /\ seen[q][x] # {} THEN seen[q][x] \cup {Torn, d}
                       ELSE seen[q][y]
  BY <1>2, <1>3 DEF OpenTrunc, StoreInv, StoreTypeOK, SeenType
<1>11. Opens(p, x, d)
  BY <1>1, <1>2, <1>3, <1>4, <1>5, <1>6, <1>8, <1>9, <1>10 DEF o, Opens
<1>. QED
  BY <1>2, <1>3, <1>11

\* What WriteBlocks(p) to path x up to block k of document d does.
Writes(p, x, d, k) ==
  /\ x = Target(p) /\ d = io[p].doc
  /\ io[p].pc = "write" /\ p \in Writers(x)
  /\ UNCHANGED <<dirs, created, last, spoiled, seen>>
  /\ \A y \in Path : y # x => files'[y] = files[y]
  /\ files'[x] \in Seq(Block)
  /\ \A i \in 1..Len(files'[x]) :
       \/ files'[x][i] \in {d, Hole}
       \/ \E j \in 1..Len(files[x]) : files'[x][i] = files[x][j]
  /\ \A q \in Proc : io'[q] = IF q = p THEN [io[p] EXCEPT !.off = k] ELSE io[q]
  /\ \A y \in Path : Writers(y)' = Writers(y)

LEMMA WriteEffect ==
  ASSUME StoreInv, NEW p \in Proc, WriteBlocks(p)
  PROVE  \E x \in Path, d \in Doc, k \in Nat : Writes(p, x, d, k)
<1>1. io[p] \in Op /\ OpWellFormed(io[p]) /\ io[p].pc = "write"
  BY DEF StoreInv, StoreTypeOK, PutWellFormed, WriteBlocks
<1>2. PICK x \in Path : x = Target(p) /\ x[1] = io[p].dir
  BY <1>1, PutTarget DEF Target
<1>3. PICK d \in Doc : d = io[p].doc
  BY <1>1, <1>2 DEF OpWellFormed
<1>4. PICK lo \in Nat : lo = io[p].off
  BY <1>1 DEF Op
<1>5. d \in Doc /\ Size(d) \in Nat
  BY StoreAssumption
<1>6. PICK k \in (lo + 1)..Size(d) :
        /\ files' = [files EXCEPT ![x] = Overlay(files[x], lo, k, d)]
        /\ io' = [io EXCEPT ![p].off = k]
  BY <1>2, <1>3, <1>4 DEF WriteBlocks
<1>7. k \in Nat
  BY <1>4, <1>5, <1>6
<1>8. files[x] \in Seq(Block) /\ d \in Block /\ Hole \in Block
  BY <1>5 DEF Block, StoreInv, StoreTypeOK
<1>9. /\ \A y \in Path : y # x => files'[y] = files[y]
      /\ files'[x] = Overlay(files[x], lo, k, d)
  BY <1>6 DEF StoreInv, StoreTypeOK
<1>10. files'[x] \in Seq(Block)
  BY <1>4, <1>7, <1>8, <1>9, OverlayType
<1>11. \A i \in 1..Len(files'[x]) :
         \/ files'[x][i] \in {d, Hole}
         \/ \E j \in 1..Len(files[x]) : files'[x][i] = files[x][j]
  <2>. DEFINE c == files[x]
              n == IF k > Len(c) THEN k ELSE Len(c)
              b == [i \in 1..n |->
                      IF lo < i /\ i <= k THEN d ELSE IF i <= Len(c) THEN c[i] ELSE Hole]
  <2>1. files'[x] = b
    BY <1>9 DEF Overlay
  <2>2. c \in Seq(Block) /\ Len(c) \in Nat /\ n \in Nat
    BY <1>7, <1>8
  <2>. HIDE DEF c, n
  <2>3. Len(b) = n
    BY <2>2
  <2>4. \A i \in 1..n : b[i] \in {d, Hole} \/ \E j \in 1..Len(c) : b[i] = c[j]
    BY <2>2
  <2>. QED
    BY <2>1, <2>3, <2>4 DEF c
<1>. DEFINE o == [io[p] EXCEPT !.off = k]
<1>12. \A q \in Proc : io'[q] = IF q = p THEN o ELSE io[q]
  BY <1>6 DEF StoreInv, StoreTypeOK
<1>13. o.pc = "write" /\ o.todo = io[p].todo /\ o.dir = io[p].dir
  BY <1>1 DEF Op
<1>. HIDE DEF o
<1>14. \A y \in Path : Writers(y)' = Writers(y)
  <2>1. \A q \in Proc : Target(q)' = Target(q)
    BY <1>12, <1>13 DEF Target, Current
  <2>. QED
    BY <1>1, <1>12, <1>13, <2>1 DEF Writers
<1>15. p \in Writers(x)
  BY <1>1, <1>2 DEF Writers
<1>16. UNCHANGED <<dirs, created, last, spoiled, seen>>
  BY DEF WriteBlocks
<1>17. Writes(p, x, d, k)
  BY <1>1, <1>2, <1>3, <1>9, <1>10, <1>11, <1>12, <1>14, <1>15, <1>16 DEF o, Writes
<1>. QED
  BY <1>2, <1>5, <1>7, <1>17

\* What the return of the put of p from its open file x does.
Closes(p, x, d, err) ==
  /\ x = Target(p) /\ d = io[p].doc
  /\ io[p].pc = "write" /\ p \in Writers(x)
  /\ UNCHANGED <<dirs, created, files, seen>>
  /\ \A y \in Path : last'[y] = IF y = x /\ ~err THEN d ELSE last[y]
  /\ \A y \in Path : y \in spoiled' <=> (y \in spoiled \/ (y = x /\ err))
  /\ ~err => io[p].off = Size(d)
  /\ \A q \in Proc :
       io'[q] = IF q = p THEN [Idle EXCEPT !.pc = "done", !.op = "put",
                                           !.dir = io[p].dir, !.err = err]
                ELSE io[q]
  /\ \A y \in Path : Writers(y)' = IF y = x THEN Writers(x) \ {p} ELSE Writers(y)

LEMMA CloseEffect ==
  ASSUME StoreInv, NEW p \in Proc, CloseFile(p) \/ (WriteError(p) /\ io[p].pc = "write")
  PROVE  \E x \in Path, d \in Doc, err \in BOOLEAN :
           Closes(p, x, d, err) /\ (err <=> ~CloseFile(p))
<1>1. io[p] \in Op /\ OpWellFormed(io[p]) /\ io[p].pc = "write"
  BY DEF StoreInv, StoreTypeOK, PutWellFormed, CloseFile
<1>2. PICK x \in Path : x = Target(p) /\ x[1] = io[p].dir
  BY <1>1, PutTarget DEF Target
<1>3. PICK d \in Doc : d = io[p].doc
  BY <1>1, <1>2 DEF OpWellFormed
<1>4. PICK err \in BOOLEAN : PutReturns(p, io[p].dir, err) /\ (err <=> ~CloseFile(p))
  <2>1. CASE CloseFile(p)
    BY <2>1 DEF CloseFile
  <2>2. CASE ~CloseFile(p)
    BY <2>2 DEF WriteError
  <2>. QED
    BY <2>1, <2>2
<1>5. io[p].dir \in Dirs
  BY <1>1 DEF Op
<1>6. /\ Writers(x)' = Writers(x) \ {p}
      /\ \A y \in Path : y # x => Writers(y)' = Writers(y)
  BY <1>1, <1>2, <1>4, <1>5, LeaveFile
<1>7. \A q \in Proc :
        io'[q] = IF q = p THEN [Idle EXCEPT !.pc = "done", !.op = "put",
                                            !.dir = io[p].dir, !.err = err]
                 ELSE io[q]
  BY <1>4 DEF PutReturns, StoreInv, StoreTypeOK
<1>8. /\ UNCHANGED <<dirs, created, files, seen>>
      /\ \A y \in Path : last'[y] = IF y = x /\ ~err THEN d ELSE last[y]
      /\ \A y \in Path : y \in spoiled' <=> (y \in spoiled \/ (y = x /\ err))
      /\ ~err => io[p].off = Size(d)
  <2>1. CASE CloseFile(p)
    BY <1>2, <1>3, <1>4, <2>1 DEF CloseFile, StoreInv, StoreTypeOK
  <2>2. CASE ~CloseFile(p)
    BY <1>1, <1>2, <1>4, <2>2 DEF WriteError
  <2>. QED
    BY <2>1, <2>2
<1>9. p \in Writers(x)
  BY <1>1, <1>2 DEF Writers
<1>10. Closes(p, x, d, err)
  BY <1>1, <1>2, <1>3, <1>6, <1>7, <1>8, <1>9 DEF Closes
<1>. QED
  BY <1>4, <1>10

-----------------------------------------------------------------------------
(***************************************************************************)
(* Steps and the tree                                                      *)
(***************************************************************************)

\* A step that changes no file and moves one goroutine that is not writing to
\* another operation that is not writing changes no view.
LEMMA QuietViews ==
  ASSUME StoreInv, NEW p \in Proc, NEW o, io' = [io EXCEPT ![p] = o],
         io[p].pc # "write", o.pc # "write",
         UNCHANGED <<created, files, last, spoiled>>
  PROVE  /\ \A q \in Proc : io'[q] = IF q = p THEN o ELSE io[q]
         /\ \A x : Writers(x)' = Writers(x)
         /\ \A x : View(x)' = View(x)
<1>1. \A q \in Proc : io'[q] = IF q = p THEN o ELSE io[q]
  BY DEF StoreInv, StoreTypeOK
<1>2. \A x : Writers(x)' = Writers(x)
  <2>1. \A q \in Proc : q # p => Target(q)' = Target(q)
    BY <1>1 DEF Target, Current
  <2>. QED
    BY <1>1, <2>1 DEF Writers
<1>3. \A x : \A q \in Writers(x) : io'[q] = io[q]
  BY <1>1 DEF Writers
<1>4. ASSUME NEW x PROVE View(x)' = View(x)
  <2>1. {io'[q].doc : q \in Writers(x)'} = {io[q].doc : q \in Writers(x)}
    BY <1>2, <1>3
  <2>. QED
    BY <1>2, <2>1 DEF View
<1>. QED
  BY <1>1, <1>2, <1>4

\* Such a step keeps the tree's invariant when what it lets a goroutine see
\* is a view, or at least what that goroutine had seen before.
LEMMA QuietTree ==
  ASSUME StoreInv, TreeInv, NEW p \in Proc, NEW o, io' = [io EXCEPT ![p] = o],
         io[p].pc # "write", o.pc # "write",
         UNCHANGED <<created, files, last, spoiled>>, dirs \subseteq dirs',
         o.pc = "open" => o.dir \in dirs',
         \A q \in Proc, x \in Path :
           \/ seen'[q][x] = {}
           \/ seen'[q][x] = View(x)
           \/ seen[q][x] # {} /\ seen[q][x] \subseteq seen'[q][x]
  PROVE  TreeInv'
<1>1. /\ \A q \in Proc : io'[q] = IF q = p THEN o ELSE io[q]
      /\ \A x : Writers(x)' = Writers(x)
      /\ \A x : View(x)' = View(x)
  BY QuietViews
<1>2. FilesHaveDirs'
  BY <1>1 DEF TreeInv, FilesHaveDirs
<1>3. Settled' /\ Absent'
  BY <1>1 DEF TreeInv, Settled, Absent
<1>4. SeenCurrent'
  BY <1>1 DEF TreeInv, SeenCurrent
<1>. QED
  BY <1>2, <1>3, <1>4 DEF TreeInv

\* A path that a step does not touch keeps its view.
LEMMA SameView ==
  ASSUME NEW y, Writers(y)' = Writers(y), files'[y] = files[y], last'[y] = last[y],
         y \in spoiled' <=> y \in spoiled, y \in created' <=> y \in created,
         \A r \in Writers(y) : io'[r].doc = io[r].doc
  PROVE  View(y)' = View(y)
<1>1. {io'[r].doc : r \in Writers(y)'} = {io[r].doc : r \in Writers(y)}
  OBVIOUS
<1>. QED
  BY <1>1 DEF View

\* A document that is being written is part of the view.
LEMMA WriterView ==
  ASSUME StoreInv, TreeInv, NEW x \in Path, NEW r \in Writers(x)
  PROVE  x \in created /\ io[r].doc \in Doc /\ io[r].doc \in View(x) /\ Torn \in View(x)
<1>1. r \in Proc /\ io[r].pc = "write"
  BY DEF Writers
<1>2. io[r].doc \in Doc
  BY <1>1 DEF StoreInv, PutWellFormed, OpWellFormed
<1>3. x \in created
  BY DEF TreeInv, Absent
<1>. QED
  BY <1>2, <1>3 DEF View

LEMMA OpenTree ==
  ASSUME StoreInv, TreeInv, NEW p \in Proc, OpenTrunc(p)
  PROVE  TreeInv'
<1>1. PICK x \in Path, d \in Doc : Opens(p, x, d)
  BY OpenEffect
<1>2. io[p] \in Op /\ created \subseteq Path
  BY DEF StoreInv, StoreTypeOK
<1>3. io'[p].dir = io[p].dir /\ io'[p].doc = d
  BY <1>1, <1>2 DEF Op, Opens
<1>4. FilesHaveDirs'
  BY <1>1, <1>3 DEF TreeInv, FilesHaveDirs, Opens
<1>5. Settled' /\ Absent'
  BY <1>1, <1>2 DEF TreeInv, Settled, Absent, Opens
<1>6. ASSUME NEW q \in Proc, NEW y \in Path, seen'[q][y] # {}
      PROVE  View(y)' \ {Hole, NoDoc} \subseteq seen'[q][y]
  <2>1. seen[q][y] # {} /\ View(y) \ {Hole, NoDoc} \subseteq seen[q][y]
    BY <1>1, <1>6, ZenonT(30) DEF TreeInv, SeenCurrent, Opens
  <2>2. CASE y # x
    <3>1. \A r \in Writers(y) : io'[r].doc = io[r].doc
      BY <1>1, <2>2 DEF Writers, Opens
    <3>2. View(y)' = View(y)
      BY <1>1, <2>2, <3>1, SameView DEF Opens
    <3>. QED
      BY <1>1, <2>1, <2>2, <3>2 DEF Opens
  <2>3. CASE y = x
    <3>1. View(x)' = {last[x]} \cup {io'[r].doc : r \in Writers(x) \cup {p}} \cup {Torn}
      <4>1. {files'[x][i] : i \in DOMAIN files'[x]} = {}
        BY <1>1 DEF Opens
      <4>. QED
        BY <1>1, <4>1 DEF View, Opens
    <3>2. seen'[q][x] = seen[q][x] \cup {Torn, d}
      BY <1>1, <2>1, <2>3 DEF Opens
    <3>3. ASSUME NEW r \in Writers(x) \cup {p} PROVE io'[r].doc \in seen'[q][x]
      <4>1. CASE r = p
        BY <1>3, <3>2, <4>1
      <4>2. CASE r # p
        <5>1. r \in Writers(x) /\ io'[r] = io[r]
          BY <1>1, <4>2 DEF Writers, Opens
        <5>2. io[r].doc \in View(x) \ {Hole, NoDoc}
          BY <5>1, WriterView, Signs
        <5>. QED
          BY <2>1, <2>3, <3>2, <5>1, <5>2
      <4>. QED
        BY <4>1, <4>2
    <3>4. last[x] \in seen[q][x] \cup {NoDoc, Hole}
      <4>1. CASE x \in created
        BY <2>1, <2>3, <4>1 DEF View
      <4>2. CASE x \notin created
        BY <4>2 DEF TreeInv, Absent
      <4>. QED
        BY <4>1, <4>2
    <3>. QED
      BY <2>3, <3>1, <3>2, <3>3, <3>4
  <2>. QED
    BY <2>2, <2>3
<1>7. SeenCurrent'
  BY <1>6 DEF SeenCurrent
<1>. QED
  BY <1>4, <1>5, <1>7 DEF TreeInv

\* No path gains anything new to see while a put writes or returns.
LEMMA WriteTree ==
  ASSUME StoreInv, TreeInv, NEW p \in Proc, WriteBlocks(p)
  PROVE  TreeInv' /\ \A y \in Path : View(y)' \subseteq View(y) \cup {Hole}
<1>1. PICK x \in Path, d \in Doc, k \in Nat : Writes(p, x, d, k)
  BY WriteEffect
<1>2. io[p] \in Op /\ files \in [Path -> Seq(Block)]
  BY DEF StoreInv, StoreTypeOK
<1>3. io'[p].dir = io[p].dir /\ io'[p].doc = io[p].doc /\ io'[p].pc = io[p].pc
  BY <1>1, <1>2 DEF Op, Writes
<1>4. \A r \in Proc : io'[r].doc = io[r].doc /\ io'[r].pc = io[r].pc /\ io'[r].dir = io[r].dir
  BY <1>1, <1>3 DEF Writes
<1>5. FilesHaveDirs'
  BY <1>1, <1>4 DEF TreeInv, FilesHaveDirs, Writes
<1>6. Settled' /\ Absent'
  BY <1>1 DEF StoreInv, StoreTypeOK, TreeInv, Settled, Absent, Writes
<1>7. ASSUME NEW y \in Path PROVE View(y)' \subseteq View(y) \cup {Hole}
  <2>1. \A r \in Writers(y) : io'[r].doc = io[r].doc
    BY <1>4 DEF Writers
  <2>2. CASE y # x
    <3>1. View(y)' = View(y)
      BY <1>1, <2>1, <2>2, SameView DEF Writes
    <3>. QED
      BY <3>1
  <2>3. CASE y = x
    <3>1. x \in created /\ d \in View(x) /\ Torn \in View(x)
      BY <1>1, WriterView DEF Writes
    <3>2. \A i \in 1..Len(files[x]) : files[x][i] \in View(x)
      BY <3>1, ViewFacts DEF TreeInv
    <3>3. files'[x] \in Seq(Block) /\ \A i \in 1..Len(files'[x]) : files'[x][i] \in View(x) \cup {Hole}
      BY <1>1, <3>1, <3>2 DEF Writes
    <3>4. \A i \in DOMAIN files'[x] : files'[x][i] \in View(x) \cup {Hole}
      BY <3>3
    <3>5. \A r \in Writers(x)' : io'[r].doc \in View(x)
      BY <1>1, <2>1, <2>3, <3>1 DEF View, Writes
    <3>6. last'[x] \in View(x) /\ created' = created
      BY <1>1, <3>1 DEF View, Writes
    <3>. QED
      BY <2>3, <3>1, <3>4, <3>5, <3>6 DEF View
  <2>. QED
    BY <2>2, <2>3
<1>8. SeenCurrent'
  BY <1>1, <1>7 DEF TreeInv, SeenCurrent, Writes
<1>. QED
  BY <1>5, <1>6, <1>7, <1>8 DEF TreeInv

LEMMA CloseTree ==
  ASSUME StoreInv, TreeInv, NEW p \in Proc,
         CloseFile(p) \/ (WriteError(p) /\ io[p].pc = "write")
  PROVE  TreeInv' /\ \A y \in Path : View(y)' \subseteq View(y)
<1>1. PICK x \in Path, d \in Doc, err \in BOOLEAN : Closes(p, x, d, err)
  BY CloseEffect
<1>2. x \in created /\ d \in View(x) /\ Torn \in View(x)
  BY <1>1, WriterView DEF Closes
<1>3. io'[p].pc = "done"
  BY <1>1 DEF Idle, Closes
<1>4. FilesHaveDirs'
  BY <1>1, <1>3 DEF TreeInv, FilesHaveDirs, Closes
<1>5. Settled' /\ Absent'
  BY <1>1, <1>2 DEF StoreInv, StoreTypeOK, TreeInv, Settled, Absent, Closes
<1>6. ASSUME NEW y \in Path PROVE View(y)' \subseteq View(y)
  <2>1. \A r \in Writers(y)' : r \in Writers(y) /\ r # p /\ io'[r] = io[r]
    BY <1>1, <1>3 DEF Writers, Closes
  <2>2. CASE y # x
    <3>1. View(y)' = View(y)
      BY <1>1, <2>1, <2>2, SameView DEF Closes
    <3>. QED
      BY <3>1
  <2>3. CASE y = x
    <3>1. \A r \in Writers(x)' : io'[r].doc \in View(x)
      BY <1>2, <2>1, <2>3 DEF View
    <3>2. last'[x] \in View(x)
      BY <1>1, <1>2 DEF View, Closes
    <3>3. \A i \in DOMAIN files'[x] : files'[x][i] \in View(x)
      BY <1>1, <1>2 DEF View, Closes
    <3>. QED
      BY <1>1, <1>2, <2>3, <3>1, <3>2, <3>3 DEF View, Closes
  <2>. QED
    BY <2>2, <2>3
<1>7. SeenCurrent'
  BY <1>1, <1>6 DEF TreeInv, SeenCurrent, Closes
<1>. QED
  BY <1>4, <1>5, <1>6, <1>7 DEF TreeInv

LEMMA CrashTree ==
  ASSUME StoreInv, TreeInv, Crash
  PROVE  TreeInv'
<1>1. \A p \in Proc : io'[p] = Idle /\ \A x \in Path : seen'[p][x] = {}
  BY DEF Crash
<1>2. \A x \in Path : Writers(x)' = {}
  BY <1>1 DEF Writers, Idle
<1>3. FilesHaveDirs' /\ SeenCurrent'
  BY <1>1 DEF Crash, TreeInv, FilesHaveDirs, SeenCurrent, Idle
<1>4. Settled' /\ Absent'
  BY <1>2 DEF Crash, StoreInv, StoreTypeOK, TreeInv, Settled, Absent
<1>. QED
  BY <1>3, <1>4 DEF TreeInv

-----------------------------------------------------------------------------
(***************************************************************************)
(* Steps and their readers                                                 *)
(***************************************************************************)

\* A goroutine keeps its invariant through the steps of others: whatever they
\* change of a file that it watches, it sees.
LEMMA Untouched ==
  ASSUME StoreInv, NEW p \in Proc, ReaderInv(p), io'[p] = io[p],
         \A x \in Path :
           \/ seen'[p][x] = seen[p][x]
           \/ seen[p][x] # {} /\ seen[p][x] \subseteq seen'[p][x] /\ Torn \in seen'[p][x],
         \A x \in Path :
           seen[p][x] # {} /\ Torn \notin seen'[p][x] => files'[x] = files[x]
  PROVE  ReaderInv(p)'
<1>1. io[p] \in Op
  BY DEF StoreInv, StoreTypeOK
<1>2. OpShape(io'[p]) /\ Watches(io'[p], seen'[p])
  BY DEF ReaderInv, Watches
<1>3. Returns(io'[p], seen'[p])
  <2>1. \A x \in Path : Found(seen[p][x]) \subseteq Found(seen'[p][x])
    BY FoundMonotone
  <2>. QED
    BY <2>1 DEF ReaderInv, Returns
<1>4. \A x \in Path : Faithful(io'[p], x, seen'[p])
  BY Signs DEF ReaderInv, Faithful
<1>5. Target(p)' = Target(p)
  BY DEF Target, Current
<1>6. Buffered(p)'
  <2>. SUFFICES ASSUME io[p].pc = "read", io[p].todo # {}, Target(p) \in Path
                PROVE  BufferOK(io[p], Target(p), seen'[p], files'[Target(p)])
    BY <1>5 DEF Buffered
  <2>1. BufferOK(io[p], Target(p), seen[p], files[Target(p)])
    BY DEF ReaderInv, Buffered
  <2>2. IsReading(io[p]) /\ Asks(io[p], Target(p))
    BY <1>1, AsksTarget DEF ReaderInv, OpShape, IsReading
  <2>3. seen[p][Target(p)] # {}
    BY <2>2 DEF ReaderInv, Watches
  <2>. QED
    BY <2>1, <2>3 DEF BufferOK
<1>. QED
  BY <1>2, <1>3, <1>4, <1>6 DEF ReaderInv

\* An operation that is not a read has nothing to show for itself.
LEMMA NotReading ==
  ASSUME NEW p \in Proc, OpShape(io'[p]), ~IsReading(io'[p])
  PROVE  ReaderInv(p)'
BY DEF ReaderInv, OpShape, IsReading, Watches, Buffered, Returns, Faithful

\* A get or a list that starts, watching all that it asks for.
LEMMA FreshReader ==
  ASSUME NEW p \in Proc, OpShape(io'[p]), IsReading(io'[p]), Watches(io'[p], seen'[p]),
         io'[p].pc # "done", io'[p].buf = <<>>, io'[p].got = <<>>,
         io'[p].op = "list" => io'[p].pc = "readdir"
  PROVE  ReaderInv(p)'
<1>1. Buffered(p)'
  BY DEF Buffered, BufferOK
<1>2. Returns(io'[p], seen'[p])
  BY DEF Returns
<1>3. \A x \in Path : Faithful(io'[p], x, seen'[p])
  BY DEF Faithful
<1>. QED
  BY <1>1, <1>2, <1>3 DEF ReaderInv

LEMMA ReadDirReader ==
  ASSUME StoreInv, ReadInv, NEW p \in Proc, ReadDir(p)
  PROVE  ReaderInv(p)'
<1>1. /\ io[p] \in Op /\ io[p].pc = "readdir" /\ io[p].op = "list" /\ io[p].buf = <<>>
      /\ ReaderInv(p) /\ TreeInv /\ seen' = seen /\ IsReading(io[p])
  BY DEF StoreInv, StoreTypeOK, ReadDir, ReadInv, ReaderInv, OpShape, IsReading
<1>. DEFINE S == {n \in Name : <<io[p].dir, n>> \in created}
<1>2. CASE io[p].dir \in dirs
  <2>1. io'[p] = [io[p] EXCEPT !.pc = "read", !.todo = S]
    BY <1>2 DEF ReadDir, StoreInv, StoreTypeOK
  <2>2. /\ io'[p].pc = "read" /\ io'[p].op = "list" /\ io'[p].dir = io[p].dir /\ io'[p].kind = io[p].kind
        /\ io'[p].todo = S /\ io'[p].buf = <<>> /\ io'[p].got = io[p].got
    BY <1>1, <2>1 DEF Op
  <2>3. OpShape(io'[p]) /\ Watches(io'[p], seen'[p])
    BY <1>1, <2>2 DEF OpShape, ReaderInv, Watches, IsReading, Asks
  <2>4. Buffered(p)'
    BY <2>2 DEF Buffered, BufferOK
  <2>5. Returns(io'[p], seen'[p])
    BY <1>1, <2>2 DEF ReaderInv, Returns, IsReading, Asks
  <2>6. ASSUME NEW x \in Path, Asks(io'[p], x), NEW d \in Doc, seen[p][x] = {d}
        PROVE  x[2] \in S
    <3>1. x \in created
      BY <1>1, <2>6, QuietPath
    <3>2. x = <<io[p].dir, x[2]>> /\ x[2] \in Name
      BY <2>2, <2>6 DEF Asks, Path
    <3>. QED
      BY <3>1, <3>2
  <2>7. \A x \in Path : Faithful(io'[p], x, seen'[p])
    BY <1>1, <2>2, <2>6 DEF Faithful
  <2>. QED
    BY <2>3, <2>4, <2>5, <2>7 DEF ReaderInv
<1>3. CASE io[p].dir \notin dirs
  <2>1. io'[p] = [io[p] EXCEPT !.pc = "done", !.err = TRUE]
    BY <1>3 DEF ReadDir, StoreInv, StoreTypeOK
  <2>2. /\ io'[p].pc = "done" /\ io'[p].op = "list" /\ io'[p].dir = io[p].dir /\ io'[p].kind = io[p].kind
        /\ io'[p].todo = io[p].todo /\ io'[p].got = io[p].got
    BY <1>1, <2>1 DEF Op
  <2>3. OpShape(io'[p]) /\ Watches(io'[p], seen'[p])
    BY <1>1, <2>2 DEF OpShape, ReaderInv, Watches, IsReading, Asks
  <2>4. Buffered(p)'
    BY <2>2 DEF Buffered
  <2>5. Returns(io'[p], seen'[p])
    BY <1>1, <2>2 DEF ReaderInv, Returns, IsReading, Asks
  <2>6. ASSUME NEW x \in Path, Asks(io'[p], x), NEW d \in Doc, seen[p][x] = {d}
        PROVE  FALSE
    <3>1. x \in created
      BY <1>1, <2>6, QuietPath
    <3>. QED
      BY <1>1, <1>3, <2>2, <2>6, <3>1 DEF Asks, TreeInv, FilesHaveDirs
  <2>7. \A x \in Path : Faithful(io'[p], x, seen'[p])
    BY <1>1, <2>2, <2>6 DEF Faithful
  <2>. QED
    BY <2>3, <2>4, <2>5, <2>7 DEF ReaderInv
<1>. QED
  BY <1>2, <1>3

\* A reader that goes on reading appends blocks that are in the file now.
LEMMA ReadBlocksReader ==
  ASSUME StoreInv, ReadInv, NEW p \in Proc, ReadBlocks(p)
  PROVE  ReaderInv(p)'
<1>1. io[p] \in Op /\ io[p].pc = "read" /\ io[p].todo # {} /\ ReaderInv(p) /\ TreeInv
      /\ UNCHANGED <<files, seen>>
  BY DEF StoreInv, StoreTypeOK, ReadBlocks, ReadInv
<1>2. PICK x \in Path : x = Target(p) /\ x \in created
  BY DEF ReadBlocks, StoreInv, StoreTypeOK
<1>3. PICK k \in (Len(io[p].buf) + 1)..Len(files[x]) :
        io' = [io EXCEPT ![p].buf = @ \o SubSeq(files[x], Len(@) + 1, k)]
  BY <1>2 DEF ReadBlocks
<1>. DEFINE b == io[p].buf
            c == files[x]
            s == SubSeq(c, Len(b) + 1, k)
<1>4. /\ io'[p].pc = "read" /\ io'[p].op = io[p].op /\ io'[p].dir = io[p].dir /\ io'[p].kind = io[p].kind
      /\ io'[p].todo = io[p].todo /\ io'[p].buf = b \o s
      /\ io'[p].got = io[p].got /\ io'[p].err = io[p].err
  BY <1>1, <1>3 DEF StoreInv, StoreTypeOK, Op
<1>5. OpShape(io'[p])
  BY <1>1, <1>4 DEF OpShape, ReaderInv
<1>6. Watches(io'[p], seen'[p]) /\ Returns(io'[p], seen'[p])
  BY <1>1, <1>4 DEF ReaderInv, Watches, Returns, IsReading, Asks
<1>7. \A y \in Path : Faithful(io'[p], y, seen'[p])
  BY <1>1, <1>4 DEF ReaderInv, Faithful, IsReading, Asks
<1>8. IsReading(io[p]) /\ Asks(io[p], x)
  BY <1>1, <1>2, AsksTarget DEF ReaderInv, OpShape, IsReading
<1>9. View(x) \ {Hole, NoDoc} \subseteq seen[p][x]
  BY <1>1, <1>8 DEF ReaderInv, Watches, TreeInv, SeenCurrent
<1>10. c \in Seq(Block) /\ b \in Seq(Block)
  BY <1>1 DEF StoreInv, StoreTypeOK, Op
<1>11. \A i \in 1..Len(c) : c[i] \in seen[p][x] \cup {Hole}
  <2>1. \A i \in 1..Len(c) : c[i] \in View(x)
    BY <1>1, <1>2, ViewFacts DEF TreeInv
  <2>2. \A i \in 1..Len(c) : c[i] # NoDoc
    BY <1>10, Signs DEF Block
  <2>. QED
    BY <1>9, <2>1, <2>2
<1>12. BufferOK(io[p], x, seen[p], c)
  BY <1>1, <1>2 DEF ReaderInv, Buffered
<1>13. BufferOK(io'[p], x, seen'[p], files'[x])
  <2>1. k \in (Len(b) + 1)..Len(c)
    BY <1>3
  <2>2. /\ \A i \in 1..Len(b) : b[i] \in seen[p][x] \cup {Hole}
        /\ Torn \notin seen[p][x] =>
             Len(b) <= Len(c) /\ \A i \in 1..Len(b) : b[i] = c[i]
    BY <1>12 DEF BufferOK
  <2>. DEFINE w == seen[p][x] \cup {Hole}
              t == Torn \notin seen[p][x]
  <2>. HIDE DEF b, c, w, t
  <2>3. /\ s \in Seq(Block) /\ Len(s) = k - Len(b)
        /\ \A i \in 1..Len(s) : s[i] = c[Len(b) + i]
    BY <1>10, <2>1
  <2>. HIDE DEF s
  <2>4. Len(b \o s) = k /\ \A i \in 1..k : (b \o s)[i] = IF i <= Len(b) THEN b[i] ELSE c[i]
    BY <1>10, <2>1, <2>3
  <2>5. \A i \in 1..Len(b \o s) : (b \o s)[i] \in w
    BY <1>10, <1>11, <2>1, <2>2, <2>4, SMTT(30) DEF w
  <2>6. ASSUME t PROVE Len(b \o s) <= Len(c) /\ \A i \in 1..Len(b \o s) : (b \o s)[i] = c[i]
    BY <1>10, <2>1, <2>2, <2>4, <2>6 DEF t
  <2>. QED
    BY <1>1, <1>4, <2>5, <2>6 DEF BufferOK, c, w, t
<1>14. Target(p)' = x
  BY <1>2, <1>4 DEF Target, Current
<1>15. Buffered(p)'
  BY <1>13, <1>14 DEF Buffered
<1>. QED
  BY <1>5, <1>6, <1>7, <1>15 DEF ReaderInv

\* A reader has result r for its current file x.  The result is kept, and the
\* file, when it is left alone, was read for what it is.
LEMMA FileReadReader ==
  ASSUME StoreInv, NEW p \in Proc, ReaderInv(p), io[p].pc = "read", io[p].todo # {},
         NEW r, FileRead(p, r), NEW x, x = Target(p),
         \A y \in Path : \/ seen'[p][y] = seen[p][y]
                         \/ y = x /\ seen'[p][y] = seen[p][y] \cup {Torn},
         r # Failed /\ io[p].kind \in {"groups", "profiles"} =>
           x \in Path /\ \E d \in Found(seen[p][x]) : r = ParseDoc(io[p].kind, d),
         \A d \in Doc : x \in Path /\ seen'[p][x] = {d} => r = ParseDoc(io[p].kind, d),
         x \in Path /\ seen'[p][x] = {NoFile} => r = Failed
  PROVE  ReaderInv(p)'
<1>. DEFINE got == IF r = Failed THEN io[p].got ELSE Append(io[p].got, r)
<1>1. io[p] \in Op /\ io[p].op \in {"get", "list"} /\ io[p].got \in Seq(Result)
  BY DEF StoreInv, StoreTypeOK, Op, ReaderInv, OpShape
<1>2. /\ IsReading(io[p]) /\ Asks(io[p], x) /\ x = <<io[p].dir, Current(p)>>
      /\ Current(p) \in io[p].todo
  BY <1>1, AsksTarget DEF ReaderInv, IsReading
<1>3. /\ io'[p].pc = IF io[p].op = "list" THEN "read" ELSE "done"
      /\ io'[p].op = io[p].op /\ io'[p].dir = io[p].dir /\ io'[p].kind = io[p].kind
      /\ io'[p].todo = IF io[p].op = "list" THEN io[p].todo \ {Current(p)} ELSE io[p].todo
      /\ io'[p].buf = <<>>
      /\ io'[p].got = got
      /\ io'[p].err = (io[p].op # "list" /\ r = Failed)
  BY <1>1 DEF FileRead, StoreInv, StoreTypeOK, Op
<1>4. /\ Len(io[p].got) \in Nat /\ Len(got) \in Nat /\ Len(io[p].got) <= Len(got)
      /\ \A i \in 1..Len(io[p].got) : got[i] = io[p].got[i]
      /\ r # Failed => Len(got) = Len(io[p].got) + 1 /\ got[Len(got)] = r
      /\ \A i \in 1..Len(got) : i \in 1..Len(io[p].got) \/ (r # Failed /\ got[i] = r)
  <2>. DEFINE g == io[p].got
              h == Append(g, r)
  <2>1. g \in Seq(Result)
    BY <1>1
  <2>. HIDE DEF g
  <2>2. /\ Len(g) \in Nat /\ Len(h) = Len(g) + 1 /\ h[Len(g) + 1] = r
        /\ \A i \in 1..Len(g) : h[i] = g[i]
    BY <2>1
  <2>. HIDE DEF h
  <2>3. \A i \in 1..Len(h) : i \in 1..Len(g) \/ i = Len(h)
    BY <2>2
  <2>4. CASE r = Failed
    BY <2>2, <2>4 DEF g
  <2>5. CASE r # Failed
    <3>1. got = h
      BY <2>5 DEF g, h
    <3>. HIDE DEF got
    <3>. QED
      BY <2>2, <2>3, <2>5, <3>1 DEF g
  <2>. QED
    BY <2>4, <2>5
<1>. HIDE DEF got
<1>5. \A y : Asks(io'[p], y) <=> Asks(io[p], y)
  BY <1>3 DEF Asks
<1>6. IsReading(io'[p])
  BY <1>1, <1>3 DEF IsReading
<1>7. OpShape(io'[p])
  BY <1>1, <1>3 DEF ReaderInv, OpShape
<1>8. Watches(io'[p], seen'[p])
  BY <1>2, <1>5 DEF ReaderInv, Watches
<1>9. Buffered(p)'
  BY <1>3 DEF Buffered, BufferOK
<1>10. Returns(io'[p], seen'[p])
  <2>. SUFFICES ASSUME io[p].kind \in {"groups", "profiles"}, NEW i \in 1..Len(got)
                PROVE  \E y \in Path :
                         /\ Asks(io[p], y)
                         /\ \E d \in Found(seen'[p][y]) : got[i] = ParseDoc(io[p].kind, d)
    BY <1>3, <1>5 DEF Returns
  <2>1. \A y \in Path : Found(seen[p][y]) \subseteq Found(seen'[p][y])
    BY FoundMonotone
  <2>2. CASE i \in 1..Len(io[p].got)
    <3>1. PICK y \in Path : /\ Asks(io[p], y)
                            /\ \E d \in Found(seen[p][y]) : io[p].got[i] = ParseDoc(io[p].kind, d)
      BY <1>2, <2>2 DEF ReaderInv, Returns
    <3>. QED
      BY <1>4, <2>1, <2>2, <3>1
  <2>3. CASE r # Failed /\ got[i] = r
    BY <1>2, <2>1, <2>3
  <2>. QED
    BY <1>4, <2>2, <2>3
<1>11. ASSUME NEW y \in Path PROVE Faithful(io'[p], y, seen'[p])
  <2>1. \A d \in Doc : seen'[p][y] = {d} => seen[p][y] = {d}
    BY Signs
  <2>2. CASE io[p].op = "list"
    <3>. SUFFICES ASSUME Asks(io[p], y), NEW d \in Doc, seen'[p][y] = {d},
                         y[2] \notin io[p].todo \ {Current(p)}, ParseDoc(io[p].kind, d) # Failed
                  PROVE  \E i \in 1..Len(got) : got[i] = ParseDoc(io[p].kind, d)
      BY <1>3, <1>5, <2>2 DEF Faithful
    <3>1. CASE y[2] \notin io[p].todo
      <4>1. \E i \in 1..Len(io[p].got) : io[p].got[i] = ParseDoc(io[p].kind, d)
        BY <1>2, <2>1, <2>2, <3>1 DEF ReaderInv, Faithful
      <4>. QED
        BY <1>4, <4>1
    <3>2. CASE y[2] = Current(p)
      <4>1. y = <<y[1], y[2]>>
        BY DEF Path
      <4>2. y = x
        BY <1>2, <3>2, <4>1 DEF Asks
      <4>3. r = ParseDoc(io[p].kind, d)
        BY <4>2
      <4>. QED
        BY <1>4, <4>3
    <3>. QED
      BY <3>1, <3>2
  <2>3. CASE io[p].op = "get"
    <3>. SUFFICES ASSUME y = x
                  PROVE  Faithful(io'[p], y, seen'[p])
      BY <1>1, <1>5, <2>3, GetAsks DEF Faithful, ReaderInv
    <3>1. io[p].got = <<>>
      BY <2>3 DEF ReaderInv, OpShape
    <3>2. r # Failed => got = <<r>>
      BY <3>1 DEF got
    <3>3. io'[p].err = (r = Failed)
      BY <1>3, <2>3
    <3>. QED
      BY <1>3, <2>3, <3>2, <3>3 DEF Faithful
  <2>. QED
    BY <1>1, <2>2, <2>3
<1>. QED
  BY <1>7, <1>8, <1>9, <1>10, <1>11 DEF ReaderInv

\* At end of file the bytes are parsed: when they parse, they are a document
\* the file has held or, if it was torn, made of blocks of several, and when
\* the file was left alone, they are all of it.
LEMMA ReadEOFReader ==
  ASSUME StoreInv, ReadInv, NEW p \in Proc, ReadEOF(p)
  PROVE  ReaderInv(p)'
<1>1. /\ io[p] \in Op /\ io[p].pc = "read" /\ io[p].todo # {} /\ ReaderInv(p) /\ TreeInv
      /\ seen' = seen
  BY DEF StoreInv, StoreTypeOK, ReadEOF, ReadInv
<1>2. PICK x \in Path : x = Target(p) /\ x \in created
  BY DEF ReadEOF, StoreInv, StoreTypeOK
<1>. DEFINE b == io[p].buf
            kind == io[p].kind
<1>3. PICK r \in Parse(kind, b) : FileRead(p, r)
  BY DEF ReadEOF
<1>4. BufferOK(io[p], x, seen[p], files[x])
  BY <1>1, <1>2 DEF ReaderInv, Buffered
<1>5. Len(files[x]) <= Len(b)
  BY <1>2 DEF ReadEOF
<1>6. b \in Seq(Block) /\ files[x] \in Seq(Block)
  BY <1>1 DEF Op, StoreInv, StoreTypeOK
<1>7. View(x) \ {Hole, NoDoc} \subseteq seen[p][x]
  <2>1. IsReading(io[p]) /\ Asks(io[p], x)
    BY <1>1, <1>2, AsksTarget DEF ReaderInv, OpShape, IsReading
  <2>. QED
    BY <1>1, <2>1 DEF ReaderInv, Watches, TreeInv, SeenCurrent
<1>8. ASSUME Torn \notin seen[p][x]
      PROVE  /\ b = Image(last[x]) /\ last[x] \in Doc /\ last[x] \in seen[p][x]
  <2>1. Torn \notin View(x)
    BY <1>7, <1>8, Signs
  <2>2. files[x] = Image(last[x]) /\ last[x] \in Doc /\ last[x] \in View(x)
    BY <1>1, <1>2, <2>1, ViewFacts DEF TreeInv
  <2>3. b = files[x]
    <3>1. Len(b) <= Len(files[x]) /\ \A i \in 1..Len(b) : b[i] = files[x][i]
      BY <1>4, <1>8 DEF BufferOK
    <3>2. Len(b) = Len(files[x])
      BY <1>5, <1>6, <3>1
    <3>. HIDE DEF b
    <3>. QED
      BY <1>6, <3>1, <3>2
  <2>. QED
    BY <1>7, <2>2, <2>3, Signs
<1>9. ASSUME r # Failed, kind \in {"groups", "profiles"}
      PROVE  \E d \in Found(seen[p][x]) : r = ParseDoc(kind, d)
  <2>1. \A i \in 1..Len(b) : b[i] \in seen[p][x] \cup {Hole}
    BY <1>4 DEF BufferOK
  <2>2. PICK d \in Doc :
          /\ r = ParseDoc(kind, d)
          /\ d \in seen[p][x] \/ (~Whole(b) /\ b # <<>> /\ d \in Mixture(seen[p][x] \cap Doc))
    <3>. HIDE DEF b, kind
    <3>. QED
      BY <1>3, <1>6, <1>9, <2>1, ParseFromBuffer
  <2>3. CASE d \in seen[p][x]
    BY <2>2, <2>3 DEF Found
  <2>4. CASE d \notin seen[p][x]
    <3>1. Torn \in seen[p][x]
      <4>. SUFFICES ASSUME Torn \notin seen[p][x] PROVE FALSE
        OBVIOUS
      <4>1. Size(last[x]) = 0
        BY <1>8, <2>2, <2>4, WholeImage
      <4>2. b = <<>>
        BY <1>8, <4>1 DEF Image
      <4>. QED
        BY <2>2, <2>4, <4>2
    <3>. QED
      BY <2>2, <2>4, <3>1 DEF Found
  <2>. QED
    BY <2>3, <2>4
<1>10. ASSUME NEW d \in Doc, seen[p][x] = {d}
      PROVE  r = ParseDoc(kind, d)
  <2>1. b = Image(d)
    BY <1>8, <1>10, Signs
  <2>. QED
    BY <1>3, <2>1, ParseImage
<1>11. seen[p][x] # {NoFile}
  BY <1>1, <1>2, QuietPath
<1>. QED
  BY <1>1, <1>2, <1>3, <1>9, <1>10, <1>11, FileReadReader

\* A file that is not there, or cannot be read, gives nothing.
LEMMA ReadFailsReader ==
  ASSUME StoreInv, ReadInv, NEW p \in Proc, ReadMissing(p) \/ ReadError(p)
  PROVE  ReaderInv(p)'
<1>1. /\ io[p].pc = "read" /\ io[p].todo # {} /\ ReaderInv(p) /\ TreeInv
      /\ FileRead(p, Failed)
  BY DEF ReadMissing, ReadError, ReadInv
<1>2. PICK x : x = Target(p)
  OBVIOUS
<1>3. ASSUME ReadMissing(p), NEW d \in Doc, x \in Path, seen[p][x] = {d} PROVE FALSE
  BY <1>1, <1>2, <1>3, QuietPath DEF ReadMissing
<1>4. ASSUME ReadError(p), NEW y \in Path
      PROVE  seen'[p][y] = IF y = x THEN seen[p][y] \cup {Torn} ELSE seen[p][y]
  BY <1>2, <1>4 DEF ReadError, Disturb, StoreInv, StoreTypeOK, SeenType
<1>5. CASE ReadMissing(p)
  <2>1. seen' = seen
    BY <1>5 DEF ReadMissing
  <2>. QED
    BY <1>1, <1>2, <1>3, <1>5, <2>1, FileReadReader
<1>6. CASE ReadError(p)
  <2>1. ASSUME NEW d \in Doc, x \in Path, seen'[p][x] = {d} PROVE FALSE
    BY <1>4, <1>6, <2>1, Signs
  <2>. QED
    BY <1>1, <1>2, <1>4, <1>6, <2>1, FileReadReader
<1>. QED
  BY <1>5, <1>6

\* A list that ends, or whose directory cannot be read, keeps its results.
LEMMA ListReader ==
  ASSUME StoreInv, ReadInv, NEW p \in Proc, ListDone(p) \/ ReadDirError(p)
  PROVE  ReaderInv(p)'
<1>1. io[p] \in Op /\ ReaderInv(p) /\ io[p].pc \in {"readdir", "read"} /\ io[p].op = "list"
  BY DEF StoreInv, StoreTypeOK, ReadInv, ReaderInv, OpShape, ListDone, ReadDirError
<1>2. /\ io'[p].pc = "done" /\ io'[p].op = "list" /\ io'[p].dir = io[p].dir /\ io'[p].kind = io[p].kind
      /\ io'[p].todo = io[p].todo /\ io'[p].got = io[p].got
  BY <1>1 DEF ListDone, ReadDirError, StoreInv, StoreTypeOK, Op
<1>3. \A x \in Path :
        \/ seen'[p][x] = seen[p][x]
        \/ seen'[p][x] = seen[p][x] \cup {Torn}
  BY DEF ListDone, ReadDirError, Disturb, StoreInv, StoreTypeOK, SeenType
<1>4. IsReading(io[p]) /\ \A x : Asks(io'[p], x) <=> Asks(io[p], x)
  BY <1>1, <1>2 DEF IsReading, Asks
<1>5. OpShape(io'[p])
  BY <1>1, <1>2 DEF OpShape, ReaderInv
<1>6. Watches(io'[p], seen'[p])
  BY <1>1, <1>3, <1>4 DEF ReaderInv, Watches
<1>7. Returns(io'[p], seen'[p])
  <2>1. \A x \in Path : Found(seen[p][x]) \subseteq Found(seen'[p][x])
    BY <1>3, FoundMonotone
  <2>. QED
    BY <1>1, <1>2, <1>4, <2>1 DEF ReaderInv, Returns
<1>8. Buffered(p)'
  BY <1>2 DEF Buffered
<1>9. ASSUME NEW x \in Path PROVE Faithful(io'[p], x, seen'[p])
  <2>. SUFFICES ASSUME Asks(io[p], x), NEW d \in Doc, seen'[p][x] = {d}
                PROVE  \/ ParseDoc(io[p].kind, d) = Failed
                       \/ \E i \in 1..Len(io[p].got) : io[p].got[i] = ParseDoc(io[p].kind, d)
    BY <1>2, <1>4 DEF Faithful
  <2>1. seen[p][x] = {d}
    BY <1>3, Signs
  <2>2. CASE ListDone(p)
    BY <1>1, <1>4, <2>1, <2>2 DEF ListDone, ReaderInv, Faithful
  <2>3. CASE ReadDirError(p)
    <3>1. x \in DirPaths(io[p].dir)
      BY DEF DirPaths, Asks
    <3>2. seen'[p][x] = seen[p][x] \cup {Torn}
      BY <2>3, <3>1 DEF ReadDirError, Disturb, StoreInv, StoreTypeOK, SeenType
    <3>. QED
      BY <3>2, Signs
  <2>. QED
    BY <2>2, <2>3
<1>. QED
  BY <1>5, <1>6, <1>7, <1>8, <1>9 DEF ReaderInv

-----------------------------------------------------------------------------
(***************************************************************************)
(* Every step keeps the invariant                                          *)
(***************************************************************************)

\* A step of one goroutine that writes no file.
LEMMA QuietRead ==
  ASSUME StoreInv, ReadInv, NEW p \in Proc, NEW o, io' = [io EXCEPT ![p] = o],
         io[p].pc # "write", o.pc # "write",
         UNCHANGED <<created, files, last, spoiled>>, dirs \subseteq dirs',
         o.pc = "open" => o.dir \in dirs',
         \A q \in Proc \ {p} : seen'[q] = seen[q],
         \A x \in Path : \/ seen'[p][x] = {}
                         \/ seen'[p][x] = View(x)
                         \/ seen[p][x] # {} /\ seen[p][x] \subseteq seen'[p][x],
         ReaderInv(p)'
  PROVE  ReadInv'
<1>1. \A q \in Proc, x \in Path :
        \/ seen'[q][x] = {}
        \/ seen'[q][x] = View(x)
        \/ seen[q][x] # {} /\ seen[q][x] \subseteq seen'[q][x]
  OBVIOUS
<1>2. TreeInv'
  BY <1>1, QuietTree DEF ReadInv
<1>3. ASSUME NEW q \in Proc, q # p PROVE ReaderInv(q)'
  <2>1. io'[q] = io[q] /\ seen'[q] = seen[q]
    BY <1>3 DEF StoreInv, StoreTypeOK
  <2>. QED
    BY <2>1, Untouched DEF ReadInv
<1>. QED
  BY <1>2, <1>3 DEF ReadInv

\* The same, for a step that does not change what anybody has seen.
LEMMA QuietUnseen ==
  ASSUME StoreInv, ReadInv, NEW p \in Proc, NEW o, io' = [io EXCEPT ![p] = o],
         io[p].pc # "write", o.pc # "write",
         UNCHANGED <<created, files, last, spoiled, seen>>, dirs \subseteq dirs',
         o.pc = "open" => o.dir \in dirs', ReaderInv(p)'
  PROVE  ReadInv'
<1>1. \A x \in Path : \/ seen'[p][x] = {}
                      \/ seen[p][x] # {} /\ seen[p][x] \subseteq seen'[p][x]
  OBVIOUS
<1>. QED
  BY <1>1, QuietRead

\* A put that returns shows readers nothing.
LEMMA PutReturnsRead ==
  ASSUME StoreInv, ReadInv, NEW p \in Proc, NEW dir, NEW err, PutReturns(p, dir, err),
         io[p].pc # "write", UNCHANGED <<dirs, created, files, last, spoiled, seen>>
  PROVE  ReadInv'
<1>. DEFINE o == [Idle EXCEPT !.pc = "done", !.op = "put", !.dir = dir, !.err = err]
<1>1. o.pc = "done" /\ o.op = "put"
  BY DEF Idle
<1>2. io' = [io EXCEPT ![p] = o] /\ io'[p] = o
  BY DEF PutReturns, StoreInv, StoreTypeOK
<1>. HIDE DEF o
<1>3. ReaderInv(p)'
  BY <1>1, <1>2, NotReading DEF OpShape, IsReading
<1>. QED
  BY <1>1, <1>2, <1>3, QuietUnseen

LEMMA StartWriteRead ==
  ASSUME StoreInv, ReadInv, NEW p \in Proc, NEW x, NEW d, StartWrite(p, x, d),
         io[p].pc # "write", UNCHANGED <<dirs, created, files, last, spoiled, seen>>
  PROVE  ReadInv'
<1>. DEFINE o == [Idle EXCEPT !.pc = "mkdir", !.op = "put", !.dir = x[1], !.todo = {x[2]},
                              !.doc = d]
<1>1. o.pc = "mkdir" /\ o.op = "put"
  BY DEF Idle
<1>2. io' = [io EXCEPT ![p] = o] /\ io'[p] = o
  BY DEF StartWrite, StoreInv, StoreTypeOK
<1>. HIDE DEF o
<1>3. ReaderInv(p)'
  BY <1>1, <1>2, NotReading DEF OpShape, IsReading
<1>. QED
  BY <1>1, <1>2, <1>3, QuietUnseen

\* What a goroutine sees after it has asked.
LEMMA WatchFacts ==
  ASSUME StoreInv, ReadInv, NEW p \in Proc, NEW X, Watch(p, X)
  PROVE  /\ \A q \in Proc \ {p} : seen'[q] = seen[q]
         /\ \A x \in Path : seen'[p][x] = IF x \in X THEN View(x) ELSE {}
         /\ \A x \in Path \cap X : seen'[p][x] # {}
<1>1. \A q \in Proc \ {p} : seen'[q] = seen[q]
  BY DEF Watch, StoreInv, StoreTypeOK, SeenType
<1>2. \A x \in Path : seen'[p][x] = IF x \in X THEN View(x) ELSE {}
  BY DEF Watch, StoreInv, StoreTypeOK, SeenType
<1>3. \A x \in Path : View(x) # {}
  BY ViewFacts DEF ReadInv, TreeInv
<1>. QED
  BY <1>1, <1>2, <1>3

LEMMA StartGetRead ==
  ASSUME StoreInv, ReadInv, NEW p \in Proc, NEW kind \in Dirs, NEW x \in Dirs \X (Name \cup {NoId}),
         StartGet(p, kind, x), Watch(p, {x}), io[p].pc # "write",
         UNCHANGED <<dirs, created, files, last, spoiled>>
  PROVE  ReadInv'
<1>. DEFINE o == [Idle EXCEPT !.pc = "read", !.op = "get", !.kind = kind, !.dir = x[1],
                              !.todo = {x[2]}]
<1>1. /\ o.pc = "read" /\ o.op = "get" /\ o.dir = x[1] /\ o.todo = {x[2]}
      /\ o.buf = <<>> /\ o.got = <<>>
  BY DEF Idle
<1>2. io' = [io EXCEPT ![p] = o] /\ io'[p] = o
  BY DEF StartGet, StoreInv, StoreTypeOK
<1>. HIDE DEF o
<1>3. OpShape(o) /\ IsReading(o)
  BY <1>1 DEF OpShape, IsReading
<1>4. Watches(o, seen'[p])
  <2>1. \A y \in Path : Asks(o, y) => y = x
    BY <1>1 DEF Asks, Path
  <2>. QED
    BY <2>1, WatchFacts DEF Watches
<1>5. ReaderInv(p)'
  BY <1>1, <1>2, <1>3, <1>4, FreshReader
<1>. QED
  BY <1>1, <1>2, <1>5, WatchFacts, QuietRead, ZenonT(30)

LEMMA StartListRead ==
  ASSUME StoreInv, ReadInv, NEW p \in Proc, NEW dir,
         StartList(p, dir), Watch(p, DirPaths(dir)), io[p].pc # "write",
         UNCHANGED <<dirs, created, files, last, spoiled>>
  PROVE  ReadInv'
<1>. DEFINE o == [Idle EXCEPT !.pc = "readdir", !.op = "list", !.kind = dir, !.dir = dir]
<1>1. /\ o.pc = "readdir" /\ o.op = "list" /\ o.dir = dir /\ o.todo = {}
      /\ o.buf = <<>> /\ o.got = <<>>
  BY DEF Idle
<1>2. io' = [io EXCEPT ![p] = o] /\ io'[p] = o
  BY DEF StartList, StoreInv, StoreTypeOK
<1>. HIDE DEF o
<1>3. OpShape(o) /\ IsReading(o)
  BY <1>1 DEF OpShape, IsReading
<1>4. Watches(o, seen'[p])
  <2>1. \A x \in Path : Asks(o, x) => x \in DirPaths(dir)
    BY <1>1 DEF Asks, DirPaths
  <2>. QED
    BY <2>1, WatchFacts DEF Watches
<1>5. ReaderInv(p)'
  BY <1>1, <1>2, <1>3, <1>4, FreshReader
<1>. QED
  BY <1>1, <1>2, <1>5, WatchFacts, QuietRead

\* The calls of a put.
LEMMA MkdirAllRead ==
  ASSUME StoreInv, ReadInv, NEW p \in Proc, MkdirAll(p)
  PROVE  ReadInv'
<1>. DEFINE o == [io[p] EXCEPT !.pc = "open"]
<1>1. io[p] \in Op /\ io[p].pc = "mkdir" /\ io[p].op = "put"
  BY DEF StoreInv, StoreTypeOK, MkdirAll, ReadInv, ReaderInv, OpShape
<1>2. o.pc = "open" /\ o.op = "put" /\ o.dir = io[p].dir
  BY <1>1 DEF Op
<1>3. io' = [io EXCEPT ![p] = o] /\ io'[p] = o
  BY DEF MkdirAll, StoreInv, StoreTypeOK
<1>. HIDE DEF o
<1>4. ReaderInv(p)'
  BY <1>2, <1>3, NotReading DEF OpShape, IsReading
<1>5. dirs' = dirs \cup {io[p].dir} /\ UNCHANGED <<created, files, last, spoiled, seen>>
  BY DEF MkdirAll
<1>. QED
  BY <1>1, <1>2, <1>3, <1>4, <1>5, QuietUnseen

LEMMA OpenTruncRead ==
  ASSUME StoreInv, ReadInv, NEW p \in Proc, OpenTrunc(p)
  PROVE  ReadInv'
<1>1. PICK x \in Path, d \in Doc : Opens(p, x, d)
  BY OpenEffect
<1>2. TreeInv'
  BY OpenTree DEF ReadInv
<1>3. io[p] \in Op /\ io[p].op = "put"
  BY <1>1 DEF StoreInv, StoreTypeOK, ReadInv, ReaderInv, OpShape, Opens
<1>4. io'[p].pc = "write" /\ io'[p].op = "put"
  BY <1>1, <1>3 DEF Op, Opens
<1>5. ReaderInv(p)'
  BY <1>4, NotReading DEF OpShape, IsReading
<1>6. ASSUME NEW q \in Proc, q # p PROVE ReaderInv(q)'
  <2>1. io'[q] = io[q]
    BY <1>1, <1>6 DEF Opens
  <2>2. \A y \in Path :
          \/ seen'[q][y] = seen[q][y]
          \/ seen[q][y] # {} /\ seen[q][y] \subseteq seen'[q][y] /\ Torn \in seen'[q][y]
    BY <1>1 DEF Opens
  <2>3. \A y \in Path : seen[q][y] # {} /\ Torn \notin seen'[q][y] => files'[y] = files[y]
    BY <1>1 DEF Opens
  <2>. QED
    BY <2>1, <2>2, <2>3, Untouched DEF ReadInv
<1>. QED
  BY <1>2, <1>5, <1>6 DEF ReadInv

LEMMA WriteBlocksRead ==
  ASSUME StoreInv, ReadInv, NEW p \in Proc, WriteBlocks(p)
  PROVE  ReadInv'
<1>1. PICK x \in Path, d \in Doc, k \in Nat : Writes(p, x, d, k)
  BY WriteEffect
<1>2. TreeInv'
  BY WriteTree DEF ReadInv
<1>3. io[p] \in Op /\ io[p].op = "put" /\ seen' = seen
  BY <1>1 DEF StoreInv, StoreTypeOK, ReadInv, ReaderInv, OpShape, Writes
<1>4. io'[p].pc = "write" /\ io'[p].op = "put"
  BY <1>1, <1>3 DEF Op, Writes
<1>5. ReaderInv(p)'
  BY <1>4, NotReading DEF OpShape, IsReading
<1>6. \A q \in Proc : seen[q][x] # {} => Torn \in seen[q][x]
  <2>1. Torn \in View(x)
    BY <1>1, WriterView DEF ReadInv, Writes
  <2>. QED
    BY <2>1, Signs DEF ReadInv, TreeInv, SeenCurrent
<1>7. ASSUME NEW q \in Proc, q # p PROVE ReaderInv(q)'
  <2>1. io'[q] = io[q]
    BY <1>1, <1>7 DEF Writes
  <2>2. \A y \in Path : seen[q][y] # {} /\ Torn \notin seen'[q][y] => files'[y] = files[y]
    BY <1>1, <1>3, <1>6 DEF Writes
  <2>. QED
    BY <1>3, <2>1, <2>2, Untouched DEF ReadInv
<1>. QED
  BY <1>2, <1>5, <1>7 DEF ReadInv

LEMMA CloseRead ==
  ASSUME StoreInv, ReadInv, NEW p \in Proc,
         CloseFile(p) \/ (WriteError(p) /\ io[p].pc = "write")
  PROVE  ReadInv'
<1>1. PICK x \in Path, d \in Doc, err \in BOOLEAN : Closes(p, x, d, err)
  BY CloseEffect
<1>2. TreeInv'
  BY CloseTree DEF ReadInv
<1>3. io'[p].pc = "done" /\ io'[p].op = "put"
  BY <1>1 DEF Closes, Idle
<1>4. ReaderInv(p)'
  BY <1>3, NotReading DEF OpShape, IsReading
<1>5. ASSUME NEW q \in Proc, q # p PROVE ReaderInv(q)'
  <2>1. io'[q] = io[q] /\ files' = files /\ seen' = seen
    BY <1>1, <1>5 DEF Closes
  <2>. QED
    BY <2>1, Untouched DEF ReadInv
<1>. QED
  BY <1>2, <1>4, <1>5 DEF ReadInv

LEMMA WriteErrorRead ==
  ASSUME StoreInv, ReadInv, NEW p \in Proc, WriteError(p)
  PROVE  ReadInv'
<1>1. CASE io[p].pc = "write"
  BY <1>1, CloseRead
<1>2. CASE io[p].pc # "write"
  BY <1>2, PutReturnsRead DEF WriteError
<1>. QED
  BY <1>1, <1>2

\* The calls of a get and of a list.
LEMMA ReaderStep ==
  ASSUME StoreInv, ReadInv, NEW p \in Proc,
         \/ ReadDir(p) \/ ReadBlocks(p) \/ ReadEOF(p) \/ ReadMissing(p) \/ ReadError(p)
         \/ ListDone(p) \/ ReadDirError(p)
  PROVE  ReadInv'
<1>1. ReaderInv(p)'
  BY ReadDirReader, ReadBlocksReader, ReadEOFReader, ReadFailsReader, ListReader
<1>2. UNCHANGED <<dirs, created, files, last, spoiled>> /\ io[p].pc \in {"readdir", "read"}
  BY DEF ReadDir, ReadBlocks, ReadEOF, ReadMissing, ReadError, ListDone, ReadDirError
<1>3. PICK o : io' = [io EXCEPT ![p] = o] /\ o.pc \in {"read", "done"}
  <2>1. io'[p].pc \in {"read", "done"}
    <3>1. io \in [Proc -> Op] /\ io[p] \in Op
      BY DEF StoreInv, StoreTypeOK
    <3>2. CASE ReadDir(p)
      BY <3>1, <3>2 DEF Op, ReadDir
    <3>3. CASE ReadBlocks(p)
      BY <3>1, <3>3 DEF Op, ReadBlocks
    <3>4. CASE ReadEOF(p) \/ ReadMissing(p) \/ ReadError(p)
      <4>1. PICK r : FileRead(p, r)
        BY <3>4 DEF ReadEOF, ReadMissing, ReadError
      <4>. QED
        BY <3>1, <4>1 DEF Op, FileRead
    <3>5. CASE ListDone(p) \/ ReadDirError(p)
      BY <3>1, <3>5 DEF Op, ListDone, ReadDirError
    <3>. QED
      BY <3>2, <3>3, <3>4, <3>5
  <2>2. io' = [io EXCEPT ![p] = io'[p]]
    BY DEF StoreInv, StoreTypeOK, FileRead, ReadDir, ReadBlocks, ReadEOF, ReadMissing,
           ReadError, ListDone, ReadDirError
  <2>. QED
    BY <2>1, <2>2
<1>4. /\ \A q \in Proc \ {p} : seen'[q] = seen[q]
      /\ \A x \in Path : \/ seen'[p][x] = seen[p][x]
                         \/ Asks(io[p], x) /\ seen'[p][x] = seen[p][x] \cup {Torn}
  <2>1. CASE ReadError(p)
    <3>1. Asks(io[p], Target(p))
      BY <2>1, AsksTarget DEF ReadError, StoreInv, StoreTypeOK, ReadInv, ReaderInv, OpShape,
                              IsReading
    <3>. QED
      BY <2>1, <3>1 DEF ReadError, Disturb, StoreInv, StoreTypeOK, SeenType
  <2>2. CASE ReadDirError(p)
    <3>1. io[p].op = "list"
      BY <2>2 DEF ReadDirError, ReadInv, ReaderInv, OpShape
    <3>2. \A x \in DirPaths(io[p].dir) : Asks(io[p], x)
      BY <3>1 DEF DirPaths, Asks
    <3>. QED
      BY <2>2, <3>2 DEF ReadDirError, Disturb, StoreInv, StoreTypeOK, SeenType
  <2>3. CASE seen' = seen
    BY <2>3
  <2>. QED
    BY <2>1, <2>2, <2>3 DEF ReadDir, ReadBlocks, ReadEOF, ReadMissing, ListDone
<1>5. \A x \in Path : Asks(io[p], x) => seen[p][x] # {}
  BY <1>2 DEF ReadInv, ReaderInv, OpShape, Watches, IsReading
<1>6. \A x \in Path : \/ seen'[p][x] = {}
                      \/ seen[p][x] # {} /\ seen[p][x] \subseteq seen'[p][x]
  BY <1>4, <1>5
<1>. QED
  BY <1>1, <1>2, <1>3, <1>4, <1>6, QuietRead

\* What a reader's calls change for readers: at most a sign that its own
\* calls failed, at paths that it asked for.
LEMMA ReaderSees ==
  ASSUME StoreInv, ReadInv, NEW p \in Proc,
         \/ ReadDir(p) \/ ReadBlocks(p) \/ ReadEOF(p) \/ ReadMissing(p) \/ ReadError(p)
         \/ ListDone(p) \/ ReadDirError(p)
  PROVE  /\ \A q \in Proc \ {p} : seen'[q] = seen[q]
         /\ \A x \in Path : seen'[p][x] \in {seen[p][x], seen[p][x] \cup {Torn}}
<1>1. CASE ReadError(p)
  BY <1>1 DEF ReadError, Disturb, StoreInv, StoreTypeOK, SeenType
<1>2. CASE ReadDirError(p)
  BY <1>2 DEF ReadDirError, Disturb, StoreInv, StoreTypeOK, SeenType
<1>3. CASE seen' = seen
  BY <1>3
<1>. QED
  BY <1>1, <1>2, <1>3 DEF ReadDir, ReadBlocks, ReadEOF, ReadMissing, ListDone

LEMMA ReturnRead ==
  ASSUME StoreInv, ReadInv, NEW p \in Proc, Return(p)
  PROVE  ReadInv'
<1>1. io' = [io EXCEPT ![p] = Idle] /\ io'[p] = Idle /\ io[p].pc = "done"
  BY DEF Return, StoreInv, StoreTypeOK
<1>2. Idle.pc = "idle" /\ Idle.op = "none"
  BY DEF Idle
<1>3. ReaderInv(p)'
  BY <1>1, <1>2, NotReading DEF OpShape, IsReading
<1>4. /\ \A q \in Proc \ {p} : seen'[q] = seen[q]
      /\ \A x \in Path : seen'[p][x] = {}
  BY DEF Return, StoreInv, StoreTypeOK, SeenType
<1>5. UNCHANGED <<dirs, created, files, last, spoiled>>
  BY DEF Return
<1>. QED
  BY <1>1, <1>2, <1>3, <1>4, <1>5, QuietRead

LEMMA CrashRead ==
  ASSUME StoreInv, ReadInv, Crash
  PROVE  ReadInv'
<1>1. \A p \in Proc : io'[p] = Idle
  BY DEF Crash
<1>2. Idle.pc = "idle" /\ Idle.op = "none"
  BY DEF Idle
<1>3. \A p \in Proc : ReaderInv(p)'
  BY <1>1, <1>2, NotReading DEF OpShape, IsReading
<1>. QED
  BY <1>3, CrashTree DEF ReadInv

LEMMA CallRead ==
  ASSUME StoreInv, ReadInv, NEW p \in Proc, Call(p)
  PROVE  ReadInv'
<1>1. CASE AsksGet(p)
  BY <1>1, StartGetRead DEF AsksGet, AskingToRead, Asking
<1>2. CASE AsksList(p)
  BY <1>2, StartListRead DEF AsksList, AskingToRead, Asking
<1>3. CASE AsksPut(p)
  BY <1>3, StartWriteRead DEF AsksPut, AskingToPut, Asking
<1>4. CASE AsksBadPut(p)
  BY <1>4, PutReturnsRead DEF AsksBadPut, AskingToPut, Asking
<1>. QED
  BY <1>1, <1>2, <1>3, <1>4, CallKinds

\* Files laid out by hand have been acknowledged, and nobody reads yet.
LEMMA InitRead == StoreInit => ReadInv
<1>. SUFFICES ASSUME StoreInit PROVE ReadInv
  OBVIOUS
<1>1. PICK t \in Tree :
        /\ created = DOMAIN t
        /\ last = [x \in Path |-> IF x \in DOMAIN t THEN t[x] ELSE NoDoc]
        /\ dirs \in {Dirs, {x[1] : x \in DOMAIN t}}
  BY DEF StoreInit
<1>2. \A p \in Proc : io[p] = Idle /\ \A x \in Path : seen[p][x] = {}
  BY DEF StoreInit
<1>3. created \subseteq Path /\ \A x \in created : t[x] \in Doc
  BY <1>1, InputAssumption
<1>4. Idle.pc = "idle" /\ Idle.op = "none" /\ Idle.dir = "groups"
  BY DEF Idle
<1>5. \A x \in created : x[1] \in dirs
  BY <1>1, <1>3 DEF Path
<1>6. FilesHaveDirs
  BY <1>2, <1>4, <1>5 DEF FilesHaveDirs
<1>7. \A x \in Path : Writers(x) = {}
  BY <1>2, <1>4 DEF Writers
<1>8. Absent /\ Settled
  BY <1>1, <1>3, <1>7 DEF Absent, Settled
<1>9. SeenCurrent
  BY <1>2 DEF SeenCurrent
<1>10. ASSUME NEW p \in Proc PROVE ReaderInv(p)
  BY <1>2, <1>4 DEF ReaderInv, OpShape, IsReading, Watches, Buffered, Returns, Faithful
<1>. QED
  BY <1>6, <1>8, <1>9, <1>10 DEF ReadInv, TreeInv

\* Every step keeps the invariant.
LEMMA NextRead == StoreInv /\ ReadInv /\ [StoreNext]_storeVars => ReadInv'
<1>. SUFFICES ASSUME StoreInv, ReadInv, [StoreNext]_storeVars PROVE ReadInv'
  OBVIOUS
<1>1. CASE UNCHANGED storeVars
  <2>. USE <1>1 DEF storeVars
  <2>1. \A x : Writers(x)' = Writers(x)
    BY DEF Writers, Target, Current
  <2>2. \A x : View(x)' = View(x)
    <3>1. \A x : {io'[p].doc : p \in Writers(x)'} = {io[p].doc : p \in Writers(x)}
      BY <2>1
    <3>. QED
      BY <2>1, <3>1, SMTT(30) DEF View
  <2>3. TreeInv'
    BY <2>1, <2>2 DEF ReadInv, TreeInv, FilesHaveDirs, Absent, Settled, SeenCurrent
  <2>4. \A p \in Proc : ReaderInv(p)'
    BY Untouched DEF ReadInv
  <2>. QED
    BY <2>3, <2>4 DEF ReadInv
<1>2. ASSUME NEW p \in Proc, SysCall(p) PROVE ReadInv'
  BY <1>2, MkdirAllRead, OpenTruncRead, WriteBlocksRead, CloseRead, ReaderStep DEF SysCall
<1>3. ASSUME NEW p \in Proc, SysFault(p) PROVE ReadInv'
  BY <1>3, WriteErrorRead, ReaderStep DEF SysFault
<1>. QED
  BY <1>1, <1>2, <1>3, CallRead, ReturnRead, CrashRead DEF StoreNext

-----------------------------------------------------------------------------
(***************************************************************************)
(* Theorems                                                                *)
(***************************************************************************)

\* In every state of filestore.go under any clients, what each reader has read
\* and returned is accounted for by what its files have held.
THEOREM ReadInvariance == StoreSpec => [](StoreInv /\ ReadInv)
<1>1. StoreInit => StoreInv /\ ReadInv
  BY InitInv, InitRead
<1>2. (StoreInv /\ ReadInv) /\ [StoreNext]_storeVars => (StoreInv /\ ReadInv)'
  BY NextInv, NextRead
<1>. QED
  BY <1>1, <1>2, PTL DEF StoreSpec

\* The parts of a read's invariant that its caller relies on.
LEMMA ReadFromInv == StoreInv /\ ReadInv => NoStaleRead /\ UndisturbedRead
<1>. SUFFICES ASSUME StoreInv, ReadInv PROVE NoStaleRead /\ UndisturbedRead
  OBVIOUS
<1>1. ASSUME NEW p \in Proc, ReadReturned(p)
      PROVE  /\ IsReading(io[p]) /\ io[p].pc = "done" /\ ReaderInv(p)
             /\ io[p] \in Op /\ OpShape(io[p])
             /\ \A x \in Path : Asks(io[p], x) => x[1] = io[p].dir
             /\ \A x \in Path : io[p].op = "get" => (Asks(io[p], x) <=> x = Target(p))
             /\ DOMAIN io[p].got = 1..Len(io[p].got)
  <2>1. io[p] \in Op /\ OpShape(io[p]) /\ ReaderInv(p) /\ io[p].pc = "done"
    BY <1>1 DEF StoreInv, StoreTypeOK, ReadInv, ReaderInv, ReadReturned
  <2>2. IsReading(io[p])
    BY <1>1 DEF ReadReturned, IsReading
  <2>3. io[p].got \in Seq(Result)
    BY <2>1 DEF Op
  <2>. QED
    BY <2>1, <2>2, <2>3, GetAsks DEF Asks
<1>2. NoStaleRead
  <2>. SUFFICES ASSUME NEW p \in Proc, ReadReturned(p), io[p].kind \in {"groups", "profiles"},
                       NEW i \in DOMAIN io[p].got
                PROVE  \E x \in Path :
                         /\ IF io[p].op = "list" THEN x[1] = io[p].dir ELSE x = Target(p)
                         /\ \E d \in Found(seen[p][x]) : io[p].got[i] = ParseDoc(io[p].kind, d)
    BY DEF NoStaleRead
  <2>1. i \in 1..Len(io[p].got)
    BY <1>1
  <2>2. PICK x \in Path : /\ Asks(io[p], x)
                          /\ \E d \in Found(seen[p][x]) : io[p].got[i] = ParseDoc(io[p].kind, d)
    BY <1>1, <2>1 DEF ReaderInv, Returns
  <2>. QED
    BY <1>1, <2>2 DEF ReadReturned
<1>3. UndisturbedRead
  <2>. SUFFICES ASSUME NEW p \in Proc, NEW x \in Path, ReadReturned(p), x[1] = io[p].dir
                PROVE
      /\ (seen[p][x] = {NoFile} /\ io[p].op = "get" /\ Target(p) = x) => io[p].err
      /\ \A d \in seen[p][x] \cap Doc :
           seen[p][x] = {d} =>
             LET r == ParseDoc(io[p].kind, d)
             IN  IF io[p].op = "list"
                 THEN r # Failed => \E i \in DOMAIN io[p].got : io[p].got[i] = r
                 ELSE Target(p) = x => /\ io[p].err = (r = Failed)
                                       /\ r # Failed => io[p].got = <<r>>
    BY DEF UndisturbedRead
  <2>1. Faithful(io[p], x, seen[p])
    BY <1>1 DEF ReaderInv
  <2>2. io[p].op = "list" \/ Target(p) = x => Asks(io[p], x)
    BY <1>1 DEF ReadReturned, Asks
  <2>. QED
    BY <1>1, <2>1, <2>2 DEF Faithful, ReadReturned
<1>. QED
  BY <1>2, <1>3

\* What GroupGet, GroupList, ProfileGet and ProfileList return was in the file
\* since the caller asked, all of it: it is a document that was there or was
\* being put meanwhile or, only of a file that was torn meanwhile, is made of
\* blocks of such documents.  This holds for any way in which bytes of several
\* documents may parse, any sizes, ids that lead to other directories, and any
\* number of concurrent requests.
THEOREM NoStaleReadCorrect == StoreSpec => []NoStaleRead
BY ReadInvariance, ReadFromInv, PTL

\* A get or list of filestore.go returns a file that nobody writes meanwhile
\* for what it is, and the error of one that is missing.
THEOREM UndisturbedReadCorrect == StoreSpec => []UndisturbedRead
BY ReadInvariance, ReadFromInv, PTL

=============================================================================
