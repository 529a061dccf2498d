------------------------------ MODULE FileStore ------------------------------
(***************************************************************************)
(* The file store of bootcfg/storage (filestore.go over fs.go): groups,    *)
(* profiles and templates are files of one directory tree, and every store *)
(* operation runs on the goroutine of its request with no lock, no         *)
(* temporary file and no rename.  The unit of interleaving is the system   *)
(* call: ioutil.WriteFile truncates the file when it opens it and writes   *)
(* afterwards, ioutil.ReadFile reads until end of file in as many calls as *)
(* it takes, and a list reads the directory first and each file later.     *)
(*                                                                         *)
(* A file's content is a sequence of blocks.  Every write starts at offset *)
(* zero, so the i-th block of a file is the i-th block of the document     *)
(* that was last written there, and is represented by that document; a     *)
(* write behind the end of a file that was truncated meanwhile leaves a    *)
(* Hole.  Bytes of several documents may decode to yet another one, which  *)
(* nobody wrote: Mixed says to which.                                      *)
(*                                                                         *)
(* Ids and template names are joined to a directory without being looked   *)
(* at: most are plain names of files there, others ("../profiles/a") lead  *)
(* to a file of another directory.  Names that lead out of the five        *)
(* directories, or that make a directory of a file, are PathTree's.        *)
(***************************************************************************)
EXTENDS Storagepb

CONSTANTS
  Proc,         \* request goroutines
  Template,     \* contents of Ignition, Cloud-Config and generic templates
  Name,         \* the ids and template names that are plain names of files
  Alias,        \* the files that the other ones, joined to a directory, lead to
  Size(_),      \* blocks a document takes on disk
  Mixed,        \* pairs <<D, d>>: blocks of the documents D, put together, may
                \* happen to be document d
  Hole,         \* the zeros of a sparse block
  NoDoc,        \* no document: nothing written yet
  Torn,         \* (history) the file may be anything but one whole document
  NoFile,       \* (history) the file does not exist
  Faults,       \* TRUE when system calls may fail and the process may crash
  Tree,         \* initial trees: functions from some paths to documents
  GroupIn,      \* groups and profiles that clients put
  ProfileIn,
  TemplateIn,   \* directories, names and contents of templates they put
  GetIn,        \* directories and names that clients get
  ListIn        \* directories that clients list

Dirs == {"groups", "profiles", "ignition", "cloud", "generic"}

Path == Dirs \X Name

DirPaths(dir) == {x \in Path : x[1] = dir}

Doc == RichGroup \cup Profile \cup Template

Block == Doc \cup {Hole}

\* The blocks of a whole document.
Image(d) == [i \in 1..Size(d) |-> d]

\* filepath.Join and Dir.sanitize: the file of an id or name n of a directory.
Place(dir, n) == IF n \in Name \cup {NoId} THEN <<dir, n>> ELSE Alias[<<dir, n>>]

ASSUME NameAssumption ==
  /\ Name \subseteq Id
  /\ Alias \in [Dirs \X (Id \ Name) -> Path]

ASSUME StoreAssumption ==
  /\ OtherJSON \subseteq Template
  /\ \A d \in Doc : Size(d) \in Nat
  /\ \A d \in RichGroup \cup Profile \cup OtherJSON : Size(d) > 0
  /\ {Hole, NoDoc, Torn, NoFile} \cap Doc = {}
  /\ Hole \notin {NoDoc, Torn, NoFile} /\ NoDoc \notin {Torn, NoFile} /\ Torn # NoFile
  /\ Faults \in BOOLEAN

\* A part of one document is no JSON object: it takes two to make another.
ASSUME MixedAssumption ==
  /\ Mixed \subseteq (SUBSET Doc) \X Doc
  /\ \A m \in Mixed : \E d, e \in m[1] : d # e

\* The content of a template is no error.
ASSUME ResultAssumption == Failed \notin [bytes : Seq(Block)]

ASSUME InputAssumption ==
  /\ \A t \in Tree : DOMAIN t \subseteq Path /\ \A x \in DOMAIN t : t[x] \in Doc
  /\ GroupIn \subseteq Group
  /\ ProfileIn \subseteq Profile
  /\ TemplateIn \subseteq {"ignition", "cloud"} \X Id \X Template
  /\ GetIn \subseteq Dirs \X (Id \cup {NoId})
  /\ ListIn \subseteq {"groups", "profiles"}

VARIABLES
  dirs,         \* directories that exist
  created,      \* files that exist
  files,        \* content of every file
  io,           \* per goroutine, the store operation it is in
  \* history, read by the properties only:
  last,         \* document of the last acknowledged put of each path
  spoiled,      \* paths whose puts overlapped, failed or crashed
  seen          \* per goroutine and path, what the file held since it asked

storeVars == <<dirs, created, files, io, last, spoiled, seen>>

Idle ==
  [pc |-> "idle", op |-> "none", kind |-> "groups", dir |-> "groups", todo |-> {},
   doc |-> NoDoc, off |-> 0, buf |-> <<>>, got |-> <<>>, err |-> FALSE]

\* The file an operation works on: the only name of a put or a get, the
\* alphabetically first of the names a list has left.
Current(p) == CHOOSE n \in io[p].todo : \A m \in io[p].todo : n <= m

Target(p) == <<io[p].dir, Current(p)>>

\* Goroutines that have path x open for writing.
Writers(x) == {p \in Proc : io[p].pc = "write" /\ Target(p) = x}

\* What a goroutine that asks now may read of path x without being stale.
View(x) ==
  IF x \notin created THEN {NoFile}
  ELSE {last[x]} \cup {files[x][i] : i \in DOMAIN files[x]}
       \cup {io[p].doc : p \in Writers(x)}
       \cup (IF x \in spoiled \/ Writers(x) # {} THEN {Torn} ELSE {})

\* From now on p may read the paths X.
Watch(p, X) ==
  seen' = [seen EXCEPT ![p] = [x \in Path |-> IF x \in X THEN View(x) ELSE {}]]

\* The system calls of p fail: it can no longer tell what path x holds.
Disturb(p, X) ==
  seen' = [seen EXCEPT ![p] =
             [x \in Path |-> IF x \in X THEN seen[p][x] \cup {Torn} ELSE seen[p][x]]]

-----------------------------------------------------------------------------
(***************************************************************************)
(* Starting an operation                                                   *)
(***************************************************************************)

\* Document d is to be written to path x.
StartWrite(p, x, d) ==
  io' = [io EXCEPT ![p] =
           [Idle EXCEPT !.pc = "mkdir", !.op = "put", !.dir = x[1], !.todo = {x[2]},
                        !.doc = d]]

\* Path x is to be read, and its bytes taken for a document of this kind.
StartGet(p, kind, x) ==
  io' = [io EXCEPT ![p] =
           [Idle EXCEPT !.pc = "read", !.op = "get", !.kind = kind, !.dir = x[1],
                        !.todo = {x[2]}]]

StartList(p, dir) ==
  io' = [io EXCEPT ![p] =
           [Idle EXCEPT !.pc = "readdir", !.op = "list", !.kind = dir, !.dir = dir]]

\* A put returns, with an error or nil.
PutReturns(p, dir, err) ==
  io' = [io EXCEPT ![p] =
           [Idle EXCEPT !.pc = "done", !.op = "put", !.dir = dir, !.err = err]]

GroupPut(p, g) ==
  LET rg == ToRichGroup(g)
  IN  IF rg = Failed THEN PutReturns(p, "groups", TRUE)
      ELSE StartWrite(p, Place("groups", g.id), MarshalRichGroup(rg))

GroupGet(p, id) == StartGet(p, "groups", Place("groups", id))

GroupList(p) == StartList(p, "groups")

ProfilePut(p, prof) == StartWrite(p, Place("profiles", prof.id), prof)

ProfileGet(p, id) == StartGet(p, "profiles", Place("profiles", id))

ProfileList(p) == StartList(p, "profiles")

IgnitionPut(p, name, t) == StartWrite(p, Place("ignition", name), t)

IgnitionGet(p, name) == StartGet(p, "ignition", Place("ignition", name))

CloudPut(p, name, t) == StartWrite(p, Place("cloud", name), t)

CloudGet(p, name) == StartGet(p, "cloud", Place("cloud", name))

GenericGet(p, name) == StartGet(p, "generic", Place("generic", name))

-----------------------------------------------------------------------------
(***************************************************************************)
(* Dir.writeFile: os.MkdirAll, then ioutil.WriteFile                       *)
(***************************************************************************)

MkdirAll(p) ==
  /\ io[p].pc = "mkdir"
  /\ dirs' = dirs \cup {io[p].dir}
  /\ io' = [io EXCEPT ![p].pc = "open"]
  /\ UNCHANGED <<created, files, last, spoiled, seen>>

\* Mutant: open without O_TRUNC.
OpenKeeps(p) ==
  LET x == Target(p)
  IN  /\ io[p].pc = "open"
      /\ created' = created \cup {x}
      /\ io' = [io EXCEPT ![p].pc = "write"]
      /\ spoiled' = IF Writers(x) # {} THEN spoiled \cup {x} ELSE spoiled \ {x}
      /\ seen' = [q \in Proc |->
                    [seen[q] EXCEPT ![x] =
                       IF seen[q][x] = {} THEN {} ELSE @ \cup {Torn, io[p].doc}]]
      /\ UNCHANGED <<dirs, files, last>>

\* open(O_WRONLY|O_CREATE|O_TRUNC)
OpenTrunc(p) ==
  LET x == Target(p)
  IN  /\ io[p].pc = "open"
      /\ created' = created \cup {x}
      /\ files' = [files EXCEPT ![x] = <<>>]
      /\ io' = [io EXCEPT ![p].pc = "write"]
      /\ spoiled' = IF Writers(x) # {} THEN spoiled \cup {x} ELSE spoiled \ {x}
      /\ seen' = [q \in Proc |->
                    [seen[q] EXCEPT ![x] =
                       IF seen[q][x] = {} THEN {} ELSE @ \cup {Torn, io[p].doc}]]
      /\ UNCHANGED <<dirs, last>>

\* The bytes of a file after blocks lo+1..hi of document d were written to it.
Overlay(c, lo, hi, d) ==
  [i \in 1..(IF hi > Len(c) THEN hi ELSE Len(c)) |->
     IF lo < i /\ i <= hi THEN d ELSE IF i <= Len(c) THEN c[i] ELSE Hole]

\* write(2): some blocks more, at this writer's own offset.
WriteBlocks(p) ==
  LET x == Target(p)
  IN  /\ io[p].pc = "write"
      /\ \E k \in (io[p].off + 1)..Size(io[p].doc) :
           /\ files' = [files EXCEPT ![x] = Overlay(@, io[p].off, k, io[p].doc)]
           /\ io' = [io EXCEPT ![p].off = k]
      /\ UNCHANGED <<dirs, created, last, spoiled, seen>>

\* Mutant: a short write is taken for the whole.
CloseShort(p) ==
  /\ io[p].pc = "write"
  /\ last' = [last EXCEPT ![Target(p)] = io[p].doc]
  /\ PutReturns(p, io[p].dir, FALSE)
  /\ UNCHANGED <<dirs, created, files, spoiled, seen>>

\* All bytes are written and the file is closed: the put returns nil.
CloseFile(p) ==
  /\ io[p].pc = "write"
  /\ io[p].off = Size(io[p].doc)
  /\ last' = [last EXCEPT ![Target(p)] = io[p].doc]
  /\ PutReturns(p, io[p].dir, FALSE)
  /\ UNCHANGED <<dirs, created, files, spoiled, seen>>

\* mkdir, open, write or close fails and the put returns the error; what was
\* written stays.
WriteError(p) ==
  /\ Faults
  /\ io[p].pc \in {"mkdir", "open", "write"}
  /\ spoiled' = IF io[p].pc = "write" THEN spoiled \cup {Target(p)} ELSE spoiled
  /\ PutReturns(p, io[p].dir, TRUE)
  /\ UNCHANGED <<dirs, created, files, last, seen>>

-----------------------------------------------------------------------------
(***************************************************************************)
(* Dir.readDir and Dir.readFile, and the Get and List operations over them *)
(***************************************************************************)

\* Bytes that are exactly one document.
Whole(c) == c # <<>> /\ c[1] # Hole /\ c = Image(c[1])

\* The documents that blocks of the documents D may make together.
Mixture(D) == {m[2] : m \in {m \in Mixed : m[1] \subseteq D}}

\* The documents that bytes c may decode to: the one they are, or whatever the
\* pieces happen to make; none when there is a hole.
Decodings(c) ==
  LET D == {c[i] : i \in DOMAIN c}
  IN  IF Whole(c) THEN {c[1]} ELSE IF Hole \in D THEN {} ELSE Mixture(D)

\* What a Get of this kind makes of the bytes of document d: templates are
\* returned as they are.
ParseDoc(kind, d) ==
  IF kind = "groups" THEN ParseGroup(d)
  ELSE IF kind = "profiles" THEN ParseProfile(d)
  ELSE [bytes |-> Image(d)]

\* What a Get of this kind may make of the bytes it read.
Parse(kind, c) ==
  IF kind \notin {"groups", "profiles"} THEN {[bytes |-> c]}
  ELSE {ParseDoc(kind, d) : d \in Decodings(c)} \cup (IF Whole(c) THEN {} ELSE {Failed})

ReadDir(p) ==
  /\ io[p].pc = "readdir"
  /\ io' = [io EXCEPT ![p] =
              IF io[p].dir \in dirs
              THEN [@ EXCEPT !.pc = "read",
                             !.todo = {n \in Name : <<io[p].dir, n>> \in created}]
              ELSE [@ EXCEPT !.pc = "done", !.err = TRUE]]
  /\ UNCHANGED <<dirs, created, files, last, spoiled, seen>>

\* The file has more bytes than were read so far: read(2) returns some.
ReadBlocks(p) ==
  LET x == Target(p)
  IN  /\ io[p].pc = "read" /\ io[p].todo # {}
      /\ x \in created
      /\ \E k \in (Len(io[p].buf) + 1)..Len(files[x]) :
           io' = [io EXCEPT ![p].buf = @ \o SubSeq(files[x], Len(@) + 1, k)]
      /\ UNCHANGED <<dirs, created, files, last, spoiled, seen>>

\* Mutant: a list returns at the first file it cannot parse.
FileReadStops(p, r) ==
  LET goOn == io[p].op = "list" /\ r # Failed
  IN  io' = [io EXCEPT ![p].pc = IF goOn THEN "read" ELSE "done",
                       ![p].todo = IF goOn THEN @ \ {Current(p)} ELSE @,
                       ![p].buf = <<>>,
                       ![p].got = IF r = Failed THEN @ ELSE Append(@, r),
                       ![p].err = io[p].op # "list" /\ r = Failed]

\* Mutant: a list decodes every file into one variable, so that a field that a
\* document leaves out keeps the value of the document before.
FileReadReuses(p, r) ==
  LET inList == io[p].op = "list"
      got == io[p].got
      kept == IF r # Failed /\ inList /\ got # <<>> /\ r.metadata = NoBytes
              THEN [r EXCEPT !.metadata = got[Len(got)].metadata] ELSE r
  IN  io' = [io EXCEPT ![p].pc = IF inList THEN "read" ELSE "done",
                       ![p].todo = IF inList THEN @ \ {Current(p)} ELSE @,
                       ![p].buf = <<>>,
                       ![p].got = IF r = Failed THEN @ ELSE Append(@, kept),
                       ![p].err = ~inList /\ r = Failed]

\* p has result r for its current file: a get returns it, a list keeps it, or
\* drops the file when r is an error, and goes on.
FileRead(p, r) ==
  LET inList == io[p].op = "list"
  IN  io' = [io EXCEPT ![p].pc = IF inList THEN "read" ELSE "done",
                       ![p].todo = IF inList THEN @ \ {Current(p)} ELSE @,
                       ![p].buf = <<>>,
                       ![p].got = IF r = Failed THEN @ ELSE Append(@, r),
                       ![p].err = ~inList /\ r = Failed]

\* Mutant: one read(2) is taken for the whole file.
ReadOnce(p) ==
  LET x == Target(p)
  IN  /\ io[p].pc = "read" /\ io[p].todo # {}
      /\ x \in created
      /\ \E r \in Parse(io[p].kind, io[p].buf) : FileRead(p, r)
      /\ UNCHANGED <<dirs, created, files, last, spoiled, seen>>

\* End of file: the bytes are parsed.
ReadEOF(p) ==
  LET x == Target(p)
  IN  /\ io[p].pc = "read" /\ io[p].todo # {}
      /\ x \in created
      /\ Len(files[x]) <= Len(io[p].buf)
      /\ \E r \in Parse(io[p].kind, io[p].buf) : FileRead(p, r)
      /\ UNCHANGED <<dirs, created, files, last, spoiled, seen>>

\* open fails because there is no such file.
ReadMissing(p) ==
  /\ io[p].pc = "read" /\ io[p].todo # {}
  /\ Target(p) \notin created
  /\ FileRead(p, Failed)
  /\ UNCHANGED <<dirs, created, files, last, spoiled, seen>>

\* open or read(2) fails.
ReadError(p) ==
  /\ Faults
  /\ io[p].pc = "read" /\ io[p].todo # {}
  /\ FileRead(p, Failed)
  /\ Disturb(p, {Target(p)})
  /\ UNCHANGED <<dirs, created, files, last, spoiled>>

\* Reading the directory fails: the list returns the error.
ReadDirError(p) ==
  /\ Faults
  /\ io[p].pc = "readdir"
  /\ io' = [io EXCEPT ![p].pc = "done", ![p].err = TRUE]
  /\ Disturb(p, DirPaths(io[p].dir))
  /\ UNCHANGED <<dirs, created, files, last, spoiled>>

\* A list has read every file it found.
ListDone(p) ==
  /\ io[p].pc = "read" /\ io[p].todo = {}
  /\ io' = [io EXCEPT ![p].pc = "done"]
  /\ UNCHANGED <<dirs, created, files, last, spoiled, seen>>

-----------------------------------------------------------------------------
(***************************************************************************)
(* The store alone, under every client                                     *)
(***************************************************************************)

\* Whole files laid out by hand before the process starts; the directories
\* may exist without them.
StoreInit ==
  /\ io = [p \in Proc |-> Idle]
  /\ spoiled = {}
  /\ seen = [p \in Proc |-> [x \in Path |-> {}]]
  /\ \E t \in Tree :
       /\ created = DOMAIN t
       /\ files = [x \in Path |-> IF x \in DOMAIN t THEN Image(t[x]) ELSE <<>>]
       /\ last = [x \in Path |-> IF x \in DOMAIN t THEN t[x] ELSE NoDoc]
       /\ dirs \in {Dirs, {x[1] : x \in DOMAIN t}}

\* A client's call of one store operation, with the arguments server.go
\* lets through.
Asking(p) == io[p].pc = "idle" /\ UNCHANGED <<dirs, created, files, last, spoiled>>

AskingToPut(p) == Asking(p) /\ UNCHANGED seen

AskingToRead(p, X) == Asking(p) /\ Watch(p, X)

CallGroupPut(p) ==
  AskingToPut(p) /\ \E g \in GroupIn : GroupAssertValid(g) /\ GroupPut(p, g)

CallGroupGet(p) ==
  \E x \in GetIn : x[1] = "groups" /\ AskingToRead(p, {Place(x[1], x[2])}) /\ GroupGet(p, x[2])

CallGroupList(p) ==
  "groups" \in ListIn /\ AskingToRead(p, DirPaths("groups")) /\ GroupList(p)

\* Mutant: the profile is not validated.
CallProfilePutUnchecked(p) ==
  AskingToPut(p) /\ \E f \in ProfileIn : ProfilePut(p, f)

CallProfilePut(p) ==
  AskingToPut(p) /\ \E f \in ProfileIn : ProfileAssertValid(f) /\ ProfilePut(p, f)

CallProfileGet(p) ==
  \E x \in GetIn : x[1] = "profiles" /\ AskingToRead(p, {Place(x[1], x[2])}) /\ ProfileGet(p, x[2])

CallProfileList(p) ==
  "profiles" \in ListIn /\ AskingToRead(p, DirPaths("profiles")) /\ ProfileList(p)

CallIgnitionPut(p) ==
  AskingToPut(p) /\ \E t \in TemplateIn : t[1] = "ignition" /\ IgnitionPut(p, t[2], t[3])

CallIgnitionGet(p) ==
  \E x \in GetIn : x[1] = "ignition" /\ AskingToRead(p, {Place(x[1], x[2])}) /\ IgnitionGet(p, x[2])

CallCloudPut(p) ==
  AskingToPut(p) /\ \E t \in TemplateIn : t[1] = "cloud" /\ CloudPut(p, t[2], t[3])

CallCloudGet(p) ==
  \E x \in GetIn : x[1] = "cloud" /\ AskingToRead(p, {Place(x[1], x[2])}) /\ CloudGet(p, x[2])

CallGenericGet(p) ==
  \E x \in GetIn : x[1] = "generic" /\ AskingToRead(p, {Place(x[1], x[2])}) /\ GenericGet(p, x[2])

\* The operation returns to its caller.
Return(p) ==
  /\ io[p].pc = "done"
  /\ io' = [io EXCEPT ![p] = Idle]
  /\ seen' = [seen EXCEPT ![p] = [x \in Path |-> {}]]
  /\ UNCHANGED <<dirs, created, files, last, spoiled>>

\* The process dies and starts again on what its system calls left behind.
Crash ==
  /\ Faults
  /\ io' = [p \in Proc |-> Idle]
  /\ seen' = [p \in Proc |-> [x \in Path |-> {}]]
  /\ spoiled' = spoiled \cup {x \in Path : Writers(x) # {}}
  /\ UNCHANGED <<dirs, created, files, last>>

\* One system call of p that does what it is asked to.
SysCall(p) ==
  \/ MkdirAll(p) \/ OpenTrunc(p) \/ WriteBlocks(p) \/ CloseFile(p)
  \/ ReadDir(p) \/ ReadBlocks(p) \/ ReadEOF(p) \/ ReadMissing(p) \/ ListDone(p)

SysFault(p) == WriteError(p) \/ ReadError(p) \/ ReadDirError(p)

Call(p) ==
  \/ CallGroupPut(p) \/ CallGroupGet(p) \/ CallGroupList(p)
  \/ CallProfilePut(p) \/ CallProfileGet(p) \/ CallProfileList(p)
  \/ CallIgnitionPut(p) \/ CallIgnitionGet(p)
  \/ CallCloudPut(p) \/ CallCloudGet(p) \/ CallGenericGet(p)

StoreNext ==
  \/ \E p \in Proc : Call(p) \/ SysCall(p) \/ SysFault(p) \/ Return(p)
  \/ Crash

StoreSpec == StoreInit /\ [][StoreNext]_storeVars

-----------------------------------------------------------------------------
(***************************************************************************)
(* Properties                                                              *)
(***************************************************************************)

\* What a read returns: a group, a profile or the bytes of a template.
Result == Group \cup Profile \cup [bytes : Seq(Block)]

Op ==
  [pc : {"idle", "mkdir", "open", "write", "readdir", "read", "done"},
   op : {"none", "put", "get", "list"}, kind : Dirs, dir : Dirs,
   todo : SUBSET (Name \cup {NoId}), doc : Doc \cup {NoDoc}, off : Nat,
   buf : Seq(Block), got : Seq(Result), err : BOOLEAN]

\* What each goroutine may have seen of each path.
SeenType == [Proc -> [Path -> SUBSET (Block \cup {NoDoc, Torn, NoFile})]]

\* Types: every file that a put creates has a name of its own in one of the
\* five directories, whatever id it was put under, and is made of blocks of
\* documents; a read returns groups, profiles or bytes.
StoreTypeOK ==
  /\ dirs \subseteq Dirs
  /\ created \subseteq Path
  /\ spoiled \subseteq Path
  /\ files \in [Path -> Seq(Block)]
  /\ last \in [Path -> Doc \cup {NoDoc}]
  /\ io \in [Proc -> Op]
  /\ seen \in SeenType

\* A path whose puts never overlapped, failed or crashed since it was last
\* opened alone holds, between puts, exactly the document last acknowledged
\* by GroupPut, ProfilePut, IgnitionPut or CloudPut (or laid out by hand):
\* nothing of an older and longer document survives, nothing is missing.
Healthy ==
  \A x \in created \ spoiled : Writers(x) = {} => files[x] = Image(last[x])

\* A put on its way through writeFile has one file to write and has not gone
\* past the end of its document.
OpWellFormed(o) ==
  o.pc \in {"mkdir", "open", "write"} =>
    /\ \E n \in Name : o.todo = {n}
    /\ o.doc \in Doc
    /\ o.off <= Size(o.doc)
    /\ o.pc # "write" => o.off = 0

PutWellFormed == \A p \in Proc : OpWellFormed(io[p])

\* While a put runs on a path that no other put has overlapped, the file holds
\* exactly what this put has written so far: ioutil.WriteFile, left alone, only
\* ever shows readers a prefix of its document.
PutAlone ==
  \A x \in Path \ spoiled :
    /\ \A p, q \in Writers(x) : p = q
    /\ \A p \in Writers(x) : files[x] = [i \in 1..io[p].off |-> io[p].doc]

\* The inductive invariant behind Healthy.
StoreInv == StoreTypeOK /\ PutWellFormed /\ PutAlone /\ Healthy

\* A read operation of p that has returned.
ReadReturned(p) == io[p].pc = "done" /\ io[p].op \in {"get", "list"}

\* The documents that a path may have decoded to while it held S: the ones it
\* held and, only if it was torn meanwhile, what their blocks make together.
Found(S) == (S \cap Doc) \cup (IF Torn \in S THEN Mixture(S \cap Doc) ELSE {})

\* The result of a read is never older than the request.  What GroupGet,
\* GroupList, ProfileGet and ProfileList return is a document that the file
\* held when the caller asked or whose put ran meanwhile, or was put together
\* from blocks of such documents only, and that only if some put of this file
\* was under way while the caller read, or overlapped, failed or died before.
NoStaleRead ==
  \A p \in Proc :
    ReadReturned(p) /\ io[p].kind \in {"groups", "profiles"} =>
      \A i \in DOMAIN io[p].got :
        \E x \in Path :
          /\ IF io[p].op = "list" THEN x[1] = io[p].dir ELSE x = Target(p)
          /\ \E d \in Found(seen[p][x]) : io[p].got[i] = ParseDoc(io[p].kind, d)

\* A file that nobody wrote while a caller was reading, and whose own system
\* calls did not fail, is read for what it is: a get returns the parsed
\* document (or its error), a get of a missing file fails, and a list holds
\* the document whatever becomes of the other files of the directory.
UndisturbedRead ==
  \A p \in Proc, x \in Path :
    ReadReturned(p) /\ x[1] = io[p].dir =>
      /\ (seen[p][x] = {NoFile} /\ io[p].op = "get" /\ Target(p) = x) => io[p].err
      /\ \A d \in seen[p][x] \cap Doc :
           seen[p][x] = {d} =>
             LET r == ParseDoc(io[p].kind, d)
             IN  IF io[p].op = "list"
                 THEN r # Failed => \E i \in DOMAIN io[p].got : io[p].got[i] = r
                 ELSE Target(p) = x => /\ io[p].err = (r = Failed)
                                       /\ r # Failed => io[p].got = <<r>>

\* The claim of storage.go:16-26 and TestGroupPut that a group, once put,
\* can be read back by its id.
AcknowledgedReadable ==
  \A x \in created \ spoiled :
    Writers(x) = {} => Failed \notin Parse(x[1], files[x])

\* The claim of storage.go:16-26 that a put creates or updates the document:
\* when no put is running and none has failed, every file of groups/ and
\* profiles/ is some whole document.
PutsLeaveDocuments ==
  \A x \in created :
    x[1] \in {"groups", "profiles"} /\ Writers(x) = {} => Whole(files[x])

=============================================================================
