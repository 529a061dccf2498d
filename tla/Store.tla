-------------------------------- MODULE Store --------------------------------
(***************************************************************************)
(* What a client of bootcfg/storage may rely on: the Store interface of    *)
(* storage.go as a set of registers, one per path, with no word about      *)
(* system calls, blocks or directories.  FileStore implements it.          *)
(*                                                                         *)
(* The registers are weaker than atomic ones, and this module says by how  *)
(* much.  A put takes effect in two steps, between which the path is Torn. *)
(* Puts of one path that overlap, fail or die leave it in doubt until a    *)
(* put has it to itself.  A read answers for some moment since it was      *)
(* asked: with a document the path held or was being given, with an error  *)
(* or a mixture of such documents only if the path was missing or torn,    *)
(* and a list leaves out no path whose document was there all along.       *)
(***************************************************************************)
EXTENDS Naturals, Sequences

CONSTANTS
  Caller,       \* goroutines that call the store
  Path,         \* pairs of a directory and a name
  Doc,          \* whole documents
  Kind,         \* what the bytes of a path may be read as; also the directories
  Json,         \* kinds that are decoded
  Mixture(_),   \* documents that pieces of several documents may decode to
  NoDoc,
  NoFile,       \* the path does not exist
  Torn,         \* the path is not one whole document, or cannot be read
  Failed,       \* an error
  Result(_, _)  \* what a get of a kind returns for a whole document, or Failed

VARIABLES
  holds,        \* per path, what it may be found to hold
  doubtful,     \* paths whose puts overlapped, failed or died
  phase,        \* per caller, idle, asked, writing or done
  call,         \* per caller, the operation it is in and its result
  may           \* per caller and path, what the path may have held since asked

storeVars == <<holds, doubtful, phase, call, may>>

\* An operation that has no result yet but an error.
Request(op, kind, X, d, err) ==
  [op |-> op, kind |-> kind, paths |-> X, doc |-> d, got |-> <<>>, err |-> err]

\* The same operation with its result.
Answered(c, rs, err) ==
  [op |-> c.op, kind |-> c.kind, paths |-> c.paths, doc |-> c.doc, got |-> rs, err |-> err]

NoCall == Request("none", "none", {}, NoDoc, FALSE)

Nothing == [x \in Path |-> {}]

Init ==
  /\ holds \in [Path -> {{NoFile}} \cup {{d} : d \in Doc}]
  /\ doubtful = {}
  /\ phase = [p \in Caller |-> "idle"]
  /\ call = [p \in Caller |-> NoCall]
  /\ may = [p \in Caller |-> Nothing]

\* The callers that are writing path x.
Writing(x) == {p \in Caller : phase[p] = "writing" /\ call[p].paths = {x}}

-----------------------------------------------------------------------------
(***************************************************************************)
(* Puts                                                                    *)
(***************************************************************************)

\* p goes from one of the phases A to phase b.
Step(p, A, b) == phase[p] \in A /\ phase' = [phase EXCEPT ![p] = b]

AskPut(p) ==
  /\ Step(p, {"idle"}, "asked")
  /\ call'[p].doc \in Doc
  /\ \E x \in Path : call' = [call EXCEPT ![p] = Request("put", "none", {x}, call'[p].doc, FALSE)]
  /\ UNCHANGED <<holds, doubtful, may>>

\* A put returns.
PutReturns(p, err) ==
  call' = [call EXCEPT ![p] = Request("put", "none", {}, NoDoc, err)]

\* The document is refused before anything is written.
RefusePut(p) ==
  /\ Step(p, {"idle"}, "done")
  /\ PutReturns(p, TRUE)
  /\ UNCHANGED <<holds, doubtful, may>>

\* From here on the old document is gone for good.
BeginPut(p) ==
  /\ Step(p, {"asked"}, "writing")
  /\ call[p].op = "put"
  /\ \E x \in call[p].paths :
       LET new == {Torn, call[p].doc}
       IN  /\ doubtful' = IF Writing(x) # {} THEN doubtful \cup {x} ELSE doubtful \ {x}
           /\ new \subseteq holds'[x] /\ holds'[x] \subseteq holds[x] \cup new
           /\ \A y \in Path \ {x} : holds'[y] = holds[y]
           /\ may' = [q \in Caller |->
                        [may[q] EXCEPT ![x] = IF @ = {} THEN {} ELSE @ \cup new]]
  /\ UNCHANGED call

\* A doubtful path may be found to hold less than before, never more.
InDoubt(X) ==
  /\ \A x \in X : Torn \in holds'[x] /\ holds'[x] \subseteq holds[x]
  /\ \A y \in Path \ X : holds'[y] = holds[y]

\* Part of the document is written.
WritePut(p) ==
  /\ Step(p, {"writing"}, "writing")
  /\ InDoubt(call[p].paths)
  /\ UNCHANGED <<doubtful, call, may>>

\* Mutant: acknowledged before it is written.
EndPutUnwritten(p) ==
  /\ Step(p, {"writing"}, "done")
  /\ PutReturns(p, FALSE)
  /\ UNCHANGED <<holds, doubtful, may>>

\* The put is acknowledged.  Left to itself it has replaced the document.
EndPut(p) ==
  /\ Step(p, {"writing"}, "done")
  /\ PutReturns(p, FALSE)
  /\ \E x \in call[p].paths :
       IF x \in doubtful THEN InDoubt({x})
       ELSE holds' = [holds EXCEPT ![x] = {call[p].doc}]
  /\ UNCHANGED <<doubtful, may>>

\* The put returns an error and leaves in doubt what it had begun to write.
FailPut(p) ==
  /\ Step(p, {"asked", "writing"}, "done")
  /\ call[p].op = "put"
  /\ PutReturns(p, TRUE)
  /\ LET X == IF phase[p] = "writing" THEN call[p].paths ELSE {}
     IN  doubtful' = doubtful \cup X /\ InDoubt(X)
  /\ UNCHANGED may

-----------------------------------------------------------------------------
(***************************************************************************)
(* Gets and lists                                                          *)
(***************************************************************************)

\* One path, or none for the empty id.
OfGet == {{}} \cup {{x} : x \in Path}

\* All the paths of a directory.
OfList(dir) == {y \in Path : y[1] = dir}

AskRead(p) ==
  /\ Step(p, {"idle"}, "asked")
  /\ \E op \in {"get", "list"}, kind \in Kind :
       \E X \in (IF op = "get" THEN OfGet ELSE {OfList(kind)}) :
         /\ call' = [call EXCEPT ![p] = Request(op, kind, X, NoDoc, FALSE)]
         /\ may' = [may EXCEPT ![p] = [x \in Path |-> IF x \in X THEN holds[x] ELSE {}]]
  /\ UNCHANGED <<holds, doubtful>>

\* System calls of p fail: it cannot tell what some of its paths hold.
Disturbed(p) ==
  /\ \A x \in Path : may'[p][x] \in {may[p][x], may[p][x] \cup {Torn}}
  /\ \A q \in Caller \ {p} : may'[q] = may[q]

Disturb(p) ==
  /\ Step(p, {"asked"}, "asked")
  /\ Disturbed(p)
  /\ UNCHANGED <<holds, doubtful, call>>

\* What a read may come to when the path may have held M meanwhile.
MayReturn(M, kind, r) ==
  \/ \E d \in M \cap Doc : r = Result(kind, d)
  \/ r = Failed /\ M \cap {NoFile, Torn} # {}
  \/ /\ Torn \in M
     /\ IF kind \in Json THEN \E d \in Mixture(M \cap Doc) : r = Result(kind, d)
        ELSE r # Failed

\* A list returns one document per path at most, in the order of the paths,
\* and misses a path only if the path could have failed to be read.
MayList(M, kind, X, rs) ==
  \E f \in [DOMAIN rs -> X] :
    /\ \A i, j \in DOMAIN rs : i < j => f[i][2] < f[j][2]
    /\ \A i \in DOMAIN rs : rs[i] # Failed /\ MayReturn(M[f[i]], kind, rs[i])
    /\ \A x \in X : (\A i \in DOMAIN rs : f[i] # x) => MayReturn(M[x], kind, Failed)

MayAnswer(M, c, rs, err) ==
  IF c.op = "get"
  THEN IF err THEN \A x \in c.paths : MayReturn(M[x], c.kind, Failed)
       ELSE \E x \in c.paths : rs # <<>> /\ rs = <<rs[1]>> /\ MayReturn(M[x], c.kind, rs[1])
  ELSE IF err THEN \A x \in c.paths : M[x] \cap {NoFile, Torn} # {}
       ELSE MayList(M, c.kind, c.paths, rs)

AnswerRead(p) ==
  /\ Step(p, {"asked"}, "done")
  /\ call[p].op \in {"get", "list"}
  /\ Disturbed(p)
  /\ call' = [call EXCEPT ![p] = Answered(@, call'[p].got, call'[p].err)]
  /\ MayAnswer(may'[p], call[p], call'[p].got, call'[p].err)
  /\ UNCHANGED <<holds, doubtful>>

-----------------------------------------------------------------------------
Return(p) ==
  /\ Step(p, {"done"}, "idle")
  /\ call' = [call EXCEPT ![p] = NoCall]
  /\ may' = [may EXCEPT ![p] = Nothing]
  /\ UNCHANGED <<holds, doubtful>>

\* The process dies: every call is forgotten, paths being written are in doubt.
Restart ==
  LET X == {x \in Path : Writing(x) # {}}
  IN  /\ phase' = [p \in Caller |-> "idle"]
      /\ call' = [p \in Caller |-> NoCall]
      /\ may' = [p \in Caller |-> Nothing]
      /\ doubtful' = doubtful \cup X
      /\ InDoubt(X)

Next ==
  \/ \E p \in Caller :
       \/ AskPut(p) \/ RefusePut(p) \/ BeginPut(p) \/ WritePut(p)
       \/ EndPut(p) \/ FailPut(p)
       \/ AskRead(p) \/ Disturb(p) \/ AnswerRead(p) \/ Return(p)
  \/ Restart

Spec == Init /\ [][Next]_storeVars

=============================================================================
