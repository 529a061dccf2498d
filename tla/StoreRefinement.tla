--------------------------- MODULE StoreRefinement ---------------------------
(***************************************************************************)
(* The file store implements the registers of Store: the refinement        *)
(* mapping forgets directories, blocks, offsets and buffers, and keeps of  *)
(* each path what a reader may find there.                                 *)
(***************************************************************************)
EXTENDS FileStore

\* Documents and the three signs a reader may meet, without the blocks.
Known(S) == S \ {Hole, NoDoc}

\* How far the operation of p has got, as its caller sees it.
PhaseOf(p) ==
  IF io[p].pc \in {"idle", "done"} THEN io[p].pc
  ELSE IF io[p].pc = "write" THEN "writing" ELSE "asked"

\* The operation itself, and its result once there is one.
CallOf(p) ==
  LET o == io[p]
      going == o.pc \notin {"idle", "done"}
  IN  [op |-> o.op,
       kind |-> IF o.op \in {"get", "list"} THEN o.kind ELSE "none",
       paths |-> IF o.op = "list" THEN DirPaths(o.dir)
                 ELSE IF o.op = "get" \/ (o.op = "put" /\ going) THEN {Target(p)} \cap Path
                 ELSE {},
       doc |-> o.doc,
       got |-> IF going THEN <<>> ELSE o.got,
       err |-> o.err]

holdsMap == [x \in Path |-> Known(View(x))]

phaseMap == [p \in Proc |-> PhaseOf(p)]

callMap == [p \in Proc |-> CallOf(p)]

mayMap == [p \in Proc |-> [x \in Path |-> Known(seen[p][x])]]

JsonKind == {"groups", "profiles"}

Registers ==
  INSTANCE Store WITH
    Caller <- Proc, Kind <- Dirs, Json <- JsonKind, Result <- ParseDoc,
    holds <- holdsMap, doubtful <- spoiled, phase <- phaseMap,
    call <- callMap, may <- mayMap

\* Every behaviour of filestore.go is one of the registers that storage.go
\* promises: a put replaces a document in two steps, a read answers for a
\* moment since it was asked, a list leaves out nothing that was there all
\* along, and only overlapping, failed or interrupted puts leave a doubt.
ImplementsStore == Registers!Spec

=============================================================================
