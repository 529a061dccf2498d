------------------------ MODULE StoreRefinementProofs ------------------------
(***************************************************************************)
(* The proof that FileStore implements the registers of Store: every step  *)
(* of filestore.go, seen through the mapping of StoreRefinement, is a step *)
(* of the registers or none at all.  A put is followed through views; a    *)
(* list needs an invariant of its own, that the results it has so far can  *)
(* be matched, in order, with the paths it has left behind.                *)
(***************************************************************************)
EXTENDS StoreRefinement, ReadProofs

-----------------------------------------------------------------------------
(***************************************************************************)
(* The mapping                                                             *)
(***************************************************************************)

\* A step that changes no view changes nothing that the registers hold.
LEMMA SameHolds ==
  ASSUME \A x \in Path : View(x)' = View(x)
  PROVE  holdsMap' = holdsMap
BY DEF holdsMap, Known

LEMMA SameMay ==
  ASSUME seen' = seen
  PROVE  mayMap' = mayMap
BY DEF mayMap, Known

\* A step of p alone.
LEMMA OneMoves ==
  ASSUME NEW p \in Proc, \A q \in Proc \ {p} : io'[q] = io[q]
  PROVE  /\ phaseMap' = [phaseMap EXCEPT ![p] = PhaseOf(p)']
         /\ callMap' = [callMap EXCEPT ![p] = CallOf(p)']
<1>1. \A q \in Proc \ {p} : PhaseOf(q)' = PhaseOf(q)
  BY DEF PhaseOf
<1>2. \A q \in Proc \ {p} : Target(q)' = Target(q)
  BY DEF Target, Current
<1>3. \A q \in Proc \ {p} : CallOf(q)' = CallOf(q)
  BY <1>2 DEF CallOf
<1>4. phaseMap' = [phaseMap EXCEPT ![p] = PhaseOf(p)']
  BY <1>1 DEF phaseMap
<1>5. callMap' = [callMap EXCEPT ![p] = CallOf(p)']
  BY <1>3 DEF callMap
<1>. QED
  BY <1>4, <1>5

\* A put on its way, as the registers see it.
LEMMA PutCall ==
  ASSUME StoreInv, ReadInv, NEW p \in Proc, io[p].pc \in {"mkdir", "open", "write"}
  PROVE  /\ phaseMap[p] = IF io[p].pc = "write" THEN "writing" ELSE "asked"
         /\ callMap[p] = [op |-> "put", kind |-> "none", paths |-> {Target(p)}, doc |-> io[p].doc,
                          got |-> <<>>, err |-> io[p].err]
         /\ Target(p) \in Path
<1>1. io[p].op = "put"
  BY DEF ReadInv, ReaderInv, OpShape
<1>2. Target(p) \in Path
  BY PutTarget
<1>3. {Target(p)} \cap Path = {Target(p)}
  BY <1>2
<1>4. CallOf(p) = [op |-> "put", kind |-> "none", paths |-> {Target(p)}, doc |-> io[p].doc,
                   got |-> <<>>, err |-> io[p].err]
  BY <1>1, <1>3 DEF CallOf
<1>5. phaseMap[p] = IF io[p].pc = "write" THEN "writing" ELSE "asked"
  BY DEF phaseMap, PhaseOf
<1>. QED
  BY <1>2, <1>4, <1>5 DEF callMap

\* The goroutines that have a path open are the writing callers.
LEMMA WritingIsWriters ==
  ASSUME StoreInv, ReadInv, NEW x \in Path
  PROVE  Registers!Writing(x) = Writers(x)
<1>1. ASSUME NEW p \in Proc
      PROVE  (phaseMap[p] = "writing" /\ callMap[p].paths = {x})
               <=> (io[p].pc = "write" /\ Target(p) = x)
  <2>1. CASE io[p].pc = "write"
    <3>1. phaseMap[p] = "writing" /\ callMap[p].paths = {Target(p)}
      <4>1. phaseMap[p] = "writing"
        BY <2>1 DEF phaseMap, PhaseOf
      <4>2. callMap[p] = [op |-> "put", kind |-> "none", paths |-> {Target(p)}, doc |-> io[p].doc,
                          got |-> <<>>, err |-> io[p].err]
        BY <2>1, PutCall
      <4>. QED
        BY <4>1, <4>2
    <3>2. {Target(p)} = {x} <=> Target(p) = x
      OBVIOUS
    <3>. QED
      BY <2>1, <3>1, <3>2
  <2>2. CASE io[p].pc # "write"
    BY <2>2 DEF phaseMap, PhaseOf
  <2>. QED
    BY <2>1, <2>2
<1>. QED
  BY <1>1 DEF Registers!Writing, Writers

-----------------------------------------------------------------------------
(***************************************************************************)
(* Puts                                                                    *)
(***************************************************************************)

\* A put that returns, as its caller sees it.
LEMMA PutReturned ==
  ASSUME NEW p \in Proc, NEW dir, NEW err \in BOOLEAN,
         io'[p] = [Idle EXCEPT !.pc = "done", !.op = "put", !.dir = dir, !.err = err]
  PROVE  /\ PhaseOf(p)' = "done"
         /\ CallOf(p)' = Registers!Request("put", "none", {}, NoDoc, err)
<1>1. /\ io'[p].pc = "done" /\ io'[p].op = "put" /\ io'[p].doc = NoDoc
      /\ io'[p].got = <<>> /\ io'[p].err = err
  BY DEF Idle
<1>2. CallOf(p)' = Registers!Request("put", "none", {}, NoDoc, err)
  BY <1>1 DEF CallOf, Registers!Request
<1>3. PhaseOf(p)' = "done"
  BY <1>1 DEF PhaseOf
<1>. QED
  BY <1>2, <1>3

LEMMA MkdirAllMaps ==
  ASSUME StoreInv, ReadInv, NEW p \in Proc, MkdirAll(p)
  PROVE  UNCHANGED Registers!storeVars
<1>. DEFINE o == [io[p] EXCEPT !.pc = "open"]
<1>1. io[p] \in Op /\ io[p].pc = "mkdir"
  BY DEF StoreInv, StoreTypeOK, MkdirAll
<1>2. io' = [io EXCEPT ![p] = o] /\ UNCHANGED <<created, files, last, spoiled, seen>>
  BY DEF MkdirAll, StoreInv, StoreTypeOK
<1>3. /\ o.pc = "open" /\ o.op = io[p].op /\ o.kind = io[p].kind
      /\ o.dir = io[p].dir /\ o.todo = io[p].todo
      /\ o.doc = io[p].doc /\ o.got = io[p].got /\ o.err = io[p].err
  BY <1>1 DEF Op
<1>. HIDE DEF o
<1>4. holdsMap' = holdsMap /\ mayMap' = mayMap
  BY <1>1, <1>2, <1>3, QuietViews, SameHolds, SameMay
<1>5. io'[p] = o /\ \A q \in Proc \ {p} : io'[q] = io[q]
  BY <1>2 DEF StoreInv, StoreTypeOK
<1>6. Target(p)' = Target(p)
  BY <1>3, <1>5 DEF Target, Current
<1>7. PhaseOf(p)' = phaseMap[p] /\ CallOf(p)' = callMap[p]
  BY <1>1, <1>3, <1>5, <1>6 DEF PhaseOf, CallOf, phaseMap, callMap
<1>8. phaseMap' = phaseMap /\ callMap' = callMap
  BY <1>5, <1>7, OneMoves DEF phaseMap, callMap
<1>. QED
  BY <1>2, <1>4, <1>8 DEF Registers!storeVars

LEMMA OpenTruncMaps ==
  ASSUME StoreInv, ReadInv, NEW p \in Proc, OpenTrunc(p)
  PROVE  Registers!BeginPut(p)
<1>1. PICK x \in Path, d \in Doc : Opens(p, x, d)
  BY OpenEffect
<1>. DEFINE o == [io[p] EXCEPT !.pc = "write"]
<1>2. /\ phaseMap[p] = "asked"
      /\ callMap[p] = [op |-> "put", kind |-> "none", paths |-> {x}, doc |-> d, got |-> <<>>,
                      err |-> io[p].err]
  BY <1>1, PutCall DEF Opens
<1>3. io[p] \in Op /\ io'[p] = o /\ \A q \in Proc \ {p} : io'[q] = io[q]
  BY <1>1 DEF Opens, StoreInv, StoreTypeOK
<1>4. /\ o.pc = "write" /\ o.op = io[p].op /\ o.kind = io[p].kind
      /\ o.dir = io[p].dir /\ o.todo = io[p].todo
      /\ o.doc = io[p].doc /\ o.got = io[p].got /\ o.err = io[p].err
  BY <1>3 DEF Op
<1>. HIDE DEF o
<1>5. Target(p)' = Target(p) /\ PhaseOf(p)' = "writing"
  BY <1>3, <1>4 DEF Target, Current, PhaseOf
<1>6. CallOf(p)' = callMap[p]
  BY <1>1, <1>3, <1>4, <1>5 DEF CallOf, callMap, Opens
<1>7. phaseMap' = [phaseMap EXCEPT ![p] = "writing"] /\ callMap' = callMap
  BY <1>3, <1>5, <1>6, OneMoves DEF callMap
<1>8. Registers!Step(p, {"asked"}, "writing")
  BY <1>2, <1>7 DEF Registers!Step
<1>9. spoiled' = IF Writers(x) # {} THEN spoiled \cup {x} ELSE spoiled \ {x}
  BY <1>1 DEF Opens, OpenTrunc
<1>10. ASSUME NEW y \in Path, y # x PROVE holdsMap'[y] = holdsMap[y]
  <2>1. \A r \in Writers(y) : io'[r].doc = io[r].doc
    BY <1>1, <1>10 DEF Writers, Opens
  <2>2. View(y)' = View(y)
    BY <1>1, <1>10, <2>1, SameView DEF Opens
  <2>. QED
    BY <2>2 DEF holdsMap, Known
<1>11. {Torn, d} \subseteq holdsMap'[x] /\ holdsMap'[x] \subseteq holdsMap[x] \cup {Torn, d}
  <2>1. View(x)' = {last[x]} \cup {io'[r].doc : r \in Writers(x) \cup {p}} \cup {Torn}
    <3>1. {files'[x][i] : i \in DOMAIN files'[x]} = {}
      BY <1>1 DEF Opens
    <3>. QED
      BY <1>1, <3>1 DEF View, Opens
  <2>2. io'[p].doc = d
    BY <1>1, <1>3, <1>4 DEF Opens
  <2>3. \A r \in Writers(x) : io'[r].doc \in View(x)
    <3>1. \A r \in Writers(x) : r # p /\ io'[r] = io[r]
      BY <1>1 DEF Writers, Opens
    <3>. QED
      BY <3>1, WriterView DEF ReadInv
  <2>4. last[x] \in View(x) \cup {NoDoc}
    <3>1. CASE x \in created
      BY <3>1 DEF View
    <3>2. CASE x \notin created
      BY <3>2 DEF ReadInv, TreeInv, Absent
    <3>. QED
      BY <3>1, <3>2
  <2>5. View(x)' \subseteq View(x) \cup {Torn, d, NoDoc}
    BY <2>1, <2>2, <2>3, <2>4
  <2>6. {Torn, d} \subseteq View(x)'
    BY <2>1, <2>2
  <2>. QED
    BY <2>5, <2>6, Signs DEF holdsMap, Known
<1>12. mayMap' = [q \in Proc |->
                    [mayMap[q] EXCEPT ![x] = IF @ = {} THEN {} ELSE @ \cup {Torn, d}]]
  <2>1. ASSUME NEW q \in Proc, NEW y \in Path
        PROVE  Known(seen'[q][y]) = IF y = x /\ Known(seen[q][y]) # {}
                                    THEN Known(seen[q][y]) \cup {Torn, d}
                                    ELSE Known(seen[q][y])
    <3>1. seen[q][y] # {} => Known(seen[q][y]) # {}
      <4>1. seen[q][y] # {} => View(y) \ {Hole, NoDoc} \subseteq seen[q][y]
        BY DEF ReadInv, TreeInv, SeenCurrent
      <4>2. View(y) \ {Hole, NoDoc} # {}
        BY ViewFacts DEF ReadInv, TreeInv
      <4>. QED
        BY <4>1, <4>2 DEF Known
    <3>2. seen'[q][y] = IF y = x /\ seen[q][x] # {} THEN seen[q][x] \cup {Torn, d}
                        ELSE seen[q][y]
      BY <1>1 DEF Opens
    <3>. QED
      BY <3>1, <3>2, Signs DEF Known
  <2>. QED
    BY <2>1 DEF mayMap
<1>13. Writers(x) = Registers!Writing(x)
  BY WritingIsWriters
<1>14. x \in callMap[p].paths /\ callMap[p].op = "put" /\ callMap[p].doc = d
  BY <1>2
<1>15. \A y \in Path \ {x} : holdsMap'[y] = holdsMap[y]
  BY <1>10
<1>. QED
  BY <1>7, <1>8, <1>9, <1>11, <1>12, <1>13, <1>14, <1>15 DEF Registers!BeginPut

\* A step of the put that has x open, which changes the view of x only, and
\* leaves it in doubt.
LEMMA DoubtOnly ==
  ASSUME StoreInv, ReadInv, NEW x \in Path, Torn \in View(x)',
         View(x)' \subseteq View(x) \cup {Hole}, \A y \in Path : y # x => View(y)' = View(y)
  PROVE  Registers!InDoubt({x})
<1>1. Torn \in holdsMap'[x] /\ holdsMap'[x] \subseteq holdsMap[x]
  BY Signs DEF holdsMap, Known
<1>2. \A y \in Path \ {x} : holdsMap'[y] = holdsMap[y]
  BY DEF holdsMap, Known
<1>. QED
  BY <1>1, <1>2 DEF Registers!InDoubt

LEMMA WriteBlocksMaps ==
  ASSUME StoreInv, ReadInv, NEW p \in Proc, WriteBlocks(p)
  PROVE  Registers!WritePut(p)
<1>1. PICK x \in Path, d \in Doc, k \in Nat : Writes(p, x, d, k)
  BY WriteEffect
<1>. DEFINE o == [io[p] EXCEPT !.off = k]
<1>2. /\ phaseMap[p] = "writing"
      /\ callMap[p] = [op |-> "put", kind |-> "none", paths |-> {x}, doc |-> d, got |-> <<>>,
                      err |-> io[p].err]
  BY <1>1, PutCall DEF Writes
<1>3. io[p] \in Op /\ io'[p] = o /\ \A q \in Proc \ {p} : io'[q] = io[q]
  BY <1>1 DEF Writes, StoreInv, StoreTypeOK
<1>4. /\ o.pc = io[p].pc /\ o.op = io[p].op /\ o.kind = io[p].kind
      /\ o.dir = io[p].dir /\ o.todo = io[p].todo
      /\ o.doc = io[p].doc /\ o.got = io[p].got /\ o.err = io[p].err
  BY <1>3 DEF Op
<1>. HIDE DEF o
<1>5. Target(p)' = Target(p) /\ PhaseOf(p)' = "writing"
  BY <1>1, <1>3, <1>4 DEF Target, Current, PhaseOf, Writes
<1>6. CallOf(p)' = callMap[p]
  BY <1>3, <1>4, <1>5 DEF CallOf, callMap
<1>7. phaseMap' = [phaseMap EXCEPT ![p] = "writing"] /\ callMap' = callMap
  BY <1>3, <1>5, <1>6, OneMoves DEF callMap
<1>8. Registers!Step(p, {"writing"}, "writing")
  BY <1>2, <1>7 DEF Registers!Step
<1>9. spoiled' = spoiled /\ mayMap' = mayMap
  BY <1>1, SameMay DEF Writes
<1>10. ASSUME NEW y \in Path, y # x PROVE View(y)' = View(y)
  <2>1. \A r \in Writers(y) : io'[r].doc = io[r].doc
    BY <1>3, <1>4 DEF Writers
  <2>. QED
    BY <1>1, <1>10, <2>1, SameView DEF Writes
<1>11. Torn \in View(x)'
  <2>1. x \in created'
    BY <1>1, WriterView DEF ReadInv, Writes
  <2>2. Writers(x)' # {}
    BY <1>1 DEF Writes
  <2>. QED
    BY <2>1, <2>2 DEF View
<1>12. Registers!InDoubt({x})
  BY <1>10, <1>11, WriteTree, DoubtOnly DEF ReadInv
<1>13. callMap[p].paths = {x}
  BY <1>2
<1>. QED
  BY <1>7, <1>8, <1>9, <1>12, <1>13 DEF Registers!WritePut

\* The common part of the two ways in which a put closes its file.
LEMMA CloseMaps ==
  ASSUME StoreInv, ReadInv, NEW p \in Proc, NEW x \in Path, NEW d \in Doc, NEW err \in BOOLEAN,
         Closes(p, x, d, err), CloseFile(p) \/ (WriteError(p) /\ io[p].pc = "write")
  PROVE  /\ phaseMap[p] = "writing" /\ callMap[p].op = "put"
         /\ callMap[p].paths = {x} /\ callMap[p].doc = d
         /\ phaseMap' = [phaseMap EXCEPT ![p] = "done"]
         /\ Registers!PutReturns(p, err)
         /\ mayMap' = mayMap
         /\ \A y \in Path : y # x => View(y)' = View(y)
         /\ x \in spoiled' => Registers!InDoubt({x})
<1>1. callMap[p] = [op |-> "put", kind |-> "none", paths |-> {x}, doc |-> d, got |-> <<>>,
                      err |-> io[p].err]
  BY PutCall DEF Closes
<1>2. phaseMap[p] = "writing"
  BY PutCall DEF Closes
<1>3. /\ io'[p] = [Idle EXCEPT !.pc = "done", !.op = "put", !.dir = io[p].dir, !.err = err]
      /\ \A q \in Proc \ {p} : io'[q] = io[q]
  BY DEF Closes
<1>4. PhaseOf(p)' = "done" /\ CallOf(p)' = Registers!Request("put", "none", {}, NoDoc, err)
  BY <1>3, PutReturned
<1>5. phaseMap' = [phaseMap EXCEPT ![p] = "done"]
  BY <1>3, <1>4, OneMoves
<1>6. Registers!PutReturns(p, err)
  BY <1>3, <1>4, OneMoves DEF Registers!PutReturns
<1>7. mayMap' = mayMap
  BY SameMay DEF Closes
<1>8. ASSUME NEW y \in Path, y # x PROVE View(y)' = View(y)
  <2>1. \A r \in Writers(y) : io'[r].doc = io[r].doc
    BY <1>3, <1>8 DEF Writers, Closes
  <2>. QED
    BY <1>8, <2>1, SameView DEF Closes
<1>9. ASSUME x \in spoiled' PROVE Registers!InDoubt({x})
  <2>1. x \in created'
    BY WriterView DEF ReadInv, Closes
  <2>2. Torn \in View(x)'
    BY <1>9, <2>1 DEF View
  <2>3. View(x)' \subseteq View(x)
    BY CloseTree DEF ReadInv
  <2>. QED
    BY <1>8, <2>2, <2>3, DoubtOnly
<1>10. callMap[p].op = "put" /\ callMap[p].paths = {x} /\ callMap[p].doc = d
  BY <1>1
<1>. QED
  BY <1>2, <1>5, <1>6, <1>7, <1>8, <1>9, <1>10

\* A put that had its file to itself has replaced the document.
LEMMA CloseFileMaps ==
  ASSUME StoreInv, ReadInv, NEW p \in Proc, CloseFile(p)
  PROVE  Registers!EndPut(p)
<1>1. PICK x \in Path, d \in Doc : Closes(p, x, d, FALSE)
  BY CloseEffect
<1>2. /\ phaseMap[p] = "writing" /\ callMap[p].paths = {x} /\ callMap[p].doc = d
      /\ phaseMap' = [phaseMap EXCEPT ![p] = "done"] /\ Registers!PutReturns(p, FALSE)
      /\ mayMap' = mayMap
      /\ \A y \in Path : y # x => View(y)' = View(y)
      /\ x \in spoiled' => Registers!InDoubt({x})
  BY <1>1, CloseMaps
<1>3. spoiled' = spoiled
  BY DEF CloseFile
<1>4. ASSUME x \notin spoiled PROVE holdsMap' = [holdsMap EXCEPT ![x] = {d}]
  <2>1. Writers(x) = {p} /\ files[x] = [i \in 1..Size(d) |-> d]
    BY <1>1, <1>4 DEF Closes, StoreInv, PutAlone
  <2>2. x \in created' /\ x \notin spoiled' /\ Writers(x)' = {} /\ last'[x] = d /\ files' = files
    BY <1>1, <1>3, <1>4, <2>1, WriterView DEF ReadInv, Closes
  <2>3. \A i \in DOMAIN files'[x] : files'[x][i] = d
    BY <2>1, <2>2
  <2>4. View(x)' = {d}
    BY <2>2, <2>3 DEF View
  <2>5. Known(View(x)') = {d}
    BY <2>4, Signs DEF Known
  <2>6. \A y \in Path : y # x => Known(View(y)') = Known(View(y))
    BY <1>2
  <2>. QED
    BY <2>5, <2>6 DEF holdsMap
<1>5. Registers!Step(p, {"writing"}, "done")
  BY <1>2 DEF Registers!Step
<1>. QED
  BY <1>2, <1>3, <1>4, <1>5 DEF Registers!EndPut

LEMMA WriteErrorMaps ==
  ASSUME StoreInv, ReadInv, NEW p \in Proc, WriteError(p)
  PROVE  Registers!FailPut(p)
<1>1. CASE io[p].pc = "write"
  <2>1. PICK x \in Path, d \in Doc, err \in BOOLEAN :
          Closes(p, x, d, err) /\ (err <=> ~CloseFile(p))
    BY <1>1, CloseEffect
  <2>2. err = TRUE
    <3>1. io'[p].err = TRUE
      BY DEF WriteError, PutReturns, StoreInv, StoreTypeOK, Idle
    <3>2. io'[p].err = err
      BY <2>1 DEF Closes, Idle
    <3>. QED
      BY <3>1, <3>2
  <2>3. /\ phaseMap[p] = "writing" /\ callMap[p].op = "put" /\ callMap[p].paths = {x}
        /\ phaseMap' = [phaseMap EXCEPT ![p] = "done"] /\ Registers!PutReturns(p, TRUE)
        /\ mayMap' = mayMap
        /\ x \in spoiled' => Registers!InDoubt({x})
    BY <1>1, <2>1, <2>2, CloseMaps
  <2>4. spoiled' = spoiled \cup {x}
    BY <1>1, <2>1 DEF WriteError, Closes
  <2>5. Registers!Step(p, {"asked", "writing"}, "done")
    BY <2>3 DEF Registers!Step
  <2>. QED
    BY <2>3, <2>4, <2>5 DEF Registers!FailPut
<1>2. CASE io[p].pc # "write"
  <2>1. /\ io[p].pc \in {"mkdir", "open"} /\ PutReturns(p, io[p].dir, TRUE)
        /\ UNCHANGED <<created, files, last, spoiled, seen>>
    BY <1>2 DEF WriteError
  <2>. DEFINE o == [Idle EXCEPT !.pc = "done", !.op = "put", !.dir = io[p].dir, !.err = TRUE]
  <2>2. io' = [io EXCEPT ![p] = o] /\ o.pc = "done"
    BY <2>1 DEF PutReturns, Idle
  <2>. HIDE DEF o
  <2>3. holdsMap' = holdsMap /\ mayMap' = mayMap
    BY <1>2, <2>1, <2>2, QuietViews, SameHolds, SameMay
  <2>4. io'[p] = o /\ \A q \in Proc \ {p} : io'[q] = io[q]
    BY <2>2 DEF StoreInv, StoreTypeOK
  <2>5. PhaseOf(p)' = "done" /\ CallOf(p)' = Registers!Request("put", "none", {}, NoDoc, TRUE)
    BY <2>4, PutReturned DEF o
  <2>6. phaseMap[p] = "asked"
    BY <2>1, PutCall
  <2>7. callMap[p].op = "put"
    <3>1. callMap[p] = [op |-> "put", kind |-> "none", paths |-> {Target(p)}, doc |-> io[p].doc,
                        got |-> <<>>, err |-> io[p].err]
      BY <2>1, PutCall
    <3>. QED
      BY <3>1
  <2>8. Registers!Step(p, {"asked", "writing"}, "done") /\ Registers!PutReturns(p, TRUE)
    BY <2>4, <2>5, <2>6, OneMoves DEF Registers!Step, Registers!PutReturns
  <2>9. Registers!InDoubt({})
    BY <2>3 DEF Registers!InDoubt
  <2>. QED
    BY <2>1, <2>3, <2>6, <2>7, <2>8, <2>9 DEF Registers!FailPut
<1>. QED
  BY <1>1, <1>2

-----------------------------------------------------------------------------
(***************************************************************************)
(* What a read of one file may come to                                     *)
(***************************************************************************)

\* The result r of a reader of this kind that has seen s is one that path x
\* allows.
MayGet(s, kind, x, r) == Registers!MayReturn(Known(s[x]), kind, r)

\* What a path allowed it still allows when more has been seen.
LEMMA MayGetGrows ==
  ASSUME NEW s, NEW t, NEW kind, NEW x, NEW r, s[x] \subseteq t[x], MayGet(s, kind, x, r)
  PROVE  MayGet(t, kind, x, r)
<1>1. Known(s[x]) \subseteq Known(t[x]) /\ Known(s[x]) \cap Doc \subseteq Known(t[x]) \cap Doc
  BY DEF Known
<1>2. Mixture(Known(s[x]) \cap Doc) \subseteq Mixture(Known(t[x]) \cap Doc)
  BY <1>1, MixtureType
<1>. QED
  BY <1>1, <1>2 DEF MayGet, Registers!MayReturn

\* The file of a reader at its end, missing or not readable gives a result
\* that its path allows; only failing calls change what has been seen.
LEMMA FileResult ==
  ASSUME StoreInv, ReadInv, NEW p \in Proc, ReadEOF(p) \/ ReadMissing(p) \/ ReadError(p)
  PROVE  \E r \in Result \cup {Failed} :
           /\ FileRead(p, r)
           /\ Target(p) \in Path => MayGet(seen'[p], io[p].kind, Target(p), r)
           /\ Target(p) \notin Path => r = Failed
<1>1. /\ io[p] \in Op /\ io[p].pc = "read" /\ io[p].todo # {} /\ ReaderInv(p)
      /\ TreeInv
  BY DEF StoreInv, StoreTypeOK, ReadInv, ReadEOF, ReadMissing, ReadError
<1>2. IsReading(io[p]) /\ Asks(io[p], Target(p))
  BY <1>1, AsksTarget DEF ReaderInv, OpShape, IsReading
<1>3. Target(p) \in Path => View(Target(p)) \ {Hole, NoDoc} \subseteq seen[p][Target(p)]
  BY <1>1, <1>2 DEF ReaderInv, Watches, TreeInv, SeenCurrent
<1>4. CASE ReadEOF(p)
  <2>1. PICK x \in Path : x = Target(p) /\ x \in created
    BY <1>4 DEF ReadEOF, StoreInv, StoreTypeOK
  <2>. DEFINE b == io[p].buf
              kind == io[p].kind
              K == Known(seen'[p][x])
  <2>2. PICK r \in Parse(kind, b) : FileRead(p, r)
    BY <1>4 DEF ReadEOF
  <2>3. b \in Seq(Block) /\ seen' = seen /\ Len(files[x]) <= Len(b)
    BY <1>1, <1>4, <2>1 DEF ReadEOF, Op
  <2>4. r \in Result \cup {Failed}
    BY <2>2, <2>3, ParseType
  <2>5. BufferOK(io[p], x, seen[p], files[x])
    BY <1>1, <2>1 DEF ReaderInv, Buffered
  <2>6. K \cap Doc = seen[p][x] \cap Doc /\ (Torn \in K <=> Torn \in seen[p][x])
    BY <2>3, Signs DEF Known
  <2>7. ASSUME Torn \notin seen[p][x] PROVE \E d \in K \cap Doc : r = ParseDoc(kind, d)
    <3>1. files[x] \in Seq(Block)
      BY DEF StoreInv, StoreTypeOK
    <3>2. b = files[x]
      <4>1. Len(b) <= Len(files[x]) /\ \A i \in 1..Len(b) : b[i] = files[x][i]
        BY <2>5, <2>7 DEF BufferOK
      <4>2. Len(b) = Len(files[x])
        BY <2>3, <3>1, <4>1
      <4>. HIDE DEF b
      <4>. QED
        BY <2>3, <3>1, <4>1, <4>2
    <3>3. Torn \notin View(x)
      BY <1>3, <2>1, <2>7, Signs
    <3>4. last[x] \in Doc /\ last[x] \in View(x) /\ files[x] = Image(last[x])
      BY <1>1, <2>1, <3>3, ViewFacts DEF TreeInv
    <3>5. r = ParseDoc(kind, last[x])
      BY <2>2, <3>2, <3>4, ParseImage
    <3>6. last[x] \in seen[p][x]
      BY <1>3, <2>1, <3>4, Signs
    <3>. QED
      BY <2>6, <3>4, <3>5, <3>6
  <2>8. ASSUME Torn \in seen[p][x], r # Failed, kind \in JsonKind
        PROVE  \E d \in (K \cap Doc) \cup Mixture(K \cap Doc) : r = ParseDoc(kind, d)
    <3>1. \A i \in 1..Len(b) : b[i] \in seen[p][x] \cup {Hole}
      BY <2>5 DEF BufferOK
    <3>2. kind \in {"groups", "profiles"}
      BY <2>8 DEF JsonKind
    <3>. HIDE DEF b, kind
    <3>3. PICK S : S = seen[p][x]
      OBVIOUS
    <3>4. PICK d \in Doc :
            /\ r = ParseDoc(kind, d)
            /\ d \in S \/ (~Whole(b) /\ b # <<>> /\ d \in Mixture(S \cap Doc))
      <4>1. \A i \in 1..Len(b) : b[i] \in S \cup {Hole}
        BY <3>1, <3>3
      <4>. QED
        BY <2>2, <2>3, <2>8, <3>2, <4>1, ParseFromBuffer
    <3>. QED
      BY <2>6, <3>3, <3>4
  <2>. HIDE DEF K, kind
  <2>9. MayGet(seen'[p], kind, x, r)
    <3>1. CASE Torn \notin seen[p][x]
      BY <2>7, <3>1 DEF MayGet, Registers!MayReturn, K
    <3>2. CASE Torn \in seen[p][x] /\ r = Failed
      BY <2>6, <3>2 DEF MayGet, Registers!MayReturn, K
    <3>3. CASE Torn \in seen[p][x] /\ r # Failed /\ kind \notin JsonKind
      BY <2>6, <3>3 DEF MayGet, Registers!MayReturn, K
    <3>4. CASE Torn \in seen[p][x] /\ r # Failed /\ kind \in JsonKind
      BY <2>6, <2>8, <3>4 DEF MayGet, Registers!MayReturn, K
    <3>. QED
      BY <3>1, <3>2, <3>3, <3>4
  <2>. QED
    BY <2>1, <2>2, <2>4, <2>9 DEF kind
<1>5. CASE ReadMissing(p)
  <2>1. FileRead(p, Failed) /\ Target(p) \notin created /\ seen' = seen
    BY <1>5 DEF ReadMissing
  <2>2. Target(p) \in Path => NoFile \in Known(seen'[p][Target(p)])
    BY <1>3, <2>1, Signs DEF View, Known
  <2>. QED
    BY <2>1, <2>2 DEF MayGet, Registers!MayReturn
<1>6. CASE ReadError(p)
  <2>1. FileRead(p, Failed) /\ Disturb(p, {Target(p)})
    BY <1>6 DEF ReadError
  <2>2. Target(p) \in Path => Torn \in Known(seen'[p][Target(p)])
    BY <2>1, Signs DEF Disturb, Known, StoreInv, StoreTypeOK, SeenType
  <2>. QED
    BY <2>1, <2>2 DEF MayGet, Registers!MayReturn
<1>. QED
  BY <1>4, <1>5, <1>6

-----------------------------------------------------------------------------
(***************************************************************************)
(* Lists: the results so far, matched with the paths left behind           *)
(***************************************************************************)

\* f names the path of each result that list o has so far: they are in the
\* order of the paths, before all that is left to read, and every other path
\* that was passed could have failed to be read.
Matched(o, s, f) ==
  /\ \A i, j \in 1..Len(o.got) : i < j => f[i][2] < f[j][2]
  /\ \A i \in 1..Len(o.got) : /\ o.got[i] # Failed /\ MayGet(s, o.kind, f[i], o.got[i])
                              /\ \A n \in o.todo : f[i][2] < n
  /\ \A x \in DirPaths(o.dir) :
       \/ x[2] \in o.todo
       \/ \E i \in 1..Len(o.got) : f[i] = x
       \/ MayGet(s, o.kind, x, Failed)

ListInv(o, s) ==
  /\ o.pc \in {"readdir", "read"} => o.err = FALSE
  /\ o.pc = "readdir" => o.got = <<>>
  /\ o.op = "list" /\ o.pc = "read" =>
       \E f \in [1..Len(o.got) -> DirPaths(o.dir)] : Matched(o, s, f)

ListsInv == \A p \in Proc : ListInv(io[p], seen[p])

\* An operation works on the first of the names it has left.
LEMMA CurrentLeast ==
  ASSUME NEW p, io[p].todo \subseteq Nat, io[p].todo # {}
  PROVE  \A m \in io[p].todo : Current(p) <= m
<1>1. \E n \in io[p].todo : \A m \in io[p].todo : n <= m
  BY LeastOf
<1>. QED
  BY <1>1 DEF Current

LEMMA ListUntouched ==
  ASSUME NEW o, NEW s, NEW t, ListInv(o, s), \A x \in Path : s[x] \subseteq t[x]
  PROVE  ListInv(o, t)
<1>. SUFFICES ASSUME o.op = "list", o.pc = "read"
              PROVE  \E f \in [1..Len(o.got) -> DirPaths(o.dir)] : Matched(o, t, f)
  BY DEF ListInv
<1>1. PICK f \in [1..Len(o.got) -> DirPaths(o.dir)] : Matched(o, s, f)
  BY DEF ListInv
<1>2. DirPaths(o.dir) \subseteq Path
  BY DEF DirPaths
<1>3. \A x \in DirPaths(o.dir) : \A r : MayGet(s, o.kind, x, r) => MayGet(t, o.kind, x, r)
  BY <1>2, MayGetGrows
<1>4. Matched(o, t, f)
  BY <1>1, <1>3 DEF Matched
<1>. QED
  BY <1>4

\* The list starts with the names it found; whatever it did not find was missing.
LEMMA ReadDirList ==
  ASSUME StoreInv, ReadInv, ListsInv, NEW p \in Proc, ReadDir(p)
  PROVE  ListInv(io'[p], seen'[p])
<1>1. /\ io[p] \in Op /\ io[p].pc = "readdir" /\ io[p].op = "list" /\ io[p].got = <<>>
      /\ io[p].err = FALSE /\ TreeInv /\ seen' = seen /\ ReaderInv(p)
  BY DEF StoreInv, StoreTypeOK, ReadDir, ReadInv, ReaderInv, OpShape, ListsInv, ListInv
<1>2. CASE io[p].dir \notin dirs
  <2>1. io'[p].pc = "done"
    BY <1>1, <1>2 DEF ReadDir, StoreInv, StoreTypeOK, Op
  <2>. QED
    BY <2>1 DEF ListInv
<1>3. CASE io[p].dir \in dirs
  <2>. DEFINE S == {n \in Name : <<io[p].dir, n>> \in created}
              X == DirPaths(io[p].dir)
  <2>1. io'[p] = [io[p] EXCEPT !.pc = "read", !.todo = S]
    BY <1>3 DEF ReadDir, StoreInv, StoreTypeOK
  <2>2. /\ io'[p].pc = "read" /\ io'[p].op = "list" /\ io'[p].dir = io[p].dir /\ io'[p].kind = io[p].kind
        /\ io'[p].todo = S /\ io'[p].got = <<>> /\ io'[p].err = FALSE
    BY <1>1, <2>1 DEF Op
  <2>3. ASSUME NEW x \in X, x[2] \notin S PROVE MayGet(seen'[p], io[p].kind, x, Failed)
    <3>1. x \in Path /\ x = <<io[p].dir, x[2]>> /\ x[2] \in Name
      BY <2>3 DEF DirPaths, Path
    <3>2. x \notin created
      BY <2>3, <3>1
    <3>3. Asks(io[p], x) /\ IsReading(io[p])
      BY <1>1, <2>3 DEF Asks, DirPaths, IsReading
    <3>4. NoFile \in seen[p][x]
      BY <1>1, <3>1, <3>2, <3>3, Signs DEF ReaderInv, Watches, TreeInv, SeenCurrent, View
    <3>5. NoFile \in Known(seen'[p][x])
      BY <1>1, <3>4, Signs DEF Known
    <3>. QED
      BY <3>5 DEF MayGet, Registers!MayReturn
  <2>. DEFINE f == [i \in 1..0 |-> <<>>]
  <2>4. Len(io'[p].got) = 0
    BY <2>2
  <2>5. f \in [1..Len(io'[p].got) -> DirPaths(io'[p].dir)]
    BY <2>4
  <2>6. Matched(io'[p], seen'[p], f)
    BY <2>2, <2>3, <2>4 DEF Matched
  <2>. HIDE DEF f
  <2>. QED
    BY <2>2, <2>5, <2>6 DEF ListInv
<1>. QED
  BY <1>2, <1>3

LEMMA ReadBlocksList ==
  ASSUME StoreInv, ListsInv, NEW p \in Proc, ReadBlocks(p)
  PROVE  ListInv(io'[p], seen'[p])
<1>1. io[p] \in Op /\ ListInv(io[p], seen[p]) /\ seen' = seen
  BY DEF StoreInv, StoreTypeOK, ListsInv, ReadBlocks
<1>2. PICK c : io' = [io EXCEPT ![p].buf = c]
  BY DEF ReadBlocks
<1>3. /\ io'[p].pc = io[p].pc /\ io'[p].op = io[p].op /\ io'[p].dir = io[p].dir /\ io'[p].kind = io[p].kind
      /\ io'[p].todo = io[p].todo /\ io'[p].got = io[p].got /\ io'[p].err = io[p].err
  BY <1>1, <1>2 DEF StoreInv, StoreTypeOK, Op
<1>. QED
  BY <1>1, <1>3 DEF ListInv, Matched

\* One more file is left behind, its result kept or dropped.
LEMMA FileReadList ==
  ASSUME StoreInv, ReadInv, ListsInv, NEW p \in Proc,
         ReadEOF(p) \/ ReadMissing(p) \/ ReadError(p)
  PROVE  ListInv(io'[p], seen'[p])
<1>1. PICK r \in Result \cup {Failed} :
        /\ FileRead(p, r)
        /\ Target(p) \in Path => MayGet(seen'[p], io[p].kind, Target(p), r)
  BY FileResult
<1>2. /\ io[p] \in Op /\ io[p].pc = "read" /\ io[p].todo # {} /\ OpShape(io[p])
      /\ ListInv(io[p], seen[p])
  BY DEF StoreInv, StoreTypeOK, ReadInv, ReaderInv, ListsInv, ReadEOF, ReadMissing, ReadError
<1>3. CASE io[p].op # "list"
  <2>1. io'[p].pc = "done"
    BY <1>1, <1>2, <1>3 DEF FileRead, StoreInv, StoreTypeOK, Op
  <2>. QED
    BY <2>1 DEF ListInv
<1>4. CASE io[p].op = "list"
  <2>. DEFINE g == io[p].got
              h == IF r = Failed THEN g ELSE Append(g, r)
              x == Target(p)
              X == DirPaths(io[p].dir)
  <2>1. /\ io'[p].pc = "read" /\ io'[p].op = "list" /\ io'[p].dir = io[p].dir /\ io'[p].kind = io[p].kind
        /\ io'[p].todo = io[p].todo \ {Current(p)} /\ io'[p].got = h /\ io'[p].err = FALSE
    BY <1>1, <1>2, <1>4 DEF FileRead, StoreInv, StoreTypeOK, Op
  <2>2. x = <<io[p].dir, Current(p)>> /\ x \in Path /\ Current(p) \in io[p].todo
    BY <1>2, <1>4, AsksTarget DEF IsReading
  <2>3. x \in X /\ x[2] = Current(p) /\ MayGet(seen'[p], io[p].kind, x, r)
    BY <1>1, <2>2 DEF DirPaths
  <2>4. io[p].todo \subseteq Nat
    BY <1>2, IdFacts DEF Op
  <2>5. \A n \in io[p].todo \ {Current(p)} : Current(p) < n
    BY <1>2, <2>2, <2>4, CurrentLeast
  <2>6. \A y \in Path : seen[p][y] \subseteq seen'[p][y]
    BY ReaderSees
  <2>7. PICK f \in [1..Len(g) -> X] : Matched(io[p], seen'[p], f)
    <3>1. ListInv(io[p], seen'[p])
      BY <1>2, <2>6, ListUntouched
    <3>. QED
      BY <1>2, <1>4, <3>1 DEF ListInv
  <2>8. g \in Seq(Result) /\ Len(g) \in Nat
    BY <1>2 DEF Op
  <2>9. ASSUME NEW y \in X, y[2] = Current(p) PROVE y = x
    BY <2>2, <2>9 DEF DirPaths, Path
  <2>10. /\ \A i, j \in 1..Len(g) : i < j => f[i][2] < f[j][2]
         /\ \A i \in 1..Len(g) : /\ g[i] # Failed /\ MayGet(seen'[p], io[p].kind, f[i], g[i])
                                 /\ \A n \in io[p].todo : f[i][2] < n
         /\ \A y \in X : \/ y[2] \in io[p].todo
                         \/ \E i \in 1..Len(g) : f[i] = y
                         \/ MayGet(seen'[p], io[p].kind, y, Failed)
    BY <2>7 DEF Matched
  <2>. HIDE DEF g, X, x
  <2>11. CASE r = Failed
    <3>1. io'[p].got = g
      BY <2>1, <2>11
    <3>2. Matched(io'[p], seen'[p], f)
      <4>1. \A y \in X : \/ y[2] \in io'[p].todo
                         \/ \E i \in 1..Len(g) : f[i] = y
                         \/ MayGet(seen'[p], io[p].kind, y, Failed)
        BY <2>1, <2>3, <2>9, <2>10, <2>11
      <4>. QED
        BY <2>1, <2>10, <3>1, <4>1 DEF Matched, X
    <3>. QED
      BY <2>1, <2>7, <3>1, <3>2 DEF ListInv, X
  <2>12. CASE r # Failed
    <3>. DEFINE e == [i \in 1..(Len(g) + 1) |-> IF i = Len(g) + 1 THEN x ELSE f[i]]
    <3>1. io'[p].got = h /\ h = Append(g, r)
      BY <2>1, <2>12
    <3>2. /\ Len(h) = Len(g) + 1 /\ h[Len(g) + 1] = r
          /\ \A i \in 1..Len(g) : h[i] = g[i]
      BY <2>8, <3>1
    <3>. HIDE DEF h
    <3>3. e \in [1..Len(h) -> X]
      BY <2>3, <2>7, <2>8, <3>2
    <3>4. e[Len(g) + 1] = x /\ \A i \in 1..Len(g) : e[i] = f[i]
      BY <2>8
    <3>5. \A i \in 1..Len(h) : i \in 1..Len(g) \/ i = Len(g) + 1
      BY <2>8, <3>2
    <3>. HIDE DEF e
    <3>6. ASSUME NEW i \in 1..Len(h), NEW j \in 1..Len(h), i < j PROVE e[i][2] < e[j][2]
      <4>1. i \in 1..Len(g)
        BY <2>8, <3>2, <3>6
      <4>2. CASE j \in 1..Len(g)
        BY <2>10, <3>4, <3>6, <4>1, <4>2
      <4>3. CASE j = Len(g) + 1
        BY <2>2, <2>3, <2>10, <3>4, <4>1, <4>3
      <4>. QED
        BY <3>5, <4>2, <4>3
    <3>7. ASSUME NEW i \in 1..Len(h)
          PROVE  /\ h[i] # Failed /\ MayGet(seen'[p], io[p].kind, e[i], h[i])
                 /\ \A n \in io'[p].todo : e[i][2] < n
      <4>1. CASE i \in 1..Len(g)
        BY <2>1, <2>10, <3>2, <3>4, <4>1
      <4>2. CASE i = Len(g) + 1
        BY <2>1, <2>3, <2>5, <2>12, <3>2, <3>4, <4>2
      <4>. QED
        BY <3>5, <4>1, <4>2
    <3>8. ASSUME NEW y \in X
          PROVE  \/ y[2] \in io'[p].todo
                 \/ \E i \in 1..Len(h) : e[i] = y
                 \/ MayGet(seen'[p], io[p].kind, y, Failed)
      <4>1. CASE y[2] = Current(p)
        <5>1. Len(g) + 1 \in 1..Len(h)
          BY <2>8, <3>2
        <5>. QED
          BY <2>9, <3>4, <4>1, <5>1
      <4>2. CASE \E i \in 1..Len(g) : f[i] = y
        <5>1. \A i \in 1..Len(g) : i \in 1..Len(h)
          BY <2>8, <3>2
        <5>. QED
          BY <3>4, <4>2, <5>1
      <4>3. CASE y[2] # Current(p) /\ ~\E i \in 1..Len(g) : f[i] = y
        BY <2>1, <2>10, <4>3
      <4>. QED
        BY <4>1, <4>2, <4>3
    <3>9. Matched(io'[p], seen'[p], e)
      BY <2>1, <3>1, <3>6, <3>7, <3>8 DEF Matched, X
    <3>. QED
      BY <2>1, <3>1, <3>3, <3>9 DEF ListInv, X
  <2>. QED
    BY <2>11, <2>12
<1>. QED
  BY <1>3, <1>4

\* A step of p after which the others have seen no less than before.
LEMMA ListsKept ==
  ASSUME ListsInv, NEW p \in Proc, ListInv(io'[p], seen'[p]),
         \A q \in Proc \ {p} : io'[q] = io[q] /\ \A x \in Path : seen[q][x] \subseteq seen'[q][x]
  PROVE  ListsInv'
BY ListUntouched DEF ListsInv

LEMMA CallLists ==
  ASSUME StoreInv, ReadInv, ListsInv, NEW p \in Proc, Call(p)
  PROVE  ListsInv'
<1>1. ASSUME NEW X, AskingToRead(p, X) PROVE \A q \in Proc \ {p} : seen'[q] = seen[q]
  BY <1>1, WatchFacts DEF AskingToRead
<1>2. CASE AsksGet(p)
  <2>1. /\ io'[p].pc = "read" /\ io'[p].op = "get" /\ io'[p].err = FALSE
        /\ \A q \in Proc \ {p} : io'[q] = io[q]
    BY <1>2 DEF AsksGet, StartGet, Idle, StoreInv, StoreTypeOK
  <2>2. ListInv(io'[p], seen'[p])
    BY <2>1 DEF ListInv
  <2>. QED
    BY <1>1, <1>2, <2>1, <2>2, ListsKept DEF AsksGet
<1>3. CASE AsksList(p)
  <2>1. /\ io'[p].pc = "readdir" /\ io'[p].got = <<>> /\ io'[p].err = FALSE
        /\ \A q \in Proc \ {p} : io'[q] = io[q]
    BY <1>3 DEF AsksList, StartList, Idle, StoreInv, StoreTypeOK
  <2>2. ListInv(io'[p], seen'[p])
    BY <2>1 DEF ListInv
  <2>. QED
    BY <1>1, <1>3, <2>1, <2>2, ListsKept DEF AsksList
<1>4. CASE AsksPut(p) \/ AsksBadPut(p)
  <2>1. seen' = seen
    BY <1>4 DEF AsksPut, AsksBadPut, AskingToPut
  <2>2. /\ io'[p].pc \in {"mkdir", "done"} /\ \A q \in Proc \ {p} : io'[q] = io[q]
    <3>1. CASE AsksPut(p)
      BY <3>1 DEF AsksPut, StartWrite, Idle, StoreInv, StoreTypeOK
    <3>2. CASE AsksBadPut(p)
      BY <3>2 DEF AsksBadPut, PutReturns, Idle, StoreInv, StoreTypeOK
    <3>. QED
      BY <1>4, <3>1, <3>2
  <2>3. ListInv(io'[p], seen'[p])
    BY <2>2 DEF ListInv
  <2>. QED
    BY <2>1, <2>2, <2>3, ListsKept
<1>. QED
  BY <1>2, <1>3, <1>4, CallKinds

LEMMA SysLists ==
  ASSUME StoreInv, ReadInv, ListsInv, NEW p \in Proc, SysCall(p) \/ SysFault(p)
  PROVE  ListsInv'
<1>1. CASE \/ ReadDir(p) \/ ReadBlocks(p) \/ ReadEOF(p) \/ ReadMissing(p) \/ ReadError(p)
           \/ ListDone(p) \/ ReadDirError(p)
  <2>1. ListInv(io'[p], seen'[p])
    <3>1. CASE ListDone(p) \/ ReadDirError(p)
      <4>1. io'[p].pc = "done"
        BY <3>1 DEF ListDone, ReadDirError, StoreInv, StoreTypeOK, Op
      <4>. QED
        BY <4>1 DEF ListInv
    <3>. QED
      BY <1>1, <3>1, ReadDirList, ReadBlocksList, FileReadList
  <2>2. \A q \in Proc \ {p} : io'[q] = io[q]
    BY <1>1 DEF StoreInv, StoreTypeOK, FileRead, ReadDir, ReadBlocks, ReadEOF, ReadMissing,
                ReadError, ListDone, ReadDirError
  <2>3. \A q \in Proc \ {p} : seen'[q] = seen[q]
    BY <1>1, ReaderSees
  <2>. QED
    BY <2>1, <2>2, <2>3, ListsKept
<1>2. CASE MkdirAll(p) \/ OpenTrunc(p) \/ WriteBlocks(p) \/ CloseFile(p) \/ WriteError(p)
  <2>1. io[p] \in Op
    BY DEF StoreInv, StoreTypeOK
  <2>2. io'[p].pc \in {"open", "write", "done"}
    <3>1. CASE MkdirAll(p) \/ OpenTrunc(p)
      BY <2>1, <3>1 DEF MkdirAll, OpenTrunc, StoreInv, StoreTypeOK, Op
    <3>2. CASE WriteBlocks(p)
      BY <2>1, <3>2 DEF WriteBlocks, StoreInv, StoreTypeOK, Op
    <3>3. CASE CloseFile(p) \/ WriteError(p)
      BY <3>3 DEF CloseFile, WriteError, PutReturns, Idle, StoreInv, StoreTypeOK
    <3>. QED
      BY <1>2, <3>1, <3>2, <3>3
  <2>3. io'[p].op = "list" /\ io'[p].pc = "read" => FALSE
    BY <2>2
  <2>4. ListInv(io'[p], seen'[p])
    BY <2>2 DEF ListInv
  <2>5. \A q \in Proc \ {p} : io'[q] = io[q]
    BY <1>2 DEF MkdirAll, OpenTrunc, WriteBlocks, CloseFile, WriteError, PutReturns,
                StoreInv, StoreTypeOK
  <2>6. \A q \in Proc, x \in Path : seen[q][x] \subseteq seen'[q][x]
    <3>1. CASE OpenTrunc(p)
      <4>1. PICK x \in Path, d \in Doc : Opens(p, x, d)
        BY <3>1, OpenEffect
      <4>. QED
        BY <4>1 DEF Opens
    <3>2. CASE seen' = seen
      BY <3>2
    <3>. QED
      BY <1>2, <3>1, <3>2 DEF MkdirAll, WriteBlocks, CloseFile, WriteError
  <2>. QED
    BY <2>4, <2>5, <2>6, ListsKept
<1>. QED
  BY <1>1, <1>2 DEF SysCall, SysFault

LEMMA NextLists ==
  StoreInv /\ ReadInv /\ ListsInv /\ [StoreNext]_storeVars => ListsInv'
<1>. SUFFICES ASSUME StoreInv, ReadInv, ListsInv, [StoreNext]_storeVars PROVE ListsInv'
  OBVIOUS
<1>1. Idle.pc = "idle" /\ Idle.op = "none"
  BY DEF Idle
<1>2. CASE UNCHANGED storeVars
  BY <1>2 DEF storeVars, ListsInv
<1>3. ASSUME NEW p \in Proc, Return(p) PROVE ListsInv'
  <2>1. io'[p] = Idle /\ \A q \in Proc \ {p} : io'[q] = io[q] /\ seen'[q] = seen[q]
    BY <1>3 DEF Return, StoreInv, StoreTypeOK, SeenType
  <2>2. ListInv(io'[p], seen'[p])
    BY <1>1, <2>1 DEF ListInv
  <2>. QED
    BY <2>1, <2>2, ListsKept
<1>4. CASE Crash
  <2>1. \A p \in Proc : io'[p] = Idle
    BY <1>4 DEF Crash
  <2>. QED
    BY <1>1, <2>1 DEF ListsInv, ListInv
<1>. QED
  BY <1>2, <1>3, <1>4, CallLists, SysLists DEF StoreNext

LEMMA InitLists == StoreInit => ListsInv
BY DEF StoreInit, ListsInv, ListInv, Idle

-----------------------------------------------------------------------------
(***************************************************************************)
(* Gets and lists                                                          *)
(***************************************************************************)

\* The paths that a get or a list of p is about.
PathsOf(p) == IF io[p].op = "list" THEN DirPaths(io[p].dir) ELSE {Target(p)} \cap Path

\* A reader on its way, as the registers see it.
LEMMA ReadCall ==
  ASSUME StoreInv, ReadInv, ListsInv, NEW p \in Proc, io[p].pc \in {"readdir", "read"}
  PROVE  /\ phaseMap[p] = "asked"
         /\ io[p].op \in {"get", "list"} /\ io[p].err = FALSE
         /\ callMap[p].op = io[p].op /\ callMap[p].kind = io[p].kind
         /\ callMap[p].paths = PathsOf(p)
         /\ callMap[p] = [op |-> io[p].op, kind |-> io[p].kind, paths |-> PathsOf(p), doc |-> io[p].doc,
                          got |-> <<>>, err |-> FALSE]
<1>1. io[p].op \in {"get", "list"} /\ io[p].err = FALSE
  BY DEF ReadInv, ReaderInv, OpShape, ListsInv, ListInv
<1>2. phaseMap[p] = "asked"
  BY DEF phaseMap, PhaseOf
<1>3. CallOf(p) = [op |-> io[p].op, kind |-> io[p].kind, paths |-> PathsOf(p), doc |-> io[p].doc,
                   got |-> <<>>, err |-> FALSE]
  BY <1>1 DEF CallOf, PathsOf
<1>. QED
  BY <1>1, <1>2, <1>3 DEF callMap

\* A reader's call writes nothing, and lets only itself see more.
LEMMA ReaderMaps ==
  ASSUME StoreInv, ReadInv, NEW p \in Proc,
         \/ ReadDir(p) \/ ReadBlocks(p) \/ ReadEOF(p) \/ ReadMissing(p) \/ ReadError(p)
         \/ ListDone(p) \/ ReadDirError(p)
  PROVE  /\ holdsMap' = holdsMap /\ spoiled' = spoiled
         /\ Registers!Disturbed(p)
         /\ \A q \in Proc \ {p} : io'[q] = io[q]
         /\ io'[p].doc = io[p].doc
         /\ io[p].pc \in {"readdir", "read"} /\ io'[p].pc \in {"read", "done"}
<1>1. /\ UNCHANGED <<created, files, last, spoiled>> /\ io[p].pc \in {"readdir", "read"}
      /\ io[p] \in Op
  BY DEF ReadDir, ReadBlocks, ReadEOF, ReadMissing, ReadError, ListDone, ReadDirError,
         StoreInv, StoreTypeOK
<1>2. io' = [io EXCEPT ![p] = io'[p]]
  BY DEF StoreInv, StoreTypeOK, FileRead, ReadDir, ReadBlocks, ReadEOF, ReadMissing,
         ReadError, ListDone, ReadDirError
<1>3. io'[p].pc \in {"read", "done"} /\ io'[p].doc = io[p].doc
  <2>1. CASE ReadDir(p)
    BY <1>1, <2>1 DEF Op, ReadDir, StoreInv, StoreTypeOK
  <2>2. CASE ReadBlocks(p)
    BY <1>1, <2>2 DEF Op, ReadBlocks, StoreInv, StoreTypeOK
  <2>3. CASE ReadEOF(p) \/ ReadMissing(p) \/ ReadError(p)
    <3>1. PICK r : FileRead(p, r)
      BY <2>3 DEF ReadEOF, ReadMissing, ReadError
    <3>. QED
      BY <1>1, <3>1 DEF Op, FileRead, StoreInv, StoreTypeOK
  <2>4. CASE ListDone(p) \/ ReadDirError(p)
    BY <1>1, <2>4 DEF Op, ListDone, ReadDirError, StoreInv, StoreTypeOK
  <2>. QED
    BY <2>1, <2>2, <2>3, <2>4
<1>4. holdsMap' = holdsMap
  <2>1. io[p].pc # "write" /\ io'[p].pc # "write"
    BY <1>1, <1>3
  <2>2. \A x : View(x)' = View(x)
    BY <1>1, <1>2, <2>1, QuietViews
  <2>. QED
    BY <2>2, SameHolds
<1>5. Registers!Disturbed(p)
  <2>1. \A x \in Path : Known(seen'[p][x]) \in {Known(seen[p][x]), Known(seen[p][x]) \cup {Torn}}
    <3>1. ASSUME NEW x \in Path
          PROVE  Known(seen'[p][x]) \in {Known(seen[p][x]), Known(seen[p][x]) \cup {Torn}}
      <4>1. Known(seen[p][x] \cup {Torn}) = Known(seen[p][x]) \cup {Torn}
        BY Signs DEF Known
      <4>2. seen'[p][x] \in {seen[p][x], seen[p][x] \cup {Torn}}
        BY ReaderSees
      <4>. QED
        BY <4>1, <4>2
    <3>. QED
      BY <3>1
  <2>2. \A q \in Proc \ {p} : seen'[q] = seen[q]
    BY ReaderSees
  <2>3. \A x \in Path : mayMap'[p][x] \in {mayMap[p][x], mayMap[p][x] \cup {Torn}}
    BY <2>1 DEF mayMap
  <2>4. \A q \in Proc \ {p} : mayMap'[q] = mayMap[q]
    BY <2>2 DEF mayMap
  <2>. QED
    BY <2>3, <2>4 DEF Registers!Disturbed
<1>6. \A q \in Proc \ {p} : io'[q] = io[q]
  BY <1>2 DEF StoreInv, StoreTypeOK
<1>. QED
  BY <1>1, <1>3, <1>4, <1>5, <1>6

\* A read that returns with an answer its paths allow.
LEMMA Answers ==
  ASSUME StoreInv, ReadInv, ListsInv, NEW p \in Proc,
         \/ ReadDir(p) \/ ReadBlocks(p) \/ ReadEOF(p) \/ ReadMissing(p) \/ ReadError(p)
         \/ ListDone(p) \/ ReadDirError(p),
         io'[p].pc = "done", io'[p].op = io[p].op, io'[p].dir = io[p].dir, io'[p].kind = io[p].kind,
         io[p].op = "get" => io'[p].todo = io[p].todo,
         Registers!MayAnswer(mayMap'[p], callMap[p], io'[p].got, io'[p].err)
  PROVE  Registers!AnswerRead(p)
<1>1. /\ holdsMap' = holdsMap /\ spoiled' = spoiled /\ Registers!Disturbed(p)
      /\ \A q \in Proc \ {p} : io'[q] = io[q]
      /\ io'[p].doc = io[p].doc /\ io[p].pc \in {"readdir", "read"}
  BY ReaderMaps
<1>2. phaseMap[p] = "asked" /\ io[p].op \in {"get", "list"}
  BY <1>1, ReadCall
<1>3. callMap[p] = [op |-> io[p].op, kind |-> io[p].kind, paths |-> PathsOf(p), doc |-> io[p].doc,
                    got |-> <<>>, err |-> FALSE]
  BY <1>1, ReadCall
<1>4. PhaseOf(p)' = "done"
  BY DEF PhaseOf
<1>5. io[p].op = "get" => Target(p)' = Target(p)
  BY DEF Target, Current
<1>6. CallOf(p)' = [op |-> io[p].op, kind |-> io[p].kind, paths |-> PathsOf(p), doc |-> io[p].doc,
                    got |-> io'[p].got, err |-> io'[p].err]
  BY <1>1, <1>2, <1>5 DEF CallOf, PathsOf
<1>7. Registers!Step(p, {"asked"}, "done")
  BY <1>1, <1>2, <1>4, OneMoves DEF Registers!Step
<1>8. callMap' = [callMap EXCEPT ![p] = CallOf(p)']
  BY <1>1, OneMoves
<1>9. callMap'[p] = CallOf(p)'
  BY DEF callMap
<1>10. /\ callMap[p].op = io[p].op /\ callMap[p].kind = io[p].kind
       /\ callMap[p].paths = PathsOf(p)
       /\ callMap[p].doc = io[p].doc
       /\ callMap'[p].got = io'[p].got /\ callMap'[p].err = io'[p].err
  BY <1>3, <1>6, <1>9
<1>11. callMap' = [callMap EXCEPT ![p] = Registers!Answered(callMap[p], callMap'[p].got,
                                                            callMap'[p].err)]
  BY <1>6, <1>8, <1>10 DEF Registers!Answered
<1>. QED
  BY <1>1, <1>2, <1>7, <1>10, <1>11 DEF Registers!AnswerRead

\* A list that goes on is the same list to its caller.
LEMMA GoesOn ==
  ASSUME StoreInv, ReadInv, ListsInv, NEW p \in Proc,
         \/ ReadDir(p) \/ ReadBlocks(p) \/ ReadEOF(p) \/ ReadMissing(p) \/ ReadError(p)
         \/ ListDone(p) \/ ReadDirError(p),
         io'[p].pc = "read", io'[p].op = io[p].op, io'[p].dir = io[p].dir, io'[p].kind = io[p].kind,
         io'[p].err = FALSE, io[p].op = "get" => io'[p].todo = io[p].todo
  PROVE  Registers!Disturb(p)
<1>1. /\ holdsMap' = holdsMap /\ spoiled' = spoiled /\ Registers!Disturbed(p)
      /\ \A q \in Proc \ {p} : io'[q] = io[q]
      /\ io'[p].doc = io[p].doc /\ io[p].pc \in {"readdir", "read"}
  BY ReaderMaps
<1>2. phaseMap[p] = "asked" /\ io[p].op \in {"get", "list"}
  BY <1>1, ReadCall
<1>3. callMap[p] = [op |-> io[p].op, kind |-> io[p].kind, paths |-> PathsOf(p), doc |-> io[p].doc,
                    got |-> <<>>, err |-> FALSE]
  BY <1>1, ReadCall
<1>4. PhaseOf(p)' = "asked"
  BY DEF PhaseOf
<1>5. io[p].op = "get" => Target(p)' = Target(p)
  BY DEF Target, Current
<1>6. CallOf(p)' = [op |-> io[p].op, kind |-> io[p].kind, paths |-> PathsOf(p), doc |-> io[p].doc,
                    got |-> <<>>, err |-> FALSE]
  BY <1>1, <1>2, <1>5 DEF CallOf, PathsOf
<1>7. callMap' = callMap
  BY <1>1, <1>3, <1>6, OneMoves DEF callMap
<1>8. Registers!Step(p, {"asked"}, "asked")
  BY <1>1, <1>2, <1>4, OneMoves DEF Registers!Step
<1>. QED
  BY <1>1, <1>7, <1>8 DEF Registers!Disturb

LEMMA ReadDirMaps ==
  ASSUME StoreInv, ReadInv, ListsInv, NEW p \in Proc, ReadDir(p)
  PROVE  Registers!Disturb(p) \/ Registers!AnswerRead(p)
<1>1. /\ io[p] \in Op /\ io[p].pc = "readdir" /\ io[p].op = "list" /\ io[p].err = FALSE
      /\ io[p].got = <<>> /\ ReaderInv(p) /\ TreeInv /\ seen' = seen
  BY DEF StoreInv, StoreTypeOK, ReadDir, ReadInv, ReaderInv, OpShape, ListsInv, ListInv
<1>2. CASE io[p].dir \in dirs
  <2>1. /\ io'[p].pc = "read" /\ io'[p].op = io[p].op /\ io'[p].dir = io[p].dir /\ io'[p].kind = io[p].kind
        /\ io'[p].err = FALSE
    BY <1>1, <1>2 DEF ReadDir, StoreInv, StoreTypeOK, Op
  <2>. QED
    BY <1>1, <2>1, GoesOn
<1>3. CASE io[p].dir \notin dirs
  <2>1. /\ io'[p].pc = "done" /\ io'[p].op = io[p].op /\ io'[p].dir = io[p].dir /\ io'[p].kind = io[p].kind
        /\ io'[p].err = TRUE
    BY <1>1, <1>3 DEF ReadDir, StoreInv, StoreTypeOK, Op
  <2>2. ASSUME NEW x \in PathsOf(p) PROVE mayMap'[p][x] \cap {NoFile, Torn} # {}
    <3>1. x \in Path /\ x[1] = io[p].dir
      BY <1>1, <2>2 DEF PathsOf, DirPaths
    <3>2. x \notin created
      BY <1>1, <1>3, <3>1 DEF TreeInv, FilesHaveDirs
    <3>3. Asks(io[p], x) /\ IsReading(io[p])
      BY <1>1, <3>1 DEF Asks, IsReading
    <3>4. NoFile \in seen[p][x]
      BY <1>1, <3>1, <3>2, <3>3, Signs DEF ReaderInv, Watches, TreeInv, SeenCurrent, View
    <3>5. NoFile \in mayMap'[p][x]
      BY <1>1, <3>1, <3>4, Signs DEF mayMap, Known
    <3>. QED
      BY <3>5
  <2>3. Registers!MayAnswer(mayMap'[p], callMap[p], io'[p].got, io'[p].err)
    BY <1>1, <2>1, <2>2, ReadCall DEF Registers!MayAnswer
  <2>. QED
    BY <1>1, <2>1, <2>3, Answers
<1>. QED
  BY <1>2, <1>3

LEMMA ReadDirErrorMaps ==
  ASSUME StoreInv, ReadInv, ListsInv, NEW p \in Proc, ReadDirError(p)
  PROVE  Registers!AnswerRead(p)
<1>1. io[p] \in Op /\ io[p].pc = "readdir" /\ io[p].op = "list"
  BY DEF StoreInv, StoreTypeOK, ReadDirError, ReadInv, ReaderInv, OpShape
<1>2. /\ io'[p].pc = "done" /\ io'[p].op = io[p].op /\ io'[p].dir = io[p].dir /\ io'[p].kind = io[p].kind
      /\ io'[p].err = TRUE
  BY <1>1 DEF ReadDirError, StoreInv, StoreTypeOK, Op
<1>3. ASSUME NEW x \in PathsOf(p) PROVE mayMap'[p][x] \cap {NoFile, Torn} # {}
  <2>1. x \in Path /\ x \in DirPaths(io[p].dir)
    BY <1>1, <1>3 DEF PathsOf, DirPaths
  <2>2. Torn \in seen'[p][x]
    BY <2>1 DEF ReadDirError, Disturb, StoreInv, StoreTypeOK, SeenType
  <2>3. Torn \in mayMap'[p][x]
    BY <2>1, <2>2, Signs DEF mayMap, Known
  <2>. QED
    BY <2>3
<1>4. Registers!MayAnswer(mayMap'[p], callMap[p], io'[p].got, io'[p].err)
  BY <1>1, <1>2, <1>3, ReadCall DEF Registers!MayAnswer
<1>. QED
  BY <1>1, <1>2, <1>4, Answers

LEMMA ReadBlocksMaps ==
  ASSUME StoreInv, ReadInv, ListsInv, NEW p \in Proc, ReadBlocks(p)
  PROVE  Registers!Disturb(p)
<1>1. io[p] \in Op /\ io[p].pc = "read" /\ io[p].err = FALSE
  BY DEF StoreInv, StoreTypeOK, ReadBlocks, ListsInv, ListInv
<1>2. PICK c : io' = [io EXCEPT ![p].buf = c]
  BY DEF ReadBlocks
<1>3. /\ io'[p].pc = "read" /\ io'[p].op = io[p].op /\ io'[p].dir = io[p].dir /\ io'[p].kind = io[p].kind
      /\ io'[p].todo = io[p].todo /\ io'[p].err = FALSE
  BY <1>1, <1>2 DEF StoreInv, StoreTypeOK, Op
<1>. QED
  BY <1>3, GoesOn

\* A file was read: a get returns, a list goes on.
LEMMA FileReadMaps ==
  ASSUME StoreInv, ReadInv, ListsInv, NEW p \in Proc,
         ReadEOF(p) \/ ReadMissing(p) \/ ReadError(p)
  PROVE  Registers!Disturb(p) \/ Registers!AnswerRead(p)
<1>1. PICK r \in Result \cup {Failed} :
        /\ FileRead(p, r)
        /\ Target(p) \in Path => MayGet(seen'[p], io[p].kind, Target(p), r)
        /\ Target(p) \notin Path => r = Failed
  BY FileResult
<1>2. io[p] \in Op /\ io[p].pc = "read" /\ io[p].op \in {"get", "list"} /\ OpShape(io[p])
  BY DEF StoreInv, StoreTypeOK, ReadInv, ReaderInv, OpShape, ReadEOF, ReadMissing, ReadError
<1>3. CASE io[p].op = "list"
  <2>1. /\ io'[p].pc = "read" /\ io'[p].op = io[p].op /\ io'[p].dir = io[p].dir /\ io'[p].kind = io[p].kind
        /\ io'[p].err = FALSE
    BY <1>1, <1>2, <1>3 DEF FileRead, StoreInv, StoreTypeOK, Op
  <2>. QED
    BY <1>3, <2>1, GoesOn
<1>4. CASE io[p].op = "get"
  <2>1. /\ io'[p].pc = "done" /\ io'[p].op = io[p].op /\ io'[p].dir = io[p].dir /\ io'[p].kind = io[p].kind
        /\ io'[p].todo = io[p].todo /\ io'[p].err = (r = Failed)
        /\ io'[p].got = IF r = Failed THEN io[p].got ELSE Append(io[p].got, r)
    BY <1>1, <1>2, <1>4 DEF FileRead, StoreInv, StoreTypeOK, Op
  <2>2. \A x \in Path : mayMap'[p][x] = Known(seen'[p][x])
    BY DEF mayMap
  <2>3. Registers!MayAnswer(mayMap'[p], callMap[p], io'[p].got, io'[p].err)
    <3>1. CASE r = Failed
      <4>1. \A x \in PathsOf(p) : Registers!MayReturn(mayMap'[p][x], io[p].kind, Failed)
        BY <1>1, <1>4, <2>2, <3>1 DEF PathsOf, MayGet
      <4>2. io'[p].err = TRUE
        BY <2>1, <3>1
      <4>. QED
        BY <1>2, <1>4, <4>1, <4>2, ReadCall DEF Registers!MayAnswer
    <3>2. CASE r # Failed
      <4>1. Target(p) \in PathsOf(p)
            /\ Registers!MayReturn(mayMap'[p][Target(p)], io[p].kind, r)
        BY <1>1, <1>4, <2>2, <3>2 DEF PathsOf, MayGet
      <4>2. io[p].got = <<>>
        BY <1>2, <1>4 DEF OpShape
      <4>3. io'[p].got = <<r>> /\ io'[p].err = FALSE
        <5>1. io'[p].err = FALSE
          BY <2>1, <3>2
        <5>2. Append(<<>>, r) = <<r>>
          OBVIOUS
        <5>. QED
          BY <2>1, <3>2, <4>2, <5>1, <5>2
      <4>4. io'[p].got # <<>> /\ io'[p].got = <<io'[p].got[1]>> /\ io'[p].got[1] = r
        BY <4>3
      <4>. QED
        BY <1>2, <1>4, <4>1, <4>3, <4>4, ReadCall DEF Registers!MayAnswer
    <3>. QED
      BY <3>1, <3>2
  <2>. QED
    BY <2>1, <2>3, Answers
<1>. QED
  BY <1>2, <1>3, <1>4

\* A list that has read every file it found has an answer.
LEMMA ListDoneMaps ==
  ASSUME StoreInv, ReadInv, ListsInv, NEW p \in Proc, ListDone(p)
  PROVE  Registers!AnswerRead(p)
<1>1. io[p] \in Op /\ io[p].pc = "read" /\ io[p].todo = {} /\ seen' = seen
  BY DEF StoreInv, StoreTypeOK, ListDone
<1>2. io[p].op = "list" /\ io[p].err = FALSE
  BY <1>1 DEF ReadInv, ReaderInv, OpShape, ListsInv, ListInv
<1>3. /\ io'[p].pc = "done" /\ io'[p].op = io[p].op /\ io'[p].dir = io[p].dir /\ io'[p].kind = io[p].kind
      /\ io'[p].got = io[p].got /\ io'[p].err = FALSE
  BY <1>1, <1>2 DEF ListDone, StoreInv, StoreTypeOK, Op
<1>. DEFINE g == io[p].got
            X == DirPaths(io[p].dir)
<1>4. DOMAIN g = 1..Len(g)
  BY <1>1 DEF Op
<1>5. PICK f \in [1..Len(g) -> X] : Matched(io[p], seen[p], f)
  BY <1>1, <1>2 DEF ListsInv, ListInv
<1>6. /\ \A i, j \in 1..Len(g) : i < j => f[i][2] < f[j][2]
      /\ \A i \in 1..Len(g) : g[i] # Failed /\ MayGet(seen[p], io[p].kind, f[i], g[i])
      /\ \A x \in X : (\E i \in 1..Len(g) : f[i] = x) \/ MayGet(seen[p], io[p].kind, x, Failed)
  BY <1>1, <1>5 DEF Matched
<1>7. \A x \in X : \A r : MayGet(seen[p], io[p].kind, x, r) => Registers!MayReturn(mayMap'[p][x], io[p].kind, r)
  BY <1>1 DEF MayGet, mayMap, DirPaths
<1>. HIDE DEF g, X
<1>8. Registers!MayList(mayMap'[p], io[p].kind, X, g)
  <2>1. f \in [DOMAIN g -> X]
    BY <1>4, <1>5
  <2>2. \A i, j \in DOMAIN g : i < j => f[i][2] < f[j][2]
    BY <1>4, <1>6
  <2>3. \A i \in DOMAIN g : g[i] # Failed /\ Registers!MayReturn(mayMap'[p][f[i]], io[p].kind, g[i])
    BY <1>4, <1>5, <1>6, <1>7
  <2>4. \A x \in X : (\A i \in DOMAIN g : f[i] # x)
                       => Registers!MayReturn(mayMap'[p][x], io[p].kind, Failed)
    BY <1>4, <1>6, <1>7
  <2>. QED
    BY <2>1, <2>2, <2>3, <2>4 DEF Registers!MayList
<1>9. Registers!MayAnswer(mayMap'[p], callMap[p], io'[p].got, io'[p].err)
  BY <1>1, <1>2, <1>3, <1>8, ReadCall DEF Registers!MayAnswer, PathsOf, g, X
<1>. QED
  BY <1>2, <1>3, <1>9, Answers

-----------------------------------------------------------------------------
(***************************************************************************)
(* Calls, returns and crashes                                              *)
(***************************************************************************)

\* A caller that asks or hears an answer changes no file.
LEMMA CallerMaps ==
  ASSUME StoreInv, NEW p \in Proc, NEW o, io' = [io EXCEPT ![p] = o],
         io[p].pc \in {"idle", "done"}, o.pc # "write",
         UNCHANGED <<created, files, last, spoiled>>
  PROVE  /\ holdsMap' = holdsMap /\ spoiled' = spoiled
         /\ io'[p] = o /\ \A q \in Proc \ {p} : io'[q] = io[q]
         /\ phaseMap[p] = io[p].pc
         /\ phaseMap' = [phaseMap EXCEPT ![p] = PhaseOf(p)']
         /\ callMap' = [callMap EXCEPT ![p] = CallOf(p)']
<1>1. io'[p] = o /\ \A q \in Proc \ {p} : io'[q] = io[q]
  BY DEF StoreInv, StoreTypeOK
<1>2. holdsMap' = holdsMap
  BY QuietViews, SameHolds
<1>3. phaseMap[p] = io[p].pc
  BY DEF phaseMap, PhaseOf
<1>. QED
  BY <1>1, <1>2, <1>3, OneMoves

\* The path of an operation that starts with one name.
LEMMA NextTarget ==
  ASSUME NEW p, NEW n \in Nat, io'[p].todo = {n}
  PROVE  Target(p)' = <<io'[p].dir, n>>
<1>1. \A m \in {n} : n <= m
  OBVIOUS
<1>2. Current(p)' = n
  BY <1>1 DEF Current
<1>. QED
  BY <1>2 DEF Target

LEMMA AsksPutMaps ==
  ASSUME StoreInv, NEW p \in Proc, AsksPut(p)
  PROVE  Registers!AskPut(p)
<1>1. PICK x \in Path, d \in Doc : StartWrite(p, x, d)
  BY DEF AsksPut
<1>2. x[1] \in Dirs /\ x[2] \in Name /\ x = <<x[1], x[2]>>
  BY DEF Path
<1>3. io[p].pc = "idle" /\ UNCHANGED <<created, files, last, spoiled, seen>>
  BY DEF AsksPut, AskingToPut, Asking
<1>. DEFINE o == [Idle EXCEPT !.pc = "mkdir", !.op = "put", !.dir = x[1], !.todo = {x[2]},
                              !.doc = d]
<1>4. /\ o.pc = "mkdir" /\ o.op = "put" /\ o.dir = x[1] /\ o.todo = {x[2]} /\ o.doc = d
      /\ o.err = FALSE
  BY DEF Idle
<1>5. io' = [io EXCEPT ![p] = o]
  BY <1>1 DEF StartWrite
<1>. HIDE DEF o
<1>6. /\ holdsMap' = holdsMap /\ spoiled' = spoiled /\ io'[p] = o /\ phaseMap[p] = "idle"
      /\ phaseMap' = [phaseMap EXCEPT ![p] = PhaseOf(p)']
      /\ callMap' = [callMap EXCEPT ![p] = CallOf(p)']
  BY <1>3, <1>4, <1>5, CallerMaps
<1>7. {x} \cap Path = {x}
  OBVIOUS
<1>8. Target(p)' = x
  BY <1>2, <1>4, <1>6, IdFacts, NextTarget
<1>9. PhaseOf(p)' = "asked"
  BY <1>4, <1>6 DEF PhaseOf
<1>10. CallOf(p)' = Registers!Request("put", "none", {x}, d, FALSE)
  BY <1>4, <1>6, <1>7, <1>8 DEF CallOf, Registers!Request
<1>11. callMap'[p] = CallOf(p)' /\ mayMap' = mayMap
  BY <1>3, SameMay DEF callMap
<1>12. callMap'[p].doc = d
  BY <1>10, <1>11 DEF Registers!Request
<1>13. Registers!Step(p, {"idle"}, "asked")
  BY <1>6, <1>9 DEF Registers!Step
<1>. QED
  BY <1>6, <1>7, <1>10, <1>11, <1>12, <1>13 DEF Registers!AskPut

LEMMA AsksBadPutMaps ==
  ASSUME StoreInv, NEW p \in Proc, AsksBadPut(p)
  PROVE  Registers!RefusePut(p)
<1>1. PICK dir \in Dirs : PutReturns(p, dir, TRUE)
  BY DEF AsksBadPut
<1>2. io[p].pc = "idle" /\ UNCHANGED <<created, files, last, spoiled, seen>>
  BY DEF AsksBadPut, AskingToPut, Asking
<1>. DEFINE o == [Idle EXCEPT !.pc = "done", !.op = "put", !.dir = dir, !.err = TRUE]
<1>3. o.pc = "done" /\ io' = [io EXCEPT ![p] = o]
  BY <1>1 DEF Idle, PutReturns
<1>. HIDE DEF o
<1>4. /\ holdsMap' = holdsMap /\ spoiled' = spoiled /\ io'[p] = o /\ phaseMap[p] = "idle"
      /\ phaseMap' = [phaseMap EXCEPT ![p] = PhaseOf(p)']
      /\ callMap' = [callMap EXCEPT ![p] = CallOf(p)']
  BY <1>2, <1>3, CallerMaps
<1>5. PhaseOf(p)' = "done" /\ CallOf(p)' = Registers!Request("put", "none", {}, NoDoc, TRUE)
  BY <1>4, PutReturned DEF o
<1>6. mayMap' = mayMap
  BY <1>2, SameMay
<1>. QED
  BY <1>4, <1>5, <1>6 DEF Registers!RefusePut, Registers!Step, Registers!PutReturns

\* A reader that asks may from then on read what its paths hold.
LEMMA AskReadMaps ==
  ASSUME StoreInv, ReadInv, NEW p \in Proc, NEW o, io' = [io EXCEPT ![p] = o],
         io[p].pc = "idle", UNCHANGED <<created, files, last, spoiled>>,
         NEW X, Watch(p, X), NEW Y, Y = X \cap Path, NEW op \in {"get", "list"},
         NEW kind \in Dirs,
         Y \in IF op = "get" THEN Registers!OfGet ELSE {Registers!OfList(kind)},
         o.pc \in {"readdir", "read"}, CallOf(p)' = Registers!Request(op, kind, Y, NoDoc, FALSE)
  PROVE  Registers!AskRead(p)
<1>1. /\ holdsMap' = holdsMap /\ spoiled' = spoiled /\ io'[p] = o /\ phaseMap[p] = "idle"
      /\ phaseMap' = [phaseMap EXCEPT ![p] = PhaseOf(p)']
      /\ callMap' = [callMap EXCEPT ![p] = Registers!Request(op, kind, Y, NoDoc, FALSE)]
  BY CallerMaps
<1>2. PhaseOf(p)' = "asked"
  BY <1>1 DEF PhaseOf
<1>3. Registers!Step(p, {"idle"}, "asked")
  BY <1>1, <1>2 DEF Registers!Step
<1>4. mayMap' = [mayMap EXCEPT ![p] = [x \in Path |-> IF x \in Y THEN holdsMap[x] ELSE {}]]
  <2>1. \A x \in Path : Known(seen'[p][x]) = IF x \in Y THEN holdsMap[x] ELSE {}
    BY WatchFacts DEF holdsMap, Known
  <2>2. \A q \in Proc \ {p} : seen'[q] = seen[q]
    BY WatchFacts
  <2>. QED
    BY <2>1, <2>2 DEF mayMap
<1>. QED
  BY <1>1, <1>3, <1>4 DEF Registers!AskRead

LEMMA AsksGetMaps ==
  ASSUME StoreInv, ReadInv, NEW p \in Proc, AsksGet(p)
  PROVE  Registers!AskRead(p)
<1>1. PICK kind \in Dirs, x \in Dirs \X (Name \cup {NoId}) :
        AskingToRead(p, {x}) /\ StartGet(p, kind, x)
  BY DEF AsksGet
<1>. DEFINE o == [Idle EXCEPT !.pc = "read", !.op = "get", !.kind = kind, !.dir = x[1],
                              !.todo = {x[2]}]
            X == {x}
            Y == X \cap Path
<1>2. /\ o.pc = "read" /\ o.op = "get" /\ o.kind = kind /\ o.dir = x[1] /\ o.todo = {x[2]}
      /\ o.doc = NoDoc /\ o.err = FALSE
  BY DEF Idle
<1>3. io' = [io EXCEPT ![p] = o] /\ io'[p] = o
  BY <1>1 DEF StartGet, StoreInv, StoreTypeOK
<1>. HIDE DEF o
<1>4. Target(p)' = x
  <2>1. x[2] \in Name \cup {NoId} /\ x = <<x[1], x[2]>>
    BY <1>1
  <2>2. x[2] \in Nat
    BY <2>1, IdFacts
  <2>. QED
    BY <1>2, <1>3, <2>1, <2>2, NextTarget
<1>5. CallOf(p)' = Registers!Request("get", kind, Y, NoDoc, FALSE)
  BY <1>2, <1>3, <1>4 DEF CallOf, Registers!Request
<1>6. Y \in Registers!OfGet
  BY DEF Registers!OfGet
<1>7. io[p].pc = "idle" /\ UNCHANGED <<created, files, last, spoiled>> /\ Watch(p, X)
  BY <1>1 DEF AskingToRead, Asking
<1>. HIDE DEF X, Y
<1>8. Y = X \cap Path
  BY DEF Y
<1>9. PICK op \in {"get", "list"} : op = "get"
  OBVIOUS
<1>10. Y \in IF op = "get" THEN Registers!OfGet ELSE {Registers!OfList(kind)}
  BY <1>6, <1>9
<1>11. CallOf(p)' = Registers!Request(op, kind, Y, NoDoc, FALSE) /\ o.pc \in {"readdir", "read"}
  BY <1>2, <1>5, <1>9
<1>. QED
  BY <1>3, <1>7, <1>8, <1>10, <1>11, AskReadMaps

LEMMA AsksListMaps ==
  ASSUME StoreInv, ReadInv, NEW p \in Proc, AsksList(p)
  PROVE  Registers!AskRead(p)
<1>1. PICK dir \in Dirs : AskingToRead(p, DirPaths(dir)) /\ StartList(p, dir)
  BY DEF AsksList
<1>. DEFINE o == [Idle EXCEPT !.pc = "readdir", !.op = "list", !.kind = dir, !.dir = dir]
            X == DirPaths(dir)
<1>2. o.pc = "readdir" /\ o.op = "list" /\ o.kind = dir /\ o.dir = dir /\ o.doc = NoDoc /\ o.err = FALSE
  BY DEF Idle
<1>3. io' = [io EXCEPT ![p] = o] /\ io'[p] = o
  BY <1>1 DEF StartList, StoreInv, StoreTypeOK
<1>. HIDE DEF o
<1>4. CallOf(p)' = Registers!Request("list", dir, X, NoDoc, FALSE)
  BY <1>2, <1>3 DEF CallOf, Registers!Request
<1>5. X = Registers!OfList(dir)
  BY DEF Registers!OfList, DirPaths
<1>6. io[p].pc = "idle" /\ UNCHANGED <<created, files, last, spoiled>> /\ Watch(p, X)
  BY <1>1 DEF AskingToRead, Asking
<1>7. X = X \cap Path
  BY DEF DirPaths
<1>. HIDE DEF X
<1>. QED
  BY <1>2, <1>3, <1>4, <1>5, <1>6, <1>7, AskReadMaps

LEMMA ReturnMaps ==
  ASSUME StoreInv, NEW p \in Proc, Return(p)
  PROVE  Registers!Return(p)
<1>1. /\ io[p].pc = "done" /\ io' = [io EXCEPT ![p] = Idle]
      /\ UNCHANGED <<created, files, last, spoiled>>
  BY DEF Return
<1>2. /\ Idle.pc = "idle" /\ Idle.op = "none" /\ Idle.doc = NoDoc /\ Idle.got = <<>>
      /\ Idle.err = FALSE
  BY DEF Idle
<1>3. /\ holdsMap' = holdsMap /\ spoiled' = spoiled /\ io'[p] = Idle /\ phaseMap[p] = "done"
      /\ phaseMap' = [phaseMap EXCEPT ![p] = PhaseOf(p)']
      /\ callMap' = [callMap EXCEPT ![p] = CallOf(p)']
  BY <1>1, <1>2, CallerMaps
<1>4. PhaseOf(p)' = "idle"
  BY <1>2, <1>3 DEF PhaseOf
<1>5. CallOf(p)' = Registers!NoCall
  BY <1>2, <1>3 DEF CallOf, Registers!NoCall, Registers!Request
<1>6. mayMap' = [mayMap EXCEPT ![p] = Registers!Nothing]
  <2>1. /\ \A q \in Proc \ {p} : seen'[q] = seen[q]
        /\ \A x \in Path : Known(seen'[p][x]) = {}
    BY DEF Return, StoreInv, StoreTypeOK, SeenType, Known
  <2>. QED
    BY <2>1 DEF mayMap, Registers!Nothing
<1>7. Registers!Step(p, {"done"}, "idle")
  BY <1>3, <1>4 DEF Registers!Step
<1>. QED
  BY <1>3, <1>5, <1>6, <1>7 DEF Registers!Return

LEMMA CrashMaps ==
  ASSUME StoreInv, ReadInv, Crash
  PROVE  Registers!Restart
<1>1. /\ \A p \in Proc : io'[p] = Idle /\ \A x \in Path : seen'[p][x] = {}
      /\ UNCHANGED <<created, files, last>>
      /\ spoiled' = spoiled \cup {x \in Path : Writers(x) # {}}
  BY DEF Crash
<1>2. /\ Idle.pc = "idle" /\ Idle.op = "none" /\ Idle.doc = NoDoc /\ Idle.got = <<>>
      /\ Idle.err = FALSE
  BY DEF Idle
<1>3. phaseMap' = [p \in Proc |-> "idle"]
  BY <1>1, <1>2 DEF phaseMap, PhaseOf
<1>4. callMap' = [p \in Proc |-> Registers!NoCall]
  <2>1. \A p \in Proc : CallOf(p)' = Registers!NoCall
    BY <1>1, <1>2 DEF CallOf, Registers!NoCall, Registers!Request
  <2>. QED
    BY <2>1 DEF callMap
<1>5. mayMap' = [p \in Proc |-> Registers!Nothing]
  BY <1>1 DEF mayMap, Known, Registers!Nothing
<1>. DEFINE X == {x \in Path : Registers!Writing(x) # {}}
<1>6. \A x \in Path : Writers(x)' = {}
  BY <1>1, <1>2 DEF Writers
<1>7. X = {x \in Path : Writers(x) # {}}
  BY WritingIsWriters
<1>. HIDE DEF X
<1>8. ASSUME NEW x \in X
      PROVE  Torn \in holdsMap'[x] /\ holdsMap'[x] \subseteq holdsMap[x]
  <2>1. x \in Path /\ x \in created /\ x \in spoiled' /\ Torn \in View(x)
    BY <1>1, <1>7, <1>8, WriterView DEF ReadInv
  <2>2. View(x)' = {last[x]} \cup {files[x][i] : i \in DOMAIN files[x]} \cup {Torn}
    BY <1>1, <1>6, <2>1 DEF View
  <2>3. View(x)' \subseteq View(x)
    BY <2>1, <2>2 DEF View
  <2>. QED
    BY <2>1, <2>2, <2>3, Signs DEF holdsMap, Known
<1>9. ASSUME NEW y \in Path \ X PROVE holdsMap'[y] = holdsMap[y]
  <2>1. Writers(y) = {} /\ Writers(y)' = {} /\ (y \in spoiled' <=> y \in spoiled)
    BY <1>1, <1>6, <1>7
  <2>2. View(y)' = View(y)
    BY <1>1, <2>1, SameView
  <2>. QED
    BY <2>2 DEF holdsMap, Known
<1>10. Registers!InDoubt(X)
  BY <1>8, <1>9 DEF Registers!InDoubt
<1>. QED
  BY <1>1, <1>3, <1>4, <1>5, <1>7, <1>10 DEF Registers!Restart, X

-----------------------------------------------------------------------------
(***************************************************************************)
(* Every behaviour of the file store                                       *)
(***************************************************************************)

LEMMA InitMaps == StoreInit => Registers!Init
<1>. SUFFICES ASSUME StoreInit PROVE Registers!Init
  OBVIOUS
<1>1. PICK t \in Tree :
        /\ created = DOMAIN t
        /\ files = [x \in Path |-> IF x \in DOMAIN t THEN Image(t[x]) ELSE <<>>]
        /\ last = [x \in Path |-> IF x \in DOMAIN t THEN t[x] ELSE NoDoc]
  BY DEF StoreInit
<1>2. /\ spoiled = {}
      /\ \A p \in Proc : io[p] = Idle /\ \A x \in Path : seen[p][x] = {}
  BY DEF StoreInit
<1>3. /\ Idle.pc = "idle" /\ Idle.op = "none" /\ Idle.doc = NoDoc /\ Idle.got = <<>>
      /\ Idle.err = FALSE
  BY DEF Idle
<1>4. phaseMap = [p \in Proc |-> "idle"]
  BY <1>2, <1>3 DEF phaseMap, PhaseOf
<1>5. callMap = [p \in Proc |-> Registers!NoCall]
  <2>1. \A p \in Proc : CallOf(p) = Registers!NoCall
    BY <1>2, <1>3 DEF CallOf, Registers!NoCall, Registers!Request
  <2>. QED
    BY <2>1 DEF callMap
<1>6. mayMap = [p \in Proc |-> Registers!Nothing]
  BY <1>2 DEF mayMap, Known, Registers!Nothing
<1>7. ASSUME NEW x \in Path PROVE holdsMap[x] \in {{NoFile}} \cup {{d} : d \in Doc}
  <2>1. Writers(x) = {}
    BY <1>2, <1>3 DEF Writers
  <2>2. CASE x \notin created
    BY <2>2, Signs DEF holdsMap, View, Known
  <2>3. CASE x \in created
    <3>1. t[x] \in Doc /\ last[x] = t[x] /\ files[x] = Image(t[x])
      BY <1>1, <2>3, InputAssumption
    <3>2. \A i \in DOMAIN files[x] : files[x][i] = t[x]
      BY <3>1 DEF Image
    <3>3. View(x) = {t[x]}
      BY <1>2, <2>1, <2>3, <3>1, <3>2 DEF View
    <3>4. Known(View(x)) = {t[x]}
      BY <3>1, <3>3, Signs DEF Known
    <3>. QED
      BY <3>1, <3>4 DEF holdsMap
  <2>. QED
    BY <2>2, <2>3
<1>8. holdsMap \in [Path -> {{NoFile}} \cup {{d} : d \in Doc}]
  BY <1>7 DEF holdsMap
<1>. QED
  BY <1>2, <1>4, <1>5, <1>6, <1>8 DEF Registers!Init

\* Every step of the file store is a step of the registers, or none.
LEMMA NextMaps ==
  StoreInv /\ ReadInv /\ ListsInv /\ [StoreNext]_storeVars
    => [Registers!Next]_(Registers!storeVars)
<1>. SUFFICES ASSUME StoreInv, ReadInv, ListsInv, [StoreNext]_storeVars
              PROVE  Registers!Next \/ UNCHANGED Registers!storeVars
  OBVIOUS
<1>1. CASE UNCHANGED storeVars
  <2>1. \A x : Writers(x)' = Writers(x)
    BY <1>1 DEF storeVars, Writers, Target, Current
  <2>2. \A x \in Path : View(x)' = View(x)
    <3>1. \A x : {io'[p].doc : p \in Writers(x)'} = {io[p].doc : p \in Writers(x)}
      BY <1>1, <2>1 DEF storeVars
    <3>. QED
      BY <1>1, <2>1, <3>1, ZenonT(30) DEF storeVars, View
  <2>3. phaseMap' = phaseMap /\ callMap' = callMap
    BY <1>1 DEF storeVars, phaseMap, callMap, PhaseOf, CallOf, Target, Current
  <2>. QED
    BY <1>1, <2>2, <2>3, SameHolds, SameMay DEF storeVars, Registers!storeVars
<1>2. ASSUME NEW p \in Proc, Call(p) PROVE Registers!AskPut(p) \/ Registers!RefusePut(p)
                                             \/ Registers!AskRead(p)
  BY <1>2, CallKinds, AsksGetMaps, AsksListMaps, AsksPutMaps, AsksBadPutMaps
<1>3. ASSUME NEW p \in Proc, SysCall(p) \/ SysFault(p)
      PROVE  \/ Registers!BeginPut(p) \/ Registers!WritePut(p) \/ Registers!EndPut(p)
             \/ Registers!FailPut(p) \/ Registers!Disturb(p) \/ Registers!AnswerRead(p)
             \/ UNCHANGED Registers!storeVars
  BY <1>3, MkdirAllMaps, OpenTruncMaps, WriteBlocksMaps, CloseFileMaps, WriteErrorMaps,
     ReadDirMaps, ReadBlocksMaps, FileReadMaps, ListDoneMaps, ReadDirErrorMaps
     DEF SysCall, SysFault
<1>4. ASSUME NEW p \in Proc, Return(p) PROVE Registers!Return(p)
  BY <1>4, ReturnMaps
<1>5. CASE Crash
  BY <1>5, CrashMaps DEF Registers!Next
<1>. QED
  BY <1>1, <1>2, <1>3, <1>4, <1>5 DEF StoreNext, Registers!Next

\* filestore.go over fs.go implements the registers of storage.go for every
\* number of goroutines, documents and directories: every system call of a
\* put, get or list, failing or not, and every crash, is a step of the
\* registers or changes nothing a caller of the store can tell.
THEOREM StoreImplemented == StoreSpec => ImplementsStore
<1>1. StoreInit => StoreInv /\ ReadInv /\ ListsInv
  BY InitInv, InitRead, InitLists
<1>2. (StoreInv /\ ReadInv /\ ListsInv) /\ [StoreNext]_storeVars
        => (StoreInv /\ ReadInv /\ ListsInv)'
  BY NextInv, NextRead, NextLists
<1>. QED
  BY <1>1, <1>2, InitMaps, NextMaps, PTL DEF StoreSpec, ImplementsStore, Registers!Spec

=============================================================================
