---------------------------- MODULE SigningProofs ----------------------------
(***************************************************************************)
(* Proofs about Signing, for every set of texts, every env file and every  *)
(* number of pieces that a config is written in.                           *)
(***************************************************************************)
EXTENDS Signing, FiniteSetTheorems, SequenceTheorems, TLAPS

-----------------------------------------------------------------------------
(***************************************************************************)
(* The inductive invariant: a handler that has made some of its calls has  *)
(* written as much of its text                                             *)
(***************************************************************************)

\* The status of an outcome, the number of calls before its first write, and
\* the texts it may come to: one, but for an env file.
StatusOf(o) ==
  IF o.kind = "jsonError" THEN 500 ELSE IF o.kind = "notFound" THEN 404
  ELSE IF o.kind = "badRequest" THEN 400 ELSE IF o.kind = "unsatisfiable" THEN 416
  ELSE IF o.kind = "partial" THEN 206 ELSE 200

Pre(o) ==
  IF o.kind = "script" THEN 0 ELSE IF o.kind \in {"json", "env", "jsonError"} THEN 1 ELSE 2

Wholes(o) ==
  IF o.kind = "env" THEN Orders(Line)
  ELSE IF o.kind \in {"notFound", "badRequest", "unsatisfiable"} THEN {<<ErrorText>>}
  ELSE {o.text}

\* Content and env files are written piece by piece, the others at once.
Piecewise(o) == o.kind \in {"content", "partial", "env"}

Writes(o, w) == IF Piecewise(o) THEN Len(w) ELSE IF o.kind = "jsonError" THEN 0 ELSE 1

Total(o, w) == Pre(o) + Writes(o, w)

\* c is the j-th call of a handler of outcome o with text w.
Follows(c, o, w, j) ==
  IF j <= Pre(o)
  THEN /\ c.op \in {"Header", "WriteHeader"}
       /\ c.op = "WriteHeader" => c.code = StatusOf(o)
       /\ StatusOf(o) # 200 /\ j = Pre(o) => c.op = "WriteHeader"
  ELSE c.op = "Write" /\ c.text = IF Piecewise(o) THEN <<w[j - Pre(o)]>> ELSE w

\* What the first j calls of a handler have written.
SentBy(o, w, j) ==
  IF Piecewise(o) THEN [i \in 1..(IF j > Pre(o) THEN j - Pre(o) ELSE 0) |-> w[i]]
  ELSE IF j > Pre(o) THEN w ELSE <<>>

HeaderType == {"none", "application/json", "sniffed", "plain/text", "text/plain"}

CallType ==
  [op : {"Header", "WriteHeader", "Write"}, header : HeaderType, code : Nat, text : Text]

\* The calls that exchange e has made, and that it has yet to make.
Made(e, w) == Total(outcome, w) - Len(todo[e])

InHand(e, w) ==
  /\ todo[e] \in Seq(CallType)
  /\ Made(e, w) \in 0..Total(outcome, w)
  /\ \A i \in 1..Len(todo[e]) : Follows(todo[e][i], outcome, w, Made(e, w) + i)

\* An error status has been sent once the calls before the text are made.
StatusInv(e, w) ==
  /\ resp[e].status \in {0, StatusOf(outcome)}
  /\ StatusOf(outcome) # 200 /\ Made(e, w) >= Pre(outcome) =>
       resp[e].status = StatusOf(outcome)

PlainInv(w) ==
  /\ InHand("plain", w)
  /\ StatusInv("plain", w)
  /\ resp["plain"].body = SentBy(outcome, w, Made("plain", w))
  /\ phase["plain"] = "done" =>
       Made("plain", w) = Total(outcome, w) /\ resp["plain"].status = StatusOf(outcome)

\* How a signature exchange may have ended.
Signs ==
  /\ resp["sig"].status = StatusOf(outcome) /\ resp["sig"].header = "none"
  /\ resp["sig"].body = <<SignatureOf(buf)>>

SignFails ==
  /\ resp["sig"].status = IF StatusOf(outcome) = 200 THEN 500 ELSE StatusOf(outcome)
  /\ resp["sig"].body = <<ErrorText>>

SigInv(w) ==
  /\ InHand("sig", w)
  /\ buf = SentBy(outcome, w, Made("sig", w))
  /\ phase["sig"] = "handler" =>
       /\ StatusInv("sig", w) /\ resp["sig"].status # 200
       /\ resp["sig"].header = "none" /\ resp["sig"].body = <<>>
  /\ phase["sig"] = "done" =>
       Made("sig", w) = Total(outcome, w) /\ (Signs \/ SignFails)

\* No request was made yet.
Fresh ==
  /\ todo = [e \in Exchange |-> <<>>] /\ resp = [e \in Exchange |-> NoResponse]
  /\ buf = <<>> /\ phase = [e \in Exchange |-> "done"]

Fragment == Piece \cup {SignatureOf(t) : t \in Text}

ResponseType == [status : Nat, header : HeaderType, body : Seq(Fragment)]

SigningInv ==
  /\ outcome \in Outcome
  /\ DOMAIN todo = Exchange
  /\ phase \in [Exchange -> {"handler", "done"}]
  /\ resp \in [Exchange -> ResponseType]
  /\ Fresh \/ ((\E w \in Wholes(outcome) : PlainInv(w)) /\ (\E w \in Wholes(outcome) : SigInv(w)))

-----------------------------------------------------------------------------
(***************************************************************************)
(* Texts and scripts                                                       *)
(***************************************************************************)

LEMMA LineCount == Cardinality(Line) \in Nat
BY SigningAssumption, FS_CardinalityType

LEMMA TextIsSeq == Text \subseteq Seq(Piece)
BY SigningAssumption, LineCount, SeqDef DEF Text

LEMMA FunctionIsSeq ==
  ASSUME NEW S, NEW n \in Nat, NEW t \in [1..n -> S]
  PROVE  t \in Seq(S) /\ Len(t) = n
<1>1. t \in Seq(S)
  BY SeqDef
<1>2. DOMAIN t = 1..n /\ Len(t) \in Nat /\ DOMAIN t = 1..Len(t)
  BY <1>1
<1>. QED
  BY <1>1, <1>2

LEMMA ShortText ==
  ASSUME NEW n \in 0..(MaxPieces + Cardinality(Line) + 1), NEW t \in [1..n -> Piece]
  PROVE  t \in Text /\ Len(t) = n
<1>1. t \in Text
  BY DEF Text
<1>2. n \in Nat
  BY SigningAssumption, LineCount
<1>. QED
  BY <1>1, <1>2, TextIsSeq

LEMMA WholeIsText ==
  ASSUME NEW o \in Outcome, NEW w \in Wholes(o)
  PROVE  w \in Text
<1>1. CASE o.kind = "env"
  <2>1. w \in [1..Cardinality(Line) -> Line]
    BY <1>1 DEF Wholes, Orders
  <2>2. w \in [1..Cardinality(Line) -> Piece]
    BY <2>1 DEF Piece
  <2>3. Cardinality(Line) \in 0..(MaxPieces + Cardinality(Line) + 1)
    BY SigningAssumption, LineCount
  <2>. QED
    BY <2>2, <2>3, ShortText
<1>2. CASE o.kind \in {"notFound", "badRequest", "unsatisfiable"}
  <2>1. w = <<ErrorText>> /\ <<ErrorText>> \in [1..1 -> Piece]
    BY <1>2 DEF Wholes, Piece
  <2>2. 1 \in 0..(MaxPieces + Cardinality(Line) + 1)
    BY SigningAssumption, LineCount
  <2>. QED
    BY <2>1, <2>2, ShortText
<1>3. CASE o.kind \notin {"env", "notFound", "badRequest", "unsatisfiable"}
  <2>1. w = o.text
    BY <1>3 DEF Wholes
  <2>2. CASE o.text = <<>>
    <3>1. <<>> \in [1..0 -> Piece] /\ 0 \in 0..(MaxPieces + Cardinality(Line) + 1)
      BY SigningAssumption, LineCount
    <3>. QED
      BY <2>1, <2>2, <3>1, ShortText
  <2>3. CASE o.text # <<>>
    <3>1. PICK n \in 0..MaxPieces : o.text \in [1..n -> Chunk]
      BY <2>3 DEF Outcome
    <3>2. o.text \in [1..n -> Piece] /\ n \in 0..(MaxPieces + Cardinality(Line) + 1)
      BY <3>1, SigningAssumption, LineCount DEF Piece
    <3>. QED
      BY <2>1, <3>2, ShortText
  <2>. QED
    BY <2>2, <2>3
<1>. QED
  BY <1>1, <1>2, <1>3

LEMMA EmptyText == <<>> \in Text
<1>1. <<>> \in [1..0 -> Piece] /\ 0 \in 0..(MaxPieces + Cardinality(Line) + 1)
  BY SigningAssumption, LineCount
<1>. QED
  BY <1>1, ShortText

LEMMA OnePiece ==
  ASSUME NEW p \in Piece
  PROVE  <<p>> \in Text
<1>1. <<p>> \in [1..1 -> Piece] /\ 1 \in 0..(MaxPieces + Cardinality(Line) + 1)
  BY SigningAssumption, LineCount
<1>. QED
  BY <1>1, ShortText

LEMMA Calls ==
  /\ \A h \in HeaderType : SetHeader(h) \in CallType /\ SetHeader(h).op = "Header"
  /\ \A c \in Nat : WriteHeader(c) \in CallType /\ WriteHeader(c).op = "WriteHeader"
                    /\ WriteHeader(c).code = c
  /\ \A t \in Text : Write(t) \in CallType /\ Write(t).op = "Write" /\ Write(t).text = t
BY EmptyText DEF SetHeader, WriteHeader, Write, CallType, HeaderType

\* s is the script of a handler of outcome o with text w.
IsScript(s, o, w) ==
  /\ s \in Seq(CallType)
  /\ Len(s) = Total(o, w)
  /\ \A i \in 1..Len(s) : Follows(s[i], o, w, i)

\* A script that writes one piece of text after the other.
LEMMA PieceScript ==
  ASSUME NEW o \in Outcome, Piecewise(o), NEW w \in Wholes(o), NEW pre \in Seq(CallType),
         Len(pre) = Pre(o), \A i \in 1..Pre(o) : Follows(pre[i], o, w, i)
  PROVE  IsScript(pre \o [i \in 1..Len(w) |-> Write(<<w[i]>>)], o, w)
<1>. DEFINE ws == [i \in 1..Len(w) |-> Write(<<w[i]>>)]
            s == pre \o ws
<1>1. w \in Seq(Piece)
  BY WholeIsText, TextIsSeq
<1>2. Len(w) \in Nat /\ Pre(o) \in Nat
  BY <1>1 DEF Pre
<1>3. \A i \in 1..Len(w) : w[i] \in Piece
  BY <1>1
<1>4. \A i \in 1..Len(w) : /\ Write(<<w[i]>>) \in CallType /\ Write(<<w[i]>>).op = "Write"
                           /\ Write(<<w[i]>>).text = <<w[i]>>
  BY <1>3, OnePiece, Calls
<1>5. ws \in Seq(CallType) /\ Len(ws) = Len(w)
  <2>1. ws \in [1..Len(w) -> CallType]
    BY <1>4
  <2>. HIDE DEF ws
  <2>. QED
    BY <1>2, <2>1, FunctionIsSeq
<1>6. \A i \in 1..Len(w) : ws[i] = Write(<<w[i]>>)
  OBVIOUS
<1>. HIDE DEF ws
<1>7. /\ s \in Seq(CallType) /\ Len(s) = Pre(o) + Len(w)
      /\ \A i \in 1..Len(s) : s[i] = IF i <= Pre(o) THEN pre[i] ELSE ws[i - Pre(o)]
  BY <1>2, <1>5
<1>8. Len(s) = Total(o, w)
  BY <1>7 DEF Total, Writes
<1>9. ASSUME NEW i \in 1..Len(s) PROVE Follows(s[i], o, w, i)
  <2>1. CASE i <= Pre(o)
    BY <1>2, <1>7, <2>1
  <2>2. CASE i > Pre(o)
    <3>1. i - Pre(o) \in 1..Len(w) /\ s[i] = ws[i - Pre(o)]
      BY <1>2, <1>7, <2>2
    <3>2. s[i].op = "Write" /\ s[i].text = <<w[i - Pre(o)]>>
      BY <1>4, <1>6, <3>1
    <3>. QED
      BY <1>2, <2>2, <3>2 DEF Follows
  <2>. QED
    BY <1>2, <1>7, <2>1, <2>2
<1>. QED
  BY <1>7, <1>8, <1>9 DEF IsScript, ws

LEMMA ScriptsFollow ==
  ASSUME NEW o \in Outcome, NEW s \in Scripts(o)
  PROVE  \E w \in Wholes(o) : IsScript(s, o, w)
<1>0. o.kind \in {"script", "json", "content", "partial", "env", "jsonError",
                  "notFound", "badRequest", "unsatisfiable"}
  BY DEF Outcome
<1>1. \A w \in Wholes(o) : w \in Text /\ w \in Seq(Piece)
  BY WholeIsText, TextIsSeq
<1>2. <<ErrorText>> \in Text
  BY OnePiece DEF Piece
<1>3. CASE o.kind = "script"
  <2>1. s = <<Write(o.text)>> /\ o.text \in Wholes(o)
    BY <1>3 DEF Scripts, Wholes
  <2>2. /\ Write(o.text) \in CallType /\ Write(o.text).op = "Write"
        /\ Write(o.text).text = o.text
    BY <1>1, <2>1, Calls DEF HeaderType
  <2>3. s \in Seq(CallType) /\ Len(s) = 1 /\ s[1] = Write(o.text)
    BY <2>1, <2>2
  <2>. QED
    BY <1>3, <2>1, <2>2, <2>3 DEF IsScript, Total, Writes, Pre, Piecewise, Follows
<1>4. CASE o.kind = "json"
  <2>1. s = <<SetHeader("application/json"), Write(o.text)>> /\ o.text \in Wholes(o)
    BY <1>4 DEF Scripts, Wholes
  <2>2. /\ Write(o.text) \in CallType /\ Write(o.text).op = "Write"
        /\ Write(o.text).text = o.text
        /\ SetHeader("application/json") \in CallType
        /\ SetHeader("application/json").op = "Header"
    BY <1>1, <2>1, Calls DEF HeaderType
  <2>3. /\ s \in Seq(CallType) /\ Len(s) = 2
        /\ s[1] = SetHeader("application/json") /\ s[2] = Write(o.text)
    BY <2>1, <2>2
  <2>. QED
    BY <1>4, <2>1, <2>2, <2>3 DEF IsScript, Total, Writes, Pre, Piecewise, Follows, StatusOf
<1>5. CASE o.kind \in {"content", "partial"}
  <2>. DEFINE code == IF o.kind = "partial" THEN 206 ELSE 200
              pre == <<SetHeader("sniffed"), WriteHeader(code)>>
  <2>1. s = pre \o [i \in 1..Len(o.text) |-> Write(<<o.text[i]>>)] /\ o.text \in Wholes(o)
    BY <1>5 DEF Scripts, Wholes, ServeContent
  <2>2. /\ pre \in Seq(CallType) /\ Len(pre) = 2
        /\ pre[1].op = "Header" /\ pre[2].op = "WriteHeader" /\ pre[2].code = code
    BY Calls DEF HeaderType
  <2>. HIDE DEF pre
  <2>3. Piecewise(o) /\ Pre(o) = 2 /\ StatusOf(o) = code
    BY <1>5 DEF Piecewise, Pre, StatusOf
  <2>4. \A i \in 1..Pre(o) : Follows(pre[i], o, o.text, i)
    BY <2>2, <2>3 DEF Follows
  <2>5. ASSUME NEW w \in Wholes(o), w = o.text
        PROVE  IsScript(pre \o [i \in 1..Len(w) |-> Write(<<w[i]>>)], o, w)
    <3>1. \A i \in 1..Pre(o) : Follows(pre[i], o, w, i)
      BY <2>4, <2>5
    <3>2. Len(pre) = Pre(o)
      BY <2>2, <2>3
    <3>. QED
      BY <2>2, <2>3, <3>1, <3>2, PieceScript
  <2>. QED
    BY <2>1, <2>5
<1>6. CASE o.kind = "env"
  <2>. DEFINE pre == <<SetHeader("plain/text")>>
  <2>1. PICK f \in Wholes(o) : s = pre \o [i \in 1..Len(f) |-> Write(<<f[i]>>)]
    BY <1>6 DEF Scripts, Wholes
  <2>2. pre \in Seq(CallType) /\ Len(pre) = 1 /\ pre[1].op = "Header"
    BY Calls DEF HeaderType
  <2>. HIDE DEF pre
  <2>3. Piecewise(o) /\ Pre(o) = 1 /\ StatusOf(o) = 200
    BY <1>6 DEF Piecewise, Pre, StatusOf
  <2>4. \A i \in 1..Pre(o) : Follows(pre[i], o, f, i)
    BY <2>2, <2>3 DEF Follows
  <2>5. IsScript(pre \o [i \in 1..Len(f) |-> Write(<<f[i]>>)], o, f)
    BY <2>2, <2>3, <2>4, PieceScript
  <2>. QED
    BY <2>1, <2>5
<1>7. CASE o.kind = "jsonError"
  <2>1. s = <<WriteHeader(500)>> /\ o.text \in Wholes(o)
    BY <1>7 DEF Scripts, Wholes
  <2>2. /\ s \in Seq(CallType) /\ Len(s) = 1
        /\ s[1].op = "WriteHeader" /\ s[1].code = 500
    BY <2>1, Calls
  <2>. QED
    BY <1>7, <2>1, <2>2 DEF IsScript, Total, Writes, Pre, Piecewise, Follows, StatusOf
<1>8. CASE o.kind \in {"notFound", "badRequest", "unsatisfiable"}
  <2>. DEFINE code == IF o.kind = "notFound" THEN 404
                      ELSE IF o.kind = "badRequest" THEN 400 ELSE 416
  <2>1. s = <<SetHeader("text/plain"), WriteHeader(code), Write(<<ErrorText>>)>>
    BY <1>8 DEF Scripts, Error
  <2>2. <<ErrorText>> \in Wholes(o) /\ code \in Nat /\ code = StatusOf(o) /\ code # 200
    BY <1>8 DEF Wholes, StatusOf
  <2>. HIDE DEF code
  <2>3. /\ s \in Seq(CallType) /\ Len(s) = 3 /\ s[1].op = "Header"
        /\ s[2].op = "WriteHeader" /\ s[2].code = code
        /\ s[3].op = "Write" /\ s[3].text = <<ErrorText>>
    BY <1>2, <2>1, <2>2, Calls DEF HeaderType
  <2>4. Pre(o) = 2 /\ ~Piecewise(o) /\ Total(o, <<ErrorText>>) = 3
    BY <1>8 DEF Pre, Piecewise, Total, Writes
  <2>5. \A i \in 1..3 : Follows(s[i], o, <<ErrorText>>, i)
    BY <2>2, <2>3, <2>4 DEF Follows
  <2>. QED
    BY <2>2, <2>3, <2>4, <2>5 DEF IsScript
<1>. QED
  BY <1>0, <1>3, <1>4, <1>5, <1>6, <1>7, <1>8

-----------------------------------------------------------------------------
(***************************************************************************)
(* What a handler has written                                              *)
(***************************************************************************)

\* The sizes of a script.
LEMMA Sizes ==
  ASSUME NEW o \in Outcome, NEW w \in Wholes(o)
  PROVE  /\ w \in Seq(Piece) /\ w \in Text /\ Len(w) \in Nat
         /\ Pre(o) \in Nat /\ Writes(o, w) \in Nat /\ Total(o, w) \in Nat
         /\ Total(o, w) = Pre(o) + Writes(o, w)
         /\ Piecewise(o) => Writes(o, w) = Len(w)
         /\ ~Piecewise(o) => Writes(o, w) \in {0, 1}
         /\ ~Piecewise(o) /\ Writes(o, w) = 0 => w = <<>>
<1>1. w \in Seq(Piece) /\ w \in Text
  BY WholeIsText, TextIsSeq
<1>2. Len(w) \in Nat /\ Pre(o) \in Nat
  BY <1>1 DEF Pre
<1>3. o.kind = "jsonError" => w = <<>>
  BY DEF Wholes, Outcome
<1>. QED
  BY <1>1, <1>2, <1>3 DEF Writes, Total

LEMMA NoneSent ==
  ASSUME NEW o \in Outcome, NEW w \in Wholes(o)
  PROVE  SentBy(o, w, 0) = <<>>
BY Sizes DEF SentBy

LEMMA AllSent ==
  ASSUME NEW o \in Outcome, NEW w \in Wholes(o)
  PROVE  SentBy(o, w, Total(o, w)) = w
<1>1. CASE Piecewise(o)
  <2>1. SentBy(o, w, Total(o, w)) = [i \in 1..Len(w) |-> w[i]]
    <3>1. (IF Total(o, w) > Pre(o) THEN Total(o, w) - Pre(o) ELSE 0) = Len(w)
      BY <1>1, Sizes
    <3>. QED
      BY <1>1, <3>1 DEF SentBy
  <2>2. w = [i \in 1..Len(w) |-> w[i]]
    BY Sizes
  <2>. QED
    BY <2>1, <2>2
<1>2. CASE ~Piecewise(o)
  BY <1>2, Sizes DEF SentBy
<1>. QED
  BY <1>1, <1>2

\* A sequence that is cut off behind its k-th element.
LEMMA CutOff ==
  ASSUME NEW S, NEW w \in Seq(S), NEW k \in Nat, k < Len(w)
  PROVE  [i \in 1..(k + 1) |-> w[i]] = [i \in 1..k |-> w[i]] \o <<w[k + 1]>>
<1>. DEFINE a == [i \in 1..(k + 1) |-> w[i]]
            b == [i \in 1..k |-> w[i]]
            c == b \o <<w[k + 1]>>
<1>1. \A i \in 1..(k + 1) : w[i] \in S
  OBVIOUS
<1>2. a \in Seq(S) /\ Len(a) = k + 1
  <2>1. a \in [1..(k + 1) -> S]
    BY <1>1
  <2>. HIDE DEF a
  <2>. QED
    BY <2>1, FunctionIsSeq
<1>3. b \in Seq(S) /\ Len(b) = k
  <2>1. b \in [1..k -> S]
    BY <1>1
  <2>. HIDE DEF b
  <2>. QED
    BY <2>1, FunctionIsSeq
<1>4. \A i \in 1..k : b[i] = w[i]
  OBVIOUS
<1>5. \A i \in 1..(k + 1) : a[i] = w[i]
  OBVIOUS
<1>. HIDE DEF a, b
<1>6. c \in Seq(S) /\ Len(c) = k + 1
  BY <1>1, <1>3
<1>7. \A i \in 1..(k + 1) : c[i] = IF i <= k THEN b[i] ELSE w[k + 1]
  BY <1>1, <1>3
<1>. HIDE DEF c
<1>8. ASSUME NEW i \in 1..(k + 1) PROVE c[i] = a[i]
  <2>1. CASE i \in 1..k
    BY <1>4, <1>5, <1>7, <2>1
  <2>2. CASE i = k + 1
    BY <1>5, <1>7, <2>2
  <2>. QED
    BY <2>1, <2>2
<1>9. a = c
  BY <1>2, <1>6, <1>8
<1>. QED
  BY <1>9 DEF a, b, c

LEMMA SentMore ==
  ASSUME NEW o \in Outcome, NEW w \in Wholes(o), NEW j \in Nat, j < Total(o, w),
         NEW c, Follows(c, o, w, j + 1)
  PROVE  SentBy(o, w, j + 1) = IF c.op = "Write" THEN SentBy(o, w, j) \o c.text
                               ELSE SentBy(o, w, j)
<1>1. CASE j + 1 <= Pre(o)
  <2>1. c.op # "Write"
    BY <1>1 DEF Follows
  <2>2. ~(j > Pre(o)) /\ ~(j + 1 > Pre(o))
    BY <1>1, Sizes
  <2>. QED
    BY <2>1, <2>2 DEF SentBy
<1>2. CASE j + 1 > Pre(o)
  <2>1. c.op = "Write" /\ c.text = IF Piecewise(o) THEN <<w[(j + 1) - Pre(o)]>> ELSE w
    BY <1>2, Sizes DEF Follows
  <2>2. CASE Piecewise(o)
    <3>. DEFINE k == j - Pre(o)
    <3>1. k \in Nat /\ k < Len(w) /\ (j + 1) - Pre(o) = k + 1
      BY <1>2, <2>2, Sizes
    <3>2. /\ (IF j > Pre(o) THEN j - Pre(o) ELSE 0) = k
          /\ (IF j + 1 > Pre(o) THEN (j + 1) - Pre(o) ELSE 0) = k + 1
      BY <1>2, <3>1, Sizes
    <3>. HIDE DEF k
    <3>3. /\ SentBy(o, w, j) = [i \in 1..k |-> w[i]]
          /\ SentBy(o, w, j + 1) = [i \in 1..(k + 1) |-> w[i]]
      BY <2>2, <3>2 DEF SentBy
    <3>4. [i \in 1..(k + 1) |-> w[i]] = [i \in 1..k |-> w[i]] \o <<w[k + 1]>>
      BY <3>1, CutOff, Sizes
    <3>. QED
      BY <2>1, <2>2, <3>1, <3>3, <3>4
  <2>3. CASE ~Piecewise(o)
    <3>1. ~(j > Pre(o)) /\ j + 1 > Pre(o)
      BY <1>2, <2>3, Sizes
    <3>2. SentBy(o, w, j) = <<>> /\ SentBy(o, w, j + 1) = w
      BY <2>3, <3>1 DEF SentBy
    <3>. QED
      BY <2>1, <2>3, <3>2, Sizes
  <2>. QED
    BY <2>2, <2>3
<1>. QED
  BY <1>1, <1>2, Sizes

LEMMA SentIsText ==
  ASSUME NEW o \in Outcome, NEW w \in Wholes(o), NEW j \in 0..Total(o, w)
  PROVE  SentBy(o, w, j) \in Text /\ SentBy(o, w, j) \in Seq(Piece)
<1>1. CASE Piecewise(o)
  <2>. DEFINE k == IF j > Pre(o) THEN j - Pre(o) ELSE 0
  <2>1. k \in 0..Len(w)
    BY <1>1, Sizes
  <2>2. PICK n \in 0..(MaxPieces + Cardinality(Line) + 1) : w \in [1..n -> Piece]
    BY Sizes DEF Text
  <2>3. Len(w) = n
    BY <2>2, ShortText
  <2>4. k \in 0..(MaxPieces + Cardinality(Line) + 1) /\ \A i \in 1..k : w[i] \in Piece
    BY <2>1, <2>2, <2>3, SigningAssumption, LineCount
  <2>. HIDE DEF k
  <2>5. [i \in 1..k |-> w[i]] \in [1..k -> Piece]
    BY <2>4
  <2>6. [i \in 1..k |-> w[i]] \in Text
    BY <2>4, <2>5, ShortText
  <2>. QED
    BY <1>1, <2>6, TextIsSeq DEF SentBy, k
<1>2. CASE ~Piecewise(o)
  BY <1>2, Sizes, EmptyText, TextIsSeq DEF SentBy
<1>. QED
  BY <1>1, <1>2

\* A handler makes its next call.
LEMMA OneCall ==
  ASSUME outcome \in Outcome, NEW e \in Exchange, NEW w \in Wholes(outcome), InHand(e, w),
         todo[e] # <<>>, todo'[e] = Tail(todo[e]), outcome' = outcome
  PROVE  /\ InHand(e, w)' /\ Made(e, w)' = Made(e, w) + 1
         /\ Made(e, w) \in Nat /\ Made(e, w) < Total(outcome, w)
         /\ Head(todo[e]) \in CallType
         /\ Follows(Head(todo[e]), outcome, w, Made(e, w) + 1)
<1>. DEFINE t == todo[e]
            T == Total(outcome, w)
<1>1. t \in Seq(CallType) /\ Len(t) \in Nat /\ Len(t) > 0 /\ T \in Nat
  BY Sizes DEF InHand
<1>2. Made(e, w) = T - Len(t) /\ Made(e, w) \in 0..T
  BY DEF InHand, Made
<1>3. \A i \in 1..Len(t) : Follows(t[i], outcome, w, T - Len(t) + i)
  BY <1>2 DEF InHand
<1>. HIDE DEF T
<1>4. /\ Tail(t) \in Seq(CallType) /\ Len(Tail(t)) = Len(t) - 1
      /\ Head(t) = t[1] /\ \A i \in 1..Len(Tail(t)) : Tail(t)[i] = t[i + 1]
  BY <1>1
<1>5. Made(e, w)' = T - (Len(t) - 1)
  BY <1>4 DEF Made, T
<1>6. \A i \in 1..Len(Tail(t)) : Follows(Tail(t)[i], outcome, w, T - (Len(t) - 1) + i)
  <2>1. ASSUME NEW i \in 1..Len(Tail(t))
        PROVE  Follows(Tail(t)[i], outcome, w, T - (Len(t) - 1) + i)
    <3>1. i + 1 \in 1..Len(t) /\ Tail(t)[i] = t[i + 1]
      BY <1>1, <1>4
    <3>2. T - Len(t) + (i + 1) = T - (Len(t) - 1) + i
      BY <1>1, <3>1
    <3>. QED
      BY <1>3, <3>1, <3>2
  <2>. QED
    BY <2>1
<1>7. InHand(e, w)'
  BY <1>1, <1>2, <1>4, <1>5, <1>6 DEF InHand, T
<1>8. Follows(Head(t), outcome, w, Made(e, w) + 1) /\ Head(t) \in CallType
  <2>1. Head(t) = t[1] /\ t[1] \in CallType /\ 1 \in 1..Len(t)
    BY <1>1, <1>4
  <2>2. Follows(t[1], outcome, w, T - Len(t) + 1)
    BY <1>3, <2>1
  <2>. QED
    BY <1>2, <2>1, <2>2
<1>. QED
  BY <1>1, <1>2, <1>5, <1>7, <1>8 DEF T

\* A handler that has no call left has made them all.
LEMMA NoCallLeft ==
  ASSUME NEW e \in Exchange, NEW w, InHand(e, w), todo[e] = <<>>, Total(outcome, w) \in Nat
  PROVE  Made(e, w) = Total(outcome, w)
BY DEF InHand, Made

-----------------------------------------------------------------------------
(***************************************************************************)
(* The steps                                                               *)
(***************************************************************************)

LEMMA WriteHeaderType ==
  ASSUME NEW r \in ResponseType, NEW c \in Nat
  PROVE  /\ WriteHeaderTo(r, c) \in ResponseType
         /\ WriteHeaderTo(r, c).status = IF r.status = 0 THEN c ELSE r.status
         /\ WriteHeaderTo(r, c).body = r.body /\ WriteHeaderTo(r, c).header = r.header
BY DEF WriteHeaderTo, ResponseType

LEMMA SetHeaderType ==
  ASSUME NEW r \in ResponseType, NEW h \in HeaderType
  PROVE  /\ SetHeaderOn(r, h) \in ResponseType
         /\ SetHeaderOn(r, h).status = r.status /\ SetHeaderOn(r, h).body = r.body
BY DEF SetHeaderOn, ResponseType

LEMMA WriteType ==
  ASSUME NEW r \in ResponseType, NEW t \in Seq(Fragment)
  PROVE  /\ WriteTo(r, t) \in ResponseType
         /\ WriteTo(r, t).status = IF r.status = 0 THEN 200 ELSE r.status
         /\ WriteTo(r, t).body = r.body \o t /\ WriteTo(r, t).header = r.header
<1>. DEFINE q == WriteHeaderTo(r, 200)
<1>1. /\ q \in ResponseType /\ q.status = (IF r.status = 0 THEN 200 ELSE r.status)
      /\ q.body = r.body /\ q.header = r.header
  BY WriteHeaderType
<1>2. r.body \in Seq(Fragment)
  BY DEF ResponseType
<1>. DEFINE b == r.body \o t
<1>3. b \in Seq(Fragment)
  BY <1>2
<1>4. WriteTo(r, t) = [q EXCEPT !.body = b]
  BY DEF WriteTo
<1>. HIDE DEF q, b
<1>5. [q EXCEPT !.body = b] \in ResponseType
  BY <1>1, <1>3 DEF ResponseType
<1>6. /\ [q EXCEPT !.body = b].status = q.status /\ [q EXCEPT !.body = b].header = q.header
      /\ [q EXCEPT !.body = b].body = b
  BY <1>1 DEF ResponseType
<1>. QED
  BY <1>1, <1>4, <1>5, <1>6 DEF b

LEMMA TextIsFragments == Text \subseteq Seq(Fragment)
<1>1. Piece \subseteq Fragment
  BY DEF Fragment
<1>. QED
  BY <1>1, TextIsSeq

\* An exchange that a step leaves alone.
LEMMA PlainFrame ==
  ASSUME NEW w, PlainInv(w), outcome' = outcome, todo'["plain"] = todo["plain"],
         resp'["plain"] = resp["plain"], phase'["plain"] = phase["plain"]
  PROVE  PlainInv(w)'
BY DEF PlainInv, InHand, StatusInv, Made

LEMMA SigFrame ==
  ASSUME NEW w, SigInv(w), outcome' = outcome, todo'["sig"] = todo["sig"], buf' = buf,
         resp'["sig"] = resp["sig"], phase'["sig"] = phase["sig"]
  PROVE  SigInv(w)'
BY DEF SigInv, InHand, StatusInv, Made, Signs, SignFails

LEMMA StatusType == \A o : StatusOf(o) \in {200, 206, 400, 404, 416, 500}
BY DEF StatusOf

\* A call on the plain writer leaves a response as far as its script has got.
LEMMA PlainCallStep ==
  ASSUME SigningInv, PlainCall
  PROVE  SigningInv'
<1>1. /\ phase["plain"] = "handler" /\ todo["plain"] # <<>>
      /\ todo' = [todo EXCEPT !["plain"] = Tail(@)] /\ UNCHANGED <<outcome, buf, phase>>
      /\ "plain" \in Exchange /\ "sig" \in Exchange
  BY DEF PlainCall, Exchange
<1>2. /\ outcome \in Outcome /\ DOMAIN todo = Exchange /\ resp \in [Exchange -> ResponseType]
      /\ phase \in [Exchange -> {"handler", "done"}]
  BY DEF SigningInv
<1>3. PICK w \in Wholes(outcome) : PlainInv(w)
  BY <1>1 DEF SigningInv, Fresh
<1>4. PICK v \in Wholes(outcome) : SigInv(v)
  BY <1>1 DEF SigningInv, Fresh
<1>. DEFINE c == Head(todo["plain"])
            r == resp["plain"]
            q == CASE c.op = "Header" -> SetHeaderOn(r, c.header)
                   [] c.op = "WriteHeader" -> WriteHeaderTo(r, c.code)
                   [] OTHER -> WriteTo(r, c.text)
            j == Made("plain", w)
<1>5. resp' = [resp EXCEPT !["plain"] = q]
  BY DEF PlainCall
<1>6. todo'["plain"] = Tail(todo["plain"]) /\ todo'["sig"] = todo["sig"] /\ DOMAIN todo' = Exchange
  BY <1>1, <1>2
<1>7. /\ InHand("plain", w)' /\ Made("plain", w)' = j + 1 /\ j \in Nat /\ j < Total(outcome, w)
      /\ c \in CallType /\ Follows(c, outcome, w, j + 1)
  BY <1>1, <1>2, <1>3, <1>6, OneCall DEF PlainInv
<1>8. r \in ResponseType /\ c.text \in Seq(Fragment) /\ c.code \in Nat /\ c.header \in HeaderType
      /\ c.op \in {"Header", "WriteHeader", "Write"}
  BY <1>1, <1>2, <1>7, TextIsFragments DEF CallType
<1>9. /\ StatusInv("plain", w) /\ r.body = SentBy(outcome, w, j)
      /\ r.status \in {0, StatusOf(outcome)} /\ Pre(outcome) \in Nat
      /\ StatusOf(outcome) # 200 /\ j >= Pre(outcome) => r.status = StatusOf(outcome)
  BY <1>2, <1>3, Sizes DEF PlainInv, StatusInv
<1>. HIDE DEF c, r, j
<1>10. /\ q \in ResponseType
       /\ q.body = IF c.op = "Write" THEN r.body \o c.text ELSE r.body
       /\ q.status = IF c.op = "Header" THEN r.status
                     ELSE IF r.status # 0 THEN r.status
                     ELSE IF c.op = "WriteHeader" THEN c.code ELSE 200
  BY <1>8, WriteHeaderType, SetHeaderType, WriteType, ZenonT(30)
<1>. HIDE DEF q
<1>11. q.body = SentBy(outcome, w, j + 1)
  BY <1>2, <1>7, <1>9, <1>10, SentMore
<1>12. /\ q.status \in {0, StatusOf(outcome)}
       /\ StatusOf(outcome) # 200 /\ j + 1 >= Pre(outcome) => q.status = StatusOf(outcome)
  <2>1. CASE j + 1 <= Pre(outcome)
    <3>1. /\ c.op \in {"Header", "WriteHeader"}
          /\ c.op = "WriteHeader" => c.code = StatusOf(outcome)
          /\ StatusOf(outcome) # 200 /\ j + 1 = Pre(outcome) => c.op = "WriteHeader"
      BY <1>7, <2>1 DEF Follows
    <3>. QED
      BY <1>7, <1>9, <1>10, <2>1, <3>1, StatusType
  <2>2. CASE j >= Pre(outcome)
    <3>1. c.op = "Write"
      BY <1>7, <1>9, <2>2 DEF Follows
    <3>. QED
      BY <1>9, <1>10, <2>2, <3>1, StatusType
  <2>. QED
    BY <1>7, <1>9, <2>1, <2>2
<1>13. PlainInv(w)'
  BY <1>1, <1>2, <1>5, <1>7, <1>11, <1>12 DEF PlainInv, StatusInv
<1>14. SigInv(v)'
  BY <1>1, <1>2, <1>4, <1>5, <1>6, SigFrame
<1>15. resp' \in [Exchange -> ResponseType]
  BY <1>2, <1>5, <1>10
<1>. QED
  BY <1>1, <1>2, <1>6, <1>13, <1>14, <1>15 DEF SigningInv

LEMMA PlainReturnStep ==
  ASSUME SigningInv, PlainReturn
  PROVE  SigningInv'
<1>1. /\ phase["plain"] = "handler" /\ todo["plain"] = <<>>
      /\ resp' = [resp EXCEPT !["plain"] = WriteHeaderTo(@, 200)]
      /\ phase' = [phase EXCEPT !["plain"] = "done"] /\ UNCHANGED <<outcome, todo, buf>>
      /\ "plain" \in Exchange /\ "sig" \in Exchange
  BY DEF PlainReturn, Exchange
<1>2. /\ outcome \in Outcome /\ DOMAIN todo = Exchange /\ resp \in [Exchange -> ResponseType]
      /\ phase \in [Exchange -> {"handler", "done"}]
  BY DEF SigningInv
<1>3. PICK w \in Wholes(outcome) : PlainInv(w)
  BY <1>1 DEF SigningInv, Fresh
<1>4. PICK v \in Wholes(outcome) : SigInv(v)
  BY <1>1 DEF SigningInv, Fresh
<1>. DEFINE r == resp["plain"]
            q == WriteHeaderTo(r, 200)
<1>5. q \in ResponseType /\ q.body = r.body /\ q.status = IF r.status = 0 THEN 200 ELSE r.status
  BY <1>1, <1>2, WriteHeaderType
<1>6. resp' = [resp EXCEPT !["plain"] = q]
  BY <1>1
<1>. HIDE DEF q
<1>7. Made("plain", w) = Total(outcome, w) /\ Total(outcome, w) >= Pre(outcome)
  BY <1>1, <1>2, <1>3, NoCallLeft, Sizes DEF PlainInv
<1>8. q.status = StatusOf(outcome)
  BY <1>3, <1>5, <1>7, StatusType DEF PlainInv, StatusInv
<1>9. Made("plain", w)' = Made("plain", w) /\ InHand("plain", w)'
  BY <1>1, <1>3 DEF Made, InHand, PlainInv
<1>10. PlainInv(w)'
  BY <1>1, <1>2, <1>3, <1>5, <1>6, <1>7, <1>8, <1>9 DEF PlainInv, StatusInv
<1>11. SigInv(v)'
  BY <1>1, <1>2, <1>4, <1>6, SigFrame
<1>12. resp' \in [Exchange -> ResponseType] /\ phase' \in [Exchange -> {"handler", "done"}]
  BY <1>1, <1>2, <1>5, <1>6
<1>. QED
  BY <1>1, <1>2, <1>10, <1>11, <1>12 DEF SigningInv

\* A call on the signature writer, which keeps the body back and lets through
\* no status but an error.
LEMMA SigCallStep ==
  ASSUME SigningInv, SigHeader \/ SigWriteHeader \/ SigWrite
  PROVE  SigningInv'
<1>1. /\ phase["sig"] = "handler" /\ todo["sig"] # <<>>
      /\ todo' = [todo EXCEPT !["sig"] = Tail(@)] /\ UNCHANGED <<outcome, phase>>
      /\ "plain" \in Exchange /\ "sig" \in Exchange
  BY DEF SigHeader, SigWriteHeader, SigWrite, Exchange
<1>2. /\ outcome \in Outcome /\ DOMAIN todo = Exchange /\ resp \in [Exchange -> ResponseType]
      /\ phase \in [Exchange -> {"handler", "done"}]
  BY DEF SigningInv
<1>3. PICK w \in Wholes(outcome) : PlainInv(w)
  BY <1>1 DEF SigningInv, Fresh
<1>4. PICK v \in Wholes(outcome) : SigInv(v)
  BY <1>1 DEF SigningInv, Fresh
<1>. DEFINE c == Head(todo["sig"])
            r == resp["sig"]
            q == IF c.op = "WriteHeader" /\ c.code # 200 THEN WriteHeaderTo(r, c.code) ELSE r
            j == Made("sig", v)
<1>5. todo'["sig"] = Tail(todo["sig"]) /\ todo'["plain"] = todo["plain"] /\ DOMAIN todo' = Exchange
  BY <1>1, <1>2
<1>6. /\ InHand("sig", v)' /\ Made("sig", v)' = j + 1 /\ j \in Nat /\ j < Total(outcome, v)
      /\ c \in CallType /\ Follows(c, outcome, v, j + 1)
  BY <1>1, <1>2, <1>4, <1>5, OneCall DEF SigInv
<1>7. r \in ResponseType /\ c.code \in Nat /\ Pre(outcome) \in Nat
  BY <1>1, <1>2, <1>6, Sizes DEF CallType
<1>8. /\ buf = SentBy(outcome, v, j)
      /\ r.status \in {0, StatusOf(outcome)} /\ r.status # 200
      /\ StatusOf(outcome) # 200 /\ j >= Pre(outcome) => r.status = StatusOf(outcome)
      /\ r.header = "none" /\ r.body = <<>>
  BY <1>1, <1>4 DEF SigInv, StatusInv
<1>9. /\ resp' = [resp EXCEPT !["sig"] = q]
      /\ buf' = IF c.op = "Write" THEN buf \o c.text ELSE buf
  <2>1. CASE SigHeader
    BY <1>1, <1>2, <2>1 DEF SigHeader
  <2>2. CASE SigWriteHeader
    <3>1. /\ c.op = "WriteHeader" /\ buf' = buf
          /\ resp' = IF c.code = 200 THEN resp
                     ELSE [resp EXCEPT !["sig"] = WriteHeaderTo(r, c.code)]
      BY <2>2 DEF SigWriteHeader
    <3>2. resp = [resp EXCEPT !["sig"] = r]
      BY <1>2
    <3>. HIDE DEF c, r
    <3>3. CASE c.code = 200
      BY <3>1, <3>2, <3>3
    <3>4. CASE c.code # 200
      BY <3>1, <3>4
    <3>. QED
      BY <3>3, <3>4
  <2>3. CASE SigWrite
    BY <1>1, <1>2, <2>3 DEF SigWrite
  <2>. QED
    BY <2>1, <2>2, <2>3
<1>. HIDE DEF c, r, j
<1>10. /\ q \in ResponseType /\ q.header = "none" /\ q.body = <<>>
       /\ q.status = IF c.op = "WriteHeader" /\ c.code # 200 /\ r.status = 0 THEN c.code
                     ELSE r.status
  BY <1>7, <1>8, WriteHeaderType, ZenonT(30)
<1>. HIDE DEF q
<1>11. buf' = SentBy(outcome, v, j + 1)
  BY <1>2, <1>6, <1>8, <1>9, SentMore
<1>12. /\ q.status \in {0, StatusOf(outcome)} /\ q.status # 200
       /\ StatusOf(outcome) # 200 /\ j + 1 >= Pre(outcome) => q.status = StatusOf(outcome)
  <2>1. CASE j + 1 <= Pre(outcome)
    <3>1. /\ c.op \in {"Header", "WriteHeader"}
          /\ c.op = "WriteHeader" => c.code = StatusOf(outcome)
          /\ StatusOf(outcome) # 200 /\ j + 1 = Pre(outcome) => c.op = "WriteHeader"
      BY <1>6, <2>1 DEF Follows
    <3>. QED
      BY <1>6, <1>7, <1>8, <1>10, <2>1, <3>1, StatusType
  <2>2. CASE j >= Pre(outcome)
    <3>1. c.op = "Write"
      BY <1>6, <1>7, <2>2 DEF Follows
    <3>. QED
      BY <1>8, <1>10, <2>2, <3>1, StatusType
  <2>. QED
    BY <1>6, <1>7, <2>1, <2>2
<1>13. SigInv(v)'
  BY <1>1, <1>2, <1>6, <1>9, <1>10, <1>11, <1>12 DEF SigInv, StatusInv
<1>14. PlainInv(w)'
  BY <1>1, <1>2, <1>3, <1>5, <1>9, PlainFrame
<1>15. resp' \in [Exchange -> ResponseType]
  BY <1>2, <1>9, <1>10
<1>. QED
  BY <1>1, <1>2, <1>5, <1>13, <1>14, <1>15 DEF SigningInv

\* The wrapped handler has returned: what it wrote is signed, or signing fails.
LEMMA FlushStep ==
  ASSUME SigningInv, Flush \/ FlushError
  PROVE  SigningInv'
<1>1. /\ phase["sig"] = "handler" /\ todo["sig"] = <<>>
      /\ phase' = [phase EXCEPT !["sig"] = "done"] /\ UNCHANGED <<outcome, todo, buf>>
      /\ "plain" \in Exchange /\ "sig" \in Exchange
  BY DEF Flush, FlushError, Exchange
<1>2. /\ outcome \in Outcome /\ DOMAIN todo = Exchange /\ resp \in [Exchange -> ResponseType]
      /\ phase \in [Exchange -> {"handler", "done"}]
  BY DEF SigningInv
<1>3. PICK w \in Wholes(outcome) : PlainInv(w)
  BY <1>1 DEF SigningInv, Fresh
<1>4. PICK v \in Wholes(outcome) : SigInv(v)
  BY <1>1 DEF SigningInv, Fresh
<1>. DEFINE r == resp["sig"]
            T == Total(outcome, v)
<1>5. Made("sig", v) = T /\ T \in Nat /\ T >= Pre(outcome)
  BY <1>1, <1>2, <1>4, NoCallLeft, Sizes DEF SigInv
<1>6. /\ r.header = "none" /\ r.body = <<>> /\ r \in ResponseType
      /\ r.status = IF StatusOf(outcome) = 200 THEN 0 ELSE StatusOf(outcome)
      /\ buf = SentBy(outcome, v, T)
  BY <1>1, <1>2, <1>4, <1>5 DEF SigInv, StatusInv
<1>7. buf \in Text
  BY <1>2, <1>5, <1>6, SentIsText
<1>. HIDE DEF r
<1>8. PICK q \in ResponseType :
        /\ resp' = [resp EXCEPT !["sig"] = q]
        /\ \/ /\ q.status = StatusOf(outcome) /\ q.header = "none"
              /\ q.body = <<SignatureOf(buf)>>
           \/ /\ q.status = IF StatusOf(outcome) = 200 THEN 500 ELSE StatusOf(outcome)
              /\ q.body = <<ErrorText>>
  <2>1. CASE Flush
    <3>. DEFINE t == <<SignatureOf(buf)>>
    <3>1. t \in Seq(Fragment)
      BY <1>7 DEF Fragment
    <3>2. resp' = [resp EXCEPT !["sig"] = WriteTo(r, t)]
      BY <2>1 DEF Flush, r
    <3>3. <<>> \o t = t
      OBVIOUS
    <3>. HIDE DEF t
    <3>4. /\ WriteTo(r, t) \in ResponseType /\ WriteTo(r, t).header = "none"
          /\ WriteTo(r, t).body = t
          /\ WriteTo(r, t).status = IF r.status = 0 THEN 200 ELSE r.status
      BY <1>6, <3>1, <3>3, WriteType
    <3>5. WriteTo(r, t).status = StatusOf(outcome)
      BY <1>6, <3>4, StatusType
    <3>. QED
      BY <3>2, <3>4, <3>5 DEF t
  <2>2. CASE FlushError
    <3>. DEFINE t == <<ErrorText>>
                h == SetHeaderOn(r, "text/plain")
                s == WriteHeaderTo(h, 500)
    <3>1. t \in Seq(Fragment)
      BY DEF Fragment, Piece
    <3>2. resp' = [resp EXCEPT !["sig"] = WriteTo(s, t)]
      BY <2>2 DEF FlushError, ErrorOn, r
    <3>3. <<>> \o t = t
      OBVIOUS
    <3>. HIDE DEF t
    <3>4. h \in ResponseType /\ h.status = r.status /\ h.body = <<>>
      BY <1>6, SetHeaderType DEF HeaderType
    <3>. HIDE DEF h
    <3>5. s \in ResponseType /\ s.status = (IF r.status = 0 THEN 500 ELSE r.status) /\ s.body = <<>>
      BY <3>4, WriteHeaderType, SMTT(30)
    <3>. HIDE DEF s
    <3>6. /\ WriteTo(s, t) \in ResponseType /\ WriteTo(s, t).body = t
          /\ WriteTo(s, t).status = IF s.status = 0 THEN 200 ELSE s.status
      BY <3>1, <3>3, <3>5, WriteType
    <3>7. WriteTo(s, t).status = IF StatusOf(outcome) = 200 THEN 500 ELSE StatusOf(outcome)
      BY <1>6, <3>5, <3>6, StatusType
    <3>. QED
      BY <3>2, <3>6, <3>7 DEF t
  <2>. QED
    BY <2>1, <2>2
<1>9. resp'["sig"] = q /\ resp'["plain"] = resp["plain"] /\ resp' \in [Exchange -> ResponseType]
  BY <1>1, <1>2, <1>8
<1>10. Signs' \/ SignFails'
  BY <1>1, <1>8, <1>9 DEF Signs, SignFails
<1>11. Made("sig", v)' = Made("sig", v) /\ InHand("sig", v)'
  BY <1>1, <1>4 DEF Made, InHand, SigInv
<1>12. SigInv(v)'
  BY <1>1, <1>2, <1>5, <1>6, <1>10, <1>11 DEF SigInv
<1>13. PlainInv(w)'
  BY <1>1, <1>2, <1>3, <1>9, PlainFrame
<1>14. phase' \in [Exchange -> {"handler", "done"}]
  BY <1>1, <1>2
<1>. QED
  BY <1>1, <1>2, <1>9, <1>12, <1>13, <1>14 DEF SigningInv

LEMMA NoResponseType ==
  NoResponse \in ResponseType /\ NoResponse.status = 0 /\ NoResponse.header = "none"
  /\ NoResponse.body = <<>>
BY DEF NoResponse, ResponseType, HeaderType

\* Two new exchanges.
LEMMA RequestStep ==
  ASSUME SigningInv, Request
  PROVE  SigningInv'
<1>1. PICK s \in Scripts(outcome'), t \in Scripts(outcome') :
        todo' = [plain |-> s, sig |-> t]
  BY DEF Request
<1>2. /\ outcome' \in Outcome /\ resp' = [e \in Exchange |-> NoResponse] /\ buf' = <<>>
      /\ phase' = [e \in Exchange |-> "handler"]
  BY DEF Request
<1>3. Exchange = {"plain", "sig"}
  BY DEF Exchange
<1>4. todo'["plain"] = s /\ todo'["sig"] = t /\ DOMAIN todo' = Exchange
  BY <1>1, <1>3
<1>5. ASSUME NEW e \in Exchange, NEW u \in Scripts(outcome'), todo'[e] = u
      PROVE  \E w \in Wholes(outcome') : /\ InHand(e, w)' /\ Made(e, w)' = 0 /\ StatusInv(e, w)'
                                         /\ SentBy(outcome', w, 0) = <<>>
  <2>1. PICK w \in Wholes(outcome') : IsScript(u, outcome', w)
    BY <1>2, <1>5, ScriptsFollow
  <2>2. Total(outcome', w) \in Nat /\ Pre(outcome') \in Nat
    BY <1>2, Sizes
  <2>3. Made(e, w)' = 0
    BY <1>5, <2>1, <2>2 DEF IsScript, Made
  <2>4. InHand(e, w)'
    BY <1>5, <2>1, <2>2, <2>3 DEF IsScript, InHand
  <2>5. StatusOf(outcome') # 200 => Pre(outcome') > 0
    BY DEF StatusOf, Pre
  <2>6. StatusInv(e, w)'
    BY <1>2, <2>2, <2>3, <2>5, NoResponseType DEF StatusInv
  <2>. QED
    BY <1>2, <2>3, <2>4, <2>6, NoneSent
<1>6. PICK w \in Wholes(outcome') : /\ InHand("plain", w)' /\ Made("plain", w)' = 0
                                    /\ StatusInv("plain", w)' /\ SentBy(outcome', w, 0) = <<>>
  BY <1>3, <1>4, <1>5
<1>7. PICK v \in Wholes(outcome') : /\ InHand("sig", v)' /\ Made("sig", v)' = 0
                                    /\ StatusInv("sig", v)' /\ SentBy(outcome', v, 0) = <<>>
  BY <1>3, <1>4, <1>5
<1>8. /\ resp'["plain"].body = <<>> /\ resp'["sig"].body = <<>> /\ resp'["sig"].header = "none"
      /\ resp'["sig"].status = 0 /\ resp' \in [Exchange -> ResponseType]
      /\ phase'["plain"] = "handler" /\ phase'["sig"] = "handler"
      /\ phase' \in [Exchange -> {"handler", "done"}]
  BY <1>2, <1>3, NoResponseType
<1>9. PlainInv(w)'
  BY <1>6, <1>8 DEF PlainInv
<1>10. SigInv(v)'
  BY <1>2, <1>7, <1>8 DEF SigInv
<1>. QED
  BY <1>2, <1>4, <1>8, <1>9, <1>10 DEF SigningInv

-----------------------------------------------------------------------------
(***************************************************************************)
(* The theorems                                                            *)
(***************************************************************************)

LEMMA InitSigning == Init => SigningInv
<1>1. Init => resp \in [Exchange -> ResponseType]
  BY NoResponseType DEF Init
<1>. QED
  BY <1>1 DEF Init, SigningInv, Fresh

LEMMA NextSigning == SigningInv /\ [Next]_vars => SigningInv'
<1>. SUFFICES ASSUME SigningInv, [Next]_vars PROVE SigningInv'
  OBVIOUS
<1>1. CASE UNCHANGED vars
  <2>1. UNCHANGED <<outcome, todo, resp, buf, phase>>
    BY <1>1 DEF vars
  <2>2. Fresh => Fresh'
    BY <2>1 DEF Fresh
  <2>3. \A w \in Wholes(outcome) : /\ PlainInv(w) => PlainInv(w)'
                                   /\ SigInv(w) => SigInv(w)'
    BY <2>1, PlainFrame, SigFrame
  <2>. QED
    BY <2>1, <2>2, <2>3 DEF SigningInv
<1>. QED
  BY <1>1, RequestStep, PlainCallStep, PlainReturnStep, SigCallStep, FlushStep DEF Next

\* What the theorems below follow from: at any moment a handler has written
\* what the calls it has made say, and a finished exchange is signed or failed.
THEOREM SigningInvariance == Spec => []SigningInv
BY InitSigning, NextSigning, PTL DEF Spec

\* The texts of a pair of exchanges that is under way or answered.
LEMMA Texts ==
  ASSUME SigningInv
  PROVE  /\ buf \in Text /\ resp["plain"].body \in Text
         /\ \A e \in Exchange : resp[e].status \in {0, 200, 206, 400, 404, 416, 500}
<1>1. CASE Fresh
  BY <1>1, EmptyText, NoResponseType DEF Fresh, Exchange
<1>2. CASE ~Fresh
  <2>1. PICK w \in Wholes(outcome) : PlainInv(w)
    BY <1>2 DEF SigningInv
  <2>2. PICK v \in Wholes(outcome) : SigInv(v)
    BY <1>2 DEF SigningInv
  <2>3. outcome \in Outcome /\ phase["sig"] \in {"handler", "done"}
    BY DEF SigningInv, Exchange
  <2>4. buf \in Text
    BY <2>2, <2>3, SentIsText DEF SigInv, InHand
  <2>5. resp["plain"].body \in Text
    BY <2>1, <2>3, SentIsText DEF PlainInv, InHand
  <2>6. resp["plain"].status \in {0, 200, 206, 400, 404, 416, 500}
    BY <2>1, StatusType DEF PlainInv, StatusInv
  <2>7. resp["sig"].status \in {0, 200, 206, 400, 404, 416, 500}
    BY <2>2, <2>3, StatusType DEF SigInv, StatusInv, Signs, SignFails
  <2>. QED
    BY <2>4, <2>5, <2>6, <2>7 DEF Exchange
<1>. QED
  BY <1>1, <1>2

\* A pair of exchanges that is answered: both handlers have written all of
\* their text, and the signature exchange has the status of the plain one.
LEMMA AnsweredPair ==
  ASSUME SigningInv, Answered
  PROVE  /\ resp["plain"].status = StatusOf(outcome) /\ (Signs \/ SignFails)
         /\ outcome.kind # "env" => buf = resp["plain"].body
         /\ SignFails => ~Signed
<1>1. ~Fresh
  BY NoResponseType DEF Answered, Fresh, Exchange
<1>2. PICK w \in Wholes(outcome) : PlainInv(w)
  BY <1>1 DEF SigningInv
<1>3. PICK v \in Wholes(outcome) : SigInv(v)
  BY <1>1 DEF SigningInv
<1>4. outcome \in Outcome /\ phase["sig"] = "done" /\ phase["plain"] = "done"
  BY DEF SigningInv, Answered, Exchange
<1>5. buf = v /\ (Signs \/ SignFails)
  BY <1>3, <1>4, AllSent DEF SigInv
<1>6. resp["plain"].body = w /\ resp["plain"].status = StatusOf(outcome)
  BY <1>2, <1>4, AllSent DEF PlainInv
<1>7. outcome.kind # "env" => w = v
  BY DEF Wholes
<1>8. SignFails => ~Signed
  <2>1. buf \in Text
    BY <1>3, <1>4, <1>5, WholeIsText
  <2>2. SignatureOf(buf) # ErrorText
    BY <2>1, SigningAssumption
  <2>3. <<ErrorText>> # <<SignatureOf(buf)>>
    BY <2>2
  <2>. QED
    BY <2>3 DEF SignFails, Signed
<1>. QED
  BY <1>5, <1>6, <1>7, <1>8

\* The responses of writer.go have only statuses that handlers send, and the
\* text kept for signing is no longer than what they write.
THEOREM SigningTypeCorrect == Spec => []TypeOK
<1>1. SigningInv => TypeOK
  BY Texts DEF SigningInv, TypeOK
<1>. QED
  BY <1>1, SigningInvariance, PTL

\* A .sig endpoint answers with the status of the plain one, and with 200 only
\* once the signature exists (writer.go:47-50).
THEOREM StatusAgreesCorrect == Spec => []StatusAgrees
<1>1. SigningInv => StatusAgrees
  <2>. SUFFICES ASSUME SigningInv PROVE StatusAgrees
    OBVIOUS
  <2>1. Answered /\ Signed => resp["sig"].status = resp["plain"].status
    BY AnsweredPair DEF Signs
  <2>2. resp["sig"].status = 200 => phase["sig"] = "done"
    <3>1. CASE Fresh
      BY <3>1 DEF Fresh, Exchange
    <3>2. CASE ~Fresh
      BY <3>2 DEF SigningInv, SigInv, Exchange
    <3>. QED
      BY <3>1, <3>2
  <2>. QED
    BY <2>1, <2>2 DEF StatusAgrees
<1>. QED
  BY <1>1, SigningInvariance, PTL

\* A detached signature is one of the very bytes that the plain endpoint
\* serves, in however many pieces the handler writes them, for every endpoint
\* but metadata (writer.go:59-85).
THEOREM SignatureVerifiesCorrect == Spec => []SignatureVerifies
<1>1. SigningInv => SignatureVerifies
  <2>. SUFFICES ASSUME SigningInv, Answered, Signed
                PROVE  /\ outcome.kind # "env" =>
                            resp["sig"].body = <<SignatureOf(resp["plain"].body)>>
                       /\ resp["sig"].header = "none"
    BY DEF SignatureVerifies
  <2>1. Signs /\ (outcome.kind # "env" => buf = resp["plain"].body)
    BY AnsweredPair
  <2>. QED
    BY <2>1 DEF Signs
<1>. QED
  BY <1>1, SigningInvariance, PTL

\* When signing fails the reply of a .sig endpoint has no body but the error's
\* text, and its status is 500 or the handler's own error status, whatever the
\* handler wrote; the 206 of a Range request is left out (writer.go:79-82).
THEOREM SignErrorIsApparentCorrect == Spec => []SignErrorIsApparent
<1>1. SigningInv => SignErrorIsApparent
  <2>. SUFFICES ASSUME SigningInv, Answered, ~Signed
                PROVE  /\ resp["sig"].body = <<ErrorText>>
                       /\ resp["plain"].status = 200 => resp["sig"].status = 500
                       /\ resp["plain"].status >= 400 =>
                            resp["sig"].status = resp["plain"].status
    BY DEF SignErrorIsApparent
  <2>1. SignFails /\ resp["plain"].status = StatusOf(outcome)
    BY AnsweredPair DEF Signs, Signed
  <2>2. StatusOf(outcome) \in {200, 206, 400, 404, 416, 500}
    BY StatusType
  <2>. QED
    BY <2>1, <2>2 DEF SignFails
<1>. QED
  BY <1>1, SigningInvariance, PTL

=============================================================================
