------------------------------- MODULE Signing -------------------------------
(***************************************************************************)
(* Detached signatures (bootcfg/sign/writer.go under bootcfg/http).  Every *)
(* config endpoint has a .sig and an .asc twin that runs the same handler  *)
(* again behind a ResponseWriter which keeps back the body, and answers    *)
(* with the signature of what it kept.  A client fetches a config and its  *)
(* signature in two requests and verifies one with the other.              *)
(*                                                                         *)
(* A handler is the script of calls it makes on its ResponseWriter; the    *)
(* plain and the signature exchange each run a script of one outcome.      *)
(* Stored data does not change between the two (Server models that), and   *)
(* the client sends the same Range header, or none, with both.             *)
(***************************************************************************)
EXTENDS Naturals, Sequences, FiniteSets

CONSTANTS
  Chunk,        \* pieces of response text
  Line,         \* the lines of an env file, one per metadata variable
  ErrorText,    \* the text of http.Error
  MaxPieces,    \* bound: pieces that a config is written in
  SignatureOf(_)  \* the detached signature of a text, as a piece of text

Exchange == {"plain", "sig"}

\* Response text, no longer than a config or an env file.
Piece == Chunk \cup Line \cup {ErrorText}

Text == UNION {[1..n -> Piece] : n \in 0..(MaxPieces + Cardinality(Line) + 1)}

ASSUME SigningAssumption ==
  /\ MaxPieces \in Nat
  /\ IsFiniteSet(Line)
  /\ \A t \in Text : SignatureOf(t) # ErrorText

VARIABLES
  outcome,      \* what the handler of this pair of requests comes to
  todo,         \* per exchange, the calls its handler has yet to make
  resp,         \* per exchange, the response on the wire
  buf,          \* the body that the signature writer keeps
  phase         \* per exchange, "handler" or "done"

vars == <<outcome, todo, resp, buf, phase>>

NoResponse == [status |-> 0, header |-> "none", body |-> <<>>]

-----------------------------------------------------------------------------
(***************************************************************************)
(* net/http's own ResponseWriter, as the code relies on it: the first      *)
(* status wins, the first write implies 200 and sends the headers set.     *)
(***************************************************************************)

WriteHeaderTo(r, code) == IF r.status = 0 THEN [r EXCEPT !.status = code] ELSE r

WriteTo(r, text) ==
  [WriteHeaderTo(r, 200) EXCEPT !.body = r.body \o text]

SetHeaderOn(r, h) == IF r.status = 0 THEN [r EXCEPT !.header = h] ELSE r

\* http.Error and http.NotFound: a header, the status, a text.
ErrorOn(r, code) ==
  WriteTo(WriteHeaderTo(SetHeaderOn(r, "text/plain"), code), <<ErrorText>>)

-----------------------------------------------------------------------------
(***************************************************************************)
(* Handlers                                                                *)
(***************************************************************************)

SetHeader(h) == [op |-> "Header", header |-> h, code |-> 0, text |-> <<>>]
WriteHeader(c) == [op |-> "WriteHeader", header |-> "none", code |-> c, text |-> <<>>]
Write(t) == [op |-> "Write", header |-> "none", code |-> 0, text |-> t]

\* Orders in which Go may iterate over a map.
Orders(S) ==
  {f \in [1..Cardinality(S) -> S] : \A s \in S : \E i \in DOMAIN f : f[i] = s}

\* What handlers come to: a template written from a buffer (GRUB, iPXE), JSON
\* (Pixiecore, Ignition), content that http.ServeContent copies piece by piece
\* and that may be empty (Cloud-Config, generic), the part of such content that
\* a Range header asks for, or the refusal of the range, an env file (metadata),
\* JSON that cannot be encoded, or an error reply.
Outcome ==
  [kind : {"script", "json", "content", "partial"},
   text : UNION {[1..n -> Chunk] : n \in 0..MaxPieces}]
    \cup [kind : {"env", "jsonError", "notFound", "badRequest", "unsatisfiable"},
           text : {<<>>}]

\* http.ServeContent sends its status and copies the text.
ServeContent(code, text) ==
  <<SetHeader("sniffed"), WriteHeader(code)>>
    \o [i \in 1..Len(text) |-> Write(<<text[i]>>)]

\* http.Error and http.NotFound on either writer.
Error(code) ==
  <<SetHeader("text/plain"), WriteHeader(code), Write(<<ErrorText>>)>>

\* The calls a handler may make; only the env file leaves it a choice.
Scripts(o) ==
  CASE o.kind = "script" -> {<<Write(o.text)>>}
    [] o.kind = "json" -> {<<SetHeader("application/json"), Write(o.text)>>}
    [] o.kind = "content" -> {ServeContent(200, o.text)}
    [] o.kind = "partial" -> {ServeContent(206, o.text)}
    [] o.kind = "unsatisfiable" -> {Error(416)}
    [] o.kind = "env" ->
         {<<SetHeader("plain/text")>> \o [i \in 1..Len(f) |-> Write(<<f[i]>>)]
          : f \in Orders(Line)}
    [] o.kind = "jsonError" -> {<<WriteHeader(500)>>}
    [] o.kind = "notFound" -> {Error(404)}
    [] OTHER -> {Error(400)}

\* A client asks for a config and for its signature.
Request ==
  /\ \A e \in Exchange : phase[e] = "done"
  /\ outcome' \in Outcome
  /\ \E s, t \in Scripts(outcome') : todo' = [plain |-> s, sig |-> t]
  /\ resp' = [e \in Exchange |-> NoResponse]
  /\ buf' = <<>>
  /\ phase' = [e \in Exchange |-> "handler"]

\* A call on the plain writer.
PlainCall ==
  /\ phase["plain"] = "handler" /\ todo["plain"] # <<>>
  /\ LET c == Head(todo["plain"])
         r == resp["plain"]
     IN  resp' = [resp EXCEPT !["plain"] =
                    CASE c.op = "Header" -> SetHeaderOn(r, c.header)
                      [] c.op = "WriteHeader" -> WriteHeaderTo(r, c.code)
                      [] OTHER -> WriteTo(r, c.text)]
  /\ todo' = [todo EXCEPT !["plain"] = Tail(@)]
  /\ UNCHANGED <<outcome, buf, phase>>

\* The plain handler returns; net/http sends 200 if nothing was sent.
PlainReturn ==
  /\ phase["plain"] = "handler" /\ todo["plain"] = <<>>
  /\ resp' = [resp EXCEPT !["plain"] = WriteHeaderTo(@, 200)]
  /\ phase' = [phase EXCEPT !["plain"] = "done"]
  /\ UNCHANGED <<outcome, todo, buf>>

\* signatureResponseWriter: headers go to a map nobody sends, a status other
\* than 200 goes through, the body is kept.
SigHeader ==
  /\ phase["sig"] = "handler" /\ todo["sig"] # <<>>
  /\ Head(todo["sig"]).op = "Header"
  /\ todo' = [todo EXCEPT !["sig"] = Tail(@)]
  /\ UNCHANGED <<outcome, resp, buf, phase>>

\* Mutant: every status is kept back.
SigWriteHeaderDropped ==
  /\ phase["sig"] = "handler" /\ todo["sig"] # <<>>
  /\ Head(todo["sig"]).op = "WriteHeader"
  /\ todo' = [todo EXCEPT !["sig"] = Tail(@)]
  /\ UNCHANGED <<outcome, resp, buf, phase>>

SigWriteHeader ==
  /\ phase["sig"] = "handler" /\ todo["sig"] # <<>>
  /\ LET c == Head(todo["sig"])
     IN  /\ c.op = "WriteHeader"
         /\ resp' = IF c.code = 200 THEN resp
                    ELSE [resp EXCEPT !["sig"] = WriteHeaderTo(@, c.code)]
  /\ todo' = [todo EXCEPT !["sig"] = Tail(@)]
  /\ UNCHANGED <<outcome, buf, phase>>

\* Mutant: only the last piece is kept.
SigWriteReplaces ==
  /\ phase["sig"] = "handler" /\ todo["sig"] # <<>>
  /\ Head(todo["sig"]).op = "Write"
  /\ buf' = Head(todo["sig"]).text
  /\ todo' = [todo EXCEPT !["sig"] = Tail(@)]
  /\ UNCHANGED <<outcome, resp, phase>>

SigWrite ==
  /\ phase["sig"] = "handler" /\ todo["sig"] # <<>>
  /\ Head(todo["sig"]).op = "Write"
  /\ buf' = buf \o Head(todo["sig"]).text
  /\ todo' = [todo EXCEPT !["sig"] = Tail(@)]
  /\ UNCHANGED <<outcome, resp, phase>>

\* Mutant: the signature is written to the wrapper, which keeps it back too.
FlushIntoBuffer ==
  /\ phase["sig"] = "handler" /\ todo["sig"] = <<>>
  /\ buf' = buf \o <<SignatureOf(buf)>>
  /\ phase' = [phase EXCEPT !["sig"] = "done"]
  /\ UNCHANGED <<outcome, todo, resp>>

\* SignatureHandler: the wrapped handler has returned, what it wrote is signed.
Flush ==
  /\ phase["sig"] = "handler" /\ todo["sig"] = <<>>
  /\ resp' = [resp EXCEPT !["sig"] = WriteTo(@, <<SignatureOf(buf)>>)]
  /\ phase' = [phase EXCEPT !["sig"] = "done"]
  /\ UNCHANGED <<outcome, todo, buf>>

\* Mutant: the error of Flush is only logged.
FlushErrorLogged ==
  /\ phase["sig"] = "handler" /\ todo["sig"] = <<>>
  /\ resp' = [resp EXCEPT !["sig"] = WriteHeaderTo(@, 200)]
  /\ phase' = [phase EXCEPT !["sig"] = "done"]
  /\ UNCHANGED <<outcome, todo, buf>>

\* Signing fails.
FlushError ==
  /\ phase["sig"] = "handler" /\ todo["sig"] = <<>>
  /\ resp' = [resp EXCEPT !["sig"] = ErrorOn(@, 500)]
  /\ phase' = [phase EXCEPT !["sig"] = "done"]
  /\ UNCHANGED <<outcome, todo, buf>>

Init ==
  /\ outcome \in Outcome
  /\ todo = [e \in Exchange |-> <<>>]
  /\ resp = [e \in Exchange |-> NoResponse]
  /\ buf = <<>>
  /\ phase = [e \in Exchange |-> "done"]

Next ==
  \/ Request \/ PlainCall \/ PlainReturn
  \/ SigHeader \/ SigWriteHeader \/ SigWrite \/ Flush \/ FlushError

Spec == Init /\ [][Next]_vars

-----------------------------------------------------------------------------
(***************************************************************************)
(* Properties                                                              *)
(***************************************************************************)

TypeOK ==
  /\ outcome \in Outcome
  /\ \A e \in Exchange : /\ phase[e] \in {"handler", "done"}
                         /\ resp[e].status \in {0, 200, 206, 400, 404, 416, 500}
  /\ buf \in Text
  /\ resp["plain"].body \in Text

Answered == (\A e \in Exchange : phase[e] = "done") /\ resp["plain"].status # 0

\* The signature exchange signed what it kept.
Signed == resp["sig"].body = <<SignatureOf(buf)>>

\* The .sig endpoint answers with the status of the plain one: an error of the
\* wrapped handler is apparent (writer.go:47-50), and a 200 is not reported before
\* the signature exists.
StatusAgrees ==
  /\ Answered /\ Signed => resp["sig"].status = resp["plain"].status
  /\ resp["sig"].status = 200 => phase["sig"] = "done"

\* A signature is a detached signature of the very bytes the plain endpoint
\* serves, errors included, for every endpoint whose handler writes in a fixed
\* order; it never carries the config's Content-Type.
SignatureVerifies ==
  Answered /\ Signed =>
    /\ outcome.kind # "env" => resp["sig"].body = <<SignatureOf(resp["plain"].body)>>
    /\ resp["sig"].header = "none"

\* When signing fails the reply has no body but the text of the error, and its
\* status is 500, or the error status that the handler had already sent.  Nothing
\* is said of a 206 that the handler had sent: SigningDeterminesSuccess is.
SignErrorIsApparent ==
  Answered /\ ~Signed =>
    /\ resp["sig"].body = <<ErrorText>>
    /\ resp["plain"].status = 200 => resp["sig"].status = 500
    /\ resp["plain"].status >= 400 => resp["sig"].status = resp["plain"].status

\* The comment of writer.go:52-53, "success is determined at the time of signing":
\* no reply has a status of success when signing failed.
SigningDeterminesSuccess ==
  Answered /\ ~Signed => resp["sig"].status >= 400

\* Documentation/openpgp.md: signature endpoints serve detached signatures of
\* rendered configs, and every config endpoint, metadata among them, has one.
EverySignatureVerifies ==
  Answered /\ Signed => resp["sig"].body = <<SignatureOf(resp["plain"].body)>>

=============================================================================
