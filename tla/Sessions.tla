------------------------------ MODULE Sessions -------------------------------
(***************************************************************************)
(* bootcmd sessions: the commands of bootcfg/cli, the client of            *)
(* bootcfg/client and the stubs of rpcpb on one side, the life of the      *)
(* bootcfg process (Startup) and its store (Store) on the other.           *)
(*                                                                         *)
(* A command dials its endpoints in order, blocking, and makes one RPC     *)
(* that is not fail-fast: when the connection is lost before the reply,    *)
(* gRPC connects again and sends the request once more.  The server may    *)
(* still be running the first one, and runs it to its end.                 *)
(*                                                                         *)
(* All commands are about one file.  Commands of other files meet these    *)
(* only in a list, which FileStore covers.                                 *)
(***************************************************************************)
EXTENDS Startup, Sequences

CONSTANTS
  Attempt,      \* handlers the server can run at once, a set of numbers
  Doc,          \* documents in the files of create commands
  NoDoc, NoFile, Torn, Failed,
  Commands,     \* command lines, members of Command
  MaxCommands,  \* bound: commands run, one after the other
  MaxBreaks     \* bound: connections lost while both ends live

VARIABLES
  cmd,          \* the command that runs, or the last one that ran
  pc,           \* how far it has got, "exited" after its end
  code,         \* its exit code
  left,         \* the endpoints it has yet to dial, the first one in progress
  conn,         \* its connection: "none", "up", "lost"
  cur,          \* the attempt whose reply it waits for, 0 if there is none
  ran,          \* the number of commands so far
  breaks,
  req,          \* per attempt, the command that sent it and its certificate
  holds, doubtful, phase, call, may,    \* the variables of Store
  sent, stored, \* did the command send an attempt, was one acknowledged
  begun,        \* the command of the put that began last
  acked         \* the create command that exited last with success

clientVars == <<cmd, pc, code, left, conn, cur, ran, breaks>>
diskVars == <<holds, doubtful, phase, call, may>>
ghostVars == <<sent, stored, begun, acked>>
vars == <<startupVars, clientVars, req, diskVars, ghostVars>>

File == <<"groups", 1>>

\* Which document a read returns makes no difference to the command, so what
\* torn documents make together is represented by one of them.
Disk == INSTANCE Store WITH
          Caller <- Attempt, Path <- {File}, Kind <- {"groups"}, Json <- {"groups"},
          Mixture <- LAMBDA D : D, Result <- LAMBDA kind, d : d

\* A command line and what it meets.  A group or profile file is unreadable if
\* it does not parse; "noId" is one that parses and that the server refuses.
\* bootcmd leaves DialTimeout zero (timeout FALSE), other clients may set it.
Command ==
  [kind : {"create", "describe", "list"},
   misused : BOOLEAN,
   tls : [ca : {"valid", "missing", "invalid", "noPEM"},
          pair : {"valid", "missing", "invalid", "stranger"}],
   endpoints : {<<>>, <<"server">>, <<"dead">>, <<"dead", "server">>},
   timeout : BOOLEAN,
   file : {"ok", "unreadable", "noId"},
   doc : Doc]

ASSUME SessionsAssumption ==
  /\ Attempt \subseteq Nat \ {0}
  /\ Commands \subseteq Command /\ Commands # {}
  /\ MaxCommands \in Nat /\ MaxBreaks \in Nat

ExitSuccess == 0
ExitError == 1
ExitBadConnection == 2
ExitBadArgs == 128

NoReq == [n |-> 0, pair |-> "none"]

SessionsInit ==
  /\ StartupInit
  /\ cmd = CHOOSE c \in Commands : TRUE
  /\ pc = "exited" /\ code = ExitSuccess /\ left = <<>> /\ conn = "none"
  /\ cur = 0 /\ ran = 0 /\ breaks = 0
  /\ req = [a \in Attempt |-> NoReq]
  /\ Disk!Init /\ holds[File] = {NoFile}
  /\ sent = FALSE /\ stored = FALSE /\ begun = 0
  /\ acked = [n |-> 0, doc |-> NoDoc]

-----------------------------------------------------------------------------
(***************************************************************************)
(* The command, up to its RPC                                              *)
(***************************************************************************)

\* Mutant: the connection stays open.
ExitsOpen(c) ==
  /\ pc' = "exited" /\ code' = c /\ left' = <<>> /\ cur' = 0
  /\ UNCHANGED <<cmd, conn, ran, breaks>>

\* The command exits; a connection it had is closed, its attempts run on.
Exits(c) ==
  /\ pc' = "exited" /\ code' = c /\ left' = <<>> /\ conn' = "none" /\ cur' = 0
  /\ UNCHANGED <<cmd, ran, breaks>>

Goes(to) ==
  /\ pc' = to
  /\ UNCHANGED <<cmd, code, left, conn, cur, ran, breaks>>

OnlyClient == UNCHANGED <<startupVars, req, diskVars, ghostVars>>

Run ==
  /\ pc = "exited" /\ ran < MaxCommands
  /\ cmd' \in Commands
  /\ pc' = "args" /\ ran' = ran + 1
  /\ sent' = FALSE /\ stored' = FALSE
  /\ UNCHANGED <<startupVars, code, left, conn, cur, breaks, req, diskVars,
                 begun, acked>>

\* Help for a missing file name or id.  The usage error of a superfluous
\* argument is dropped: the command exits with success and has done nothing.
validateArgs ==
  /\ pc = "args"
  /\ IF cmd.misused THEN Exits(ExitSuccess) ELSE Goes("tls")
  /\ OnlyClient

\* The CA bundle, then the key pair.
ClientConfigOK(tls) ==
  /\ NewCertPool(tls.ca) # Fail
  /\ LoadX509KeyPair(tls.pair) # Fail

mustClientFromCmd ==
  /\ pc = "tls"
  /\ IF ~ClientConfigOK(cmd.tls) THEN Exits(ExitBadArgs)
     ELSE IF cmd.endpoints = <<>> THEN Exits(ExitBadConnection)
     ELSE /\ pc' = "dial" /\ left' = cmd.endpoints
          /\ UNCHANGED <<cmd, code, conn, cur, ran, breaks>>
  /\ OnlyClient

\* Both ends verify each other's certificate.
Handshake(tls, cfg) ==
  /\ tls.ca = "valid"
  /\ cfg.auth = "RequireAndVerify" => tls.pair = "valid" /\ cfg.pool = "valid"

Reachable(endpoint) ==
  endpoint = "server" /\ accepting /\ Handshake(cmd.tls, rpcTLS)

\* grpc.Dial with WithBlock returns a connection, or after the timeout, if
\* there is one, an error; it tries again for as long as neither happens.
DialOK ==
  /\ pc = "dial" /\ Reachable(Head(left))
  /\ pc' = "file" /\ conn' = "up"
  /\ UNCHANGED <<cmd, code, left, cur, ran, breaks>>
  /\ OnlyClient

\* Mutant: the same endpoint again.
DialAgain ==
  /\ pc = "dial" /\ cmd.timeout
  /\ Goes("dial")
  /\ OnlyClient

DialTimesOut ==
  /\ pc = "dial" /\ cmd.timeout
  /\ IF Len(left) = 1 THEN Exits(ExitBadConnection)
     ELSE left' = Tail(left) /\ UNCHANGED <<cmd, pc, code, conn, cur, ran, breaks>>
  /\ OnlyClient

\* Only create reads a file, and only after the connection stands.
LoadFile ==
  /\ pc = "file"
  /\ IF cmd.kind = "create" /\ cmd.file = "unreadable" THEN Exits(ExitError)
     ELSE Goes("invoke")
  /\ OnlyClient

-----------------------------------------------------------------------------
(***************************************************************************)
(* The RPC                                                                 *)
(***************************************************************************)

\* An idle handler takes the request: a put, refused at once if the document
\* is not valid, a get, or a list.
Accept(a) ==
  \/ /\ cmd.kind = "create" /\ cmd.file = "ok"
     /\ call' = [call EXCEPT ![a] = Disk!Request("put", "none", {File}, cmd.doc, FALSE)]
     /\ Disk!AskPut(a)
  \/ cmd.kind = "create" /\ cmd.file = "noId" /\ Disk!RefusePut(a)
  \/ /\ cmd.kind \in {"describe", "list"}
     /\ Disk!AskRead(a)
     /\ call'[a].op = (IF cmd.kind = "list" THEN "list" ELSE "get")
     /\ call'[a].paths = {File}

Send(a) ==
  /\ pc = "invoke" /\ conn = "up"
  /\ \A b \in Attempt : b < a => phase[b] # "idle"
  /\ Accept(a)
  /\ req' = [req EXCEPT ![a] = [n |-> ran, pair |-> cmd.tls.pair]]
  /\ cur' = a /\ pc' = "wait" /\ sent' = TRUE
  /\ UNCHANGED <<startupVars, cmd, code, left, conn, ran, breaks, stored, begun, acked>>

\* The connection breaks under the call, or before it.
Break ==
  /\ conn = "up" /\ breaks < MaxBreaks
  /\ conn' = "lost" /\ cur' = 0 /\ breaks' = breaks + 1
  /\ UNCHANGED <<cmd, pc, code, left, ran>>
  /\ OnlyClient

\* The transport is reset, and Invoke sends the request (again).
Reconnect ==
  /\ pc \in {"invoke", "wait"} /\ conn = "lost" /\ Reachable(Head(left))
  /\ conn' = "up" /\ pc' = "invoke"
  /\ UNCHANGED <<cmd, code, left, cur, ran, breaks>>
  /\ OnlyClient

\* Mutant: the error of a create is dropped like that of the others.
ExitCodeIgnored(err) == ExitSuccess

\* What the exit code says of an RPC that ended with or without an error:
\* describe and list print nothing but their legend and exit with success.
ExitCode(err) ==
  IF cmd.kind = "create" /\ err THEN ExitError ELSE ExitSuccess

ReconnectTimesOut ==
  /\ pc \in {"invoke", "wait"} /\ conn = "lost" /\ cmd.timeout
  /\ Exits(ExitCode(TRUE))
  /\ OnlyClient

Reply ==
  /\ pc = "wait" /\ conn = "up" /\ phase[cur] = "done"
  /\ Exits(ExitCode(call[cur].err))
  /\ acked' = IF cmd.kind = "create" /\ code' = ExitSuccess
              THEN [n |-> ran, doc |-> cmd.doc] ELSE acked
  /\ Disk!Return(cur)
  /\ req' = [req EXCEPT ![cur] = NoReq]
  /\ UNCHANGED <<startupVars, sent, stored, begun>>

-----------------------------------------------------------------------------
(***************************************************************************)
(* The server                                                              *)
(***************************************************************************)

\* The store takes Store's steps and keeps every doubt that they allow: what
\* it may be found to hold shrinks only when a put has had the file to itself.
BeginPut(a) ==
  /\ phase[a] = "asked" /\ call[a].op = "put"
  /\ holds' = [holds EXCEPT ![File] = @ \cup {Torn, call[a].doc}]
  /\ Disk!BeginPut(a)
  /\ begun' = req[a].n
  /\ UNCHANGED <<sent, stored>>

EndPut(a) ==
  /\ phase[a] = "writing"
  /\ holds' \in {holds, [holds EXCEPT ![File] = {call[a].doc}]}
  /\ Disk!EndPut(a)
  /\ File \in doubtful => UNCHANGED holds
  /\ stored' = (stored \/ req[a].n = ran)
  /\ UNCHANGED <<sent, begun>>

FailPut(a) ==
  /\ UNCHANGED holds
  /\ Disk!FailPut(a)
  /\ UNCHANGED <<sent, stored, begun>>

AnswerRead(a) ==
  /\ phase[a] = "asked" /\ call[a].op \in {"get", "list"}
  /\ \E M \in {may[a][File], may[a][File] \cup {Torn}} :
       may' = [may EXCEPT ![a][File] = M]
  /\ \E got \in {<<>>} \cup {<<d>> : d \in Doc}, err \in BOOLEAN :
       call' = [call EXCEPT ![a].got = got, ![a].err = err]
  /\ Disk!AnswerRead(a)
  /\ UNCHANGED <<sent, stored, begun>>

\* One step of the handler of a.  Nobody waits for a reply to an attempt whose
\* connection is gone, but it is run all the same.
Handle(a) ==
  /\ \/ (BeginPut(a) \/ EndPut(a) \/ FailPut(a) \/ AnswerRead(a)) /\ UNCHANGED req
     \/ /\ a # cur /\ Disk!Return(a)
        /\ req' = [req EXCEPT ![a] = NoReq]
        /\ UNCHANGED <<sent, stored, begun>>
  /\ UNCHANGED <<startupVars, clientVars, acked>>

\* The server process ends, by itself or not, and takes its handlers and its
\* connections with it.
Dies ==
  /\ UNCHANGED holds
  /\ Disk!Restart
  /\ req' = [a \in Attempt |-> NoReq]
  /\ conn' = IF conn = "up" THEN "lost" ELSE conn
  /\ cur' = 0
  /\ UNCHANGED <<cmd, pc, code, left, ran, breaks, ghostVars>>

ServerStep(A) ==
  /\ A
  /\ IF stage' = "down" THEN Dies ELSE UNCHANGED <<clientVars, req, diskVars, ghostVars>>

-----------------------------------------------------------------------------
\* What the command does by itself.
ClientStep ==
  \/ validateArgs \/ mustClientFromCmd \/ DialOK \/ DialTimesOut \/ LoadFile
  \/ \E a \in Attempt : Send(a)
  \/ Reconnect \/ ReconnectTimesOut \/ Reply

ChangeTLSFiles ==
  ChangeFiles /\ UNCHANGED <<clientVars, req, diskVars, ghostVars>>

Next ==
  \/ ServerStep(Start) \/ ServerStep(Main) \/ ServerStep(Crash)
  \/ ServerStep(ServeReturns) \/ ChangeTLSFiles
  \/ Run \/ ClientStep \/ Break
  \/ \E a \in Attempt : Handle(a)

\* main, a command and a handler go on while they can: each is a goroutine or
\* a process with nothing to wait for but what its guard says.  Starts, crashes,
\* failures to accept and lost connections are nobody's duty.
Spec ==
  /\ SessionsInit
  /\ [][Next]_vars
  /\ WF_vars(ServerStep(Main))
  /\ WF_vars(ClientStep)
  /\ \A a \in Attempt : WF_vars(Handle(a))

-----------------------------------------------------------------------------
Writers == {a \in Attempt : phase[a] \in {"asked", "writing"} /\ call[a].op = "put"}

SessionsTypeOK ==
  /\ cmd \in Command
  /\ pc \in {"args", "tls", "dial", "file", "invoke", "wait", "exited"}
  /\ conn = "up" => pc \in {"file", "invoke", "wait"} /\ rpcTLS # NoTLS
  /\ pc = "wait" /\ conn = "up" <=> cur # 0
  /\ cur # 0 => req[cur].n = ran /\ phase[cur] # "idle"
  /\ \A a \in Attempt : phase[a] # "idle" <=> req[a] # NoReq

\* A create that exits with success has replaced the file: whatever was lost,
\* sent twice or killed on the way, once no put is under way the file is its
\* document, unless a later put has begun or puts have overlapped or died since
\* (group_create.go:45, fs.go:55).
SuccessMeansStored ==
  (/\ acked.n # 0 /\ begun = acked.n
   /\ Writers = {} /\ File \notin doubtful)
  => holds[File] = {acked.doc}

\* The exit code of a command never claims more than it knows: success of a
\* create that was used properly means that the store acknowledged one of its
\* attempts, and only a command that sent nothing blames its arguments or the
\* connection (error.go:12-17).
ExitCodeHonest ==
  (pc = "exited" /\ ran > 0) =>
    /\ (cmd.kind = "create" /\ ~cmd.misused /\ code = ExitSuccess) => stored
    /\ code \in {ExitBadConnection, ExitBadArgs} => ~sent

\* The server only ever works for clients whose certificate a CA of the bundle
\* that this process loaded has signed; a bundle without certificates lets
\* nobody in (info.go:57-59, tlsutil.go:19-24).
AdmittedOnly ==
  \A a \in Attempt : phase[a] # "idle" =>
    /\ rpcTLS.pool = "valid"
    /\ req[a].pair = "valid"

\* The command waits for an endpoint with no timeout.
Blocked ==
  /\ ~cmd.timeout
  /\ pc = "dial" \/ (pc \in {"invoke", "wait"} /\ conn = "lost")
  /\ ~Reachable(Head(left))

\* Every command ends, whatever breaks, dies or restarts, except that without a
\* dial timeout, which bootcmd never sets, it may wait forever for the endpoint
\* that it dials, with the ones after it never tried (client.go:80, root.go:61).
CommandsEnd == <>[](pc = "exited" \/ Blocked)

=============================================================================
