--------------------------- MODULE SessionsProofs ----------------------------
(***************************************************************************)
(* Proofs about Sessions, for every set of commands and command lines, of  *)
(* documents and of handlers, and every number of commands, lost           *)
(* connections, restarts and replaced TLS files.                           *)
(***************************************************************************)
EXTENDS Sessions, TLAPS

-----------------------------------------------------------------------------
(***************************************************************************)
(* The inductive invariant                                                 *)
(***************************************************************************)

\* main has set up the signer and the RPC server exactly as far as it has got.
StartupInv ==
  /\ conf \in Config
  /\ stage \in {"down", "flags", "arguments", "setup", "rpc", "tls", "http", "up"}
  /\ stage \notin {"http", "up"} => rpcTLS = NoTLS
  /\ stage \in {"rpc", "tls"} => conf.rpc # "unset"
  /\ stage = "tls" => conf.rpc = "ok"
  /\ rpcTLS # NoTLS => conf.rpc = "ok" /\ rpcTLS.auth = "RequireAndVerify"
  /\ stage \in {"http", "up"} => (rpcTLS # NoTLS <=> conf.rpc # "unset")
  /\ accepting => rpcTLS # NoTLS
  /\ signer \in {"none", "private"} \/ (signer = "public" /\ conf.ring = "public")
  /\ stage \in {"rpc", "tls", "http", "up"} => (signer # "none" <=> conf.ring # "unset")

\* A command that is connected has shown a valid certificate to the server
\* that runs now, and has sent nothing before it was.
ClientInv ==
  /\ cmd \in Commands
  /\ pc \in {"args", "tls", "dial", "file", "invoke", "wait", "exited"}
  /\ conn \in {"none", "up", "lost"}
  /\ pc \in {"args", "tls", "dial", "exited"} <=> conn = "none"
  /\ conn = "up" => /\ rpcTLS.auth = "RequireAndVerify" /\ rpcTLS.pool = "valid"
                    /\ cmd.tls.pair = "valid"
  /\ cur \in Attempt \cup {0}
  /\ pc = "wait" /\ conn = "up" <=> cur # 0
  /\ ran \in Nat /\ (pc # "exited" => ran > 0)
  /\ sent => pc \in {"invoke", "wait", "exited"}

\* A handler runs for a request of this or an earlier command, of a client
\* that was let in.
ServedInv ==
  /\ phase \in [Attempt -> {"idle", "asked", "writing", "done"}]
  /\ DOMAIN call = Attempt
  /\ req \in [Attempt -> [n : Nat, pair : {"none", "valid", "missing", "invalid", "stranger"}]]
  /\ cur # 0 => req[cur].n = ran /\ phase[cur] # "idle"
  /\ \A a \in Attempt :
       IF phase[a] = "idle" THEN req[a] = NoReq
       ELSE /\ rpcTLS.pool = "valid" /\ req[a].pair = "valid"
            /\ req[a].n \in 1..ran
            /\ phase[a] = "writing" => call[a].op = "put"
            /\ phase[a] # "done" /\ call[a].op = "put" => call[a].paths = {File}

\* A put of document d is under way in attempt a.
Putting(a, d) ==
  phase[a] \in {"asked", "writing"} /\ call[a].op = "put" => call[a].doc = d

\* The attempts of a create command are puts of its document, and one that
\* has ended without an error was acknowledged.
AttemptInv ==
  /\ acked.n \in 0..ran /\ begun \in 0..ran
  /\ pc # "exited" => acked.n # ran
  /\ \A a \in Attempt :
       /\ phase[a] # "idle" /\ req[a].n = ran /\ cmd.kind = "create" =>
            /\ call[a].op = "put"
            /\ Putting(a, cmd.doc)
            /\ phase[a] = "done" => stored \/ call[a].err
       /\ req[a].n = acked.n => Putting(a, acked.doc)

\* The file of a store without doubts holds the document of the put that began
\* last, unless that put is the one still writing it.
FileInv ==
  /\ DOMAIN holds = {File}
  /\ doubtful \subseteq {File}
  /\ File \notin doubtful =>
       /\ \A a, b \in Attempt : phase[a] = "writing" /\ phase[b] = "writing" => a = b
       /\ \A a \in Attempt : phase[a] = "writing" => req[a].n = begun
       /\ (\A a \in Attempt : phase[a] # "writing") /\ begun # 0 =>
            /\ begun = acked.n => holds[File] = {acked.doc}
            /\ begun = ran /\ cmd.kind = "create" => holds[File] = {cmd.doc}

SessionsInv ==
  /\ StartupInv /\ ClientInv /\ ServedInv /\ AttemptInv /\ FileInv
  /\ ExitCodeHonest

-----------------------------------------------------------------------------
(***************************************************************************)
(* The server process                                                      *)
(***************************************************************************)

LEMMA NoTLSFields == NoTLS.auth = "none" /\ NoTLS.pool = "none"
BY DEF NoTLS

LEMMA KeyTypes ==
  ASSUME NEW c \in Config, c.ring # "unset", LoadGPGEntity(c) # Fail
  PROVE  LoadGPGEntity(c) = "private" \/ (LoadGPGEntity(c) = "public" /\ c.ring = "public")
<1>1. c.ring \in {"garbage", "empty", "public", "private", "encrypted"}
  BY DEF Config, LoadGPGEntity
<1>. QED
  BY <1>1 DEF LoadGPGEntity, unlockKeyRingEntity, Fail

LEMMA ConfigVerifies ==
  ASSUME NEW f, ServerConfig(f) # NoTLS
  PROVE  ServerConfig(f).auth = "RequireAndVerify"
BY DEF ServerConfig

\* main goes from one stage to the next or exits; only loading the
\* certificates gives it an RPC server.
LEMMA StartupStep ==
  ASSUME StartupInv, Start \/ Main \/ Crash \/ ServeReturns \/ ChangeFiles
  PROVE  StartupInv' /\ (stage' = "down" \/ rpcTLS' = rpcTLS \/ rpcTLS = NoTLS)
<1>. USE DEF StartupInv
<1>1. CASE Start \/ ServeReturns \/ ChangeFiles
  BY <1>1 DEF Start, ServeReturns, ChangeFiles
<1>2. CASE Crash
  BY <1>2 DEF Crash, Exit
<1>3. CASE ParseFlags
  BY <1>3 DEF ParseFlags, Stage, Exit
<1>4. CASE ValidateArguments
  BY <1>4 DEF ValidateArguments, Stage, Exit
<1>5. CASE SetUp
  <2>. DEFINE key == IF conf.ring = "unset" THEN "none" ELSE LoadGPGEntity(conf)
  <2>1. key # Fail =>
          /\ key \in {"none", "private"} \/ (key = "public" /\ conf.ring = "public")
          /\ key # "none" <=> conf.ring # "unset"
    BY KeyTypes DEF Fail
  <2>2. Stage("setup", conf.level = "ok" /\ key # Fail,
              IF conf.rpc = "unset" THEN "http" ELSE "rpc", key, rpcTLS)
    BY <1>5 DEF SetUp
  <2>. HIDE DEF key
  <2>. QED
    BY <2>1, <2>2 DEF Stage, Exit
<1>6. CASE ListenRPC
  BY <1>6 DEF ListenRPC, Stage, Exit
<1>7. CASE ServeRPC
  <2>. DEFINE cfg == ServerConfig(tlsFiles)
  <2>1. cfg # NoTLS => cfg.auth = "RequireAndVerify"
    BY ConfigVerifies
  <2>2. Stage("tls", cfg # NoTLS, "http", signer, cfg)
    BY <1>7 DEF ServeRPC
  <2>. HIDE DEF cfg
  <2>. QED
    BY <2>1, <2>2 DEF Stage, Exit
<1>8. CASE ServeHTTP
  BY <1>8 DEF ServeHTTP, Stage, Exit
<1>. QED
  BY <1>1, <1>2, <1>3, <1>4, <1>5, <1>6, <1>7, <1>8 DEF Main

LEMMA StartupSame ==
  ASSUME StartupInv, UNCHANGED startupVars
  PROVE  StartupInv'
BY DEF StartupInv, startupVars

\* A step of the server process that it survives.
LEMMA ServerGoesOn ==
  ASSUME SessionsInv, StartupInv', rpcTLS' = rpcTLS \/ rpcTLS = NoTLS,
         UNCHANGED <<clientVars, req, diskVars, ghostVars>>
  PROVE  SessionsInv'
<1>. USE DEF clientVars, diskVars, ghostVars
<1>1. ClientInv'
  BY NoTLSFields DEF SessionsInv, ClientInv
<1>2. ServedInv'
  BY NoTLSFields DEF SessionsInv, ServedInv
<1>3. AttemptInv'
  BY DEF SessionsInv, AttemptInv, Putting
<1>4. FileInv'
  BY DEF SessionsInv, FileInv
<1>5. ExitCodeHonest'
  BY DEF SessionsInv, ExitCodeHonest
<1>. QED
  BY <1>1, <1>2, <1>3, <1>4, <1>5 DEF SessionsInv

\* The server process ends.
LEMMA ServerEnds ==
  ASSUME SessionsInv, StartupInv', Dies
  PROVE  SessionsInv'
<1>1. /\ phase' = [a \in Attempt |-> "idle"]
      /\ call' = [a \in Attempt |-> Disk!NoCall]
      /\ doubtful' = doubtful \cup {x \in {File} : Disk!Writing(x) # {}}
      /\ holds' = holds /\ req' = [a \in Attempt |-> NoReq]
      /\ cur' = 0 /\ conn' = IF conn = "up" THEN "lost" ELSE conn
      /\ UNCHANGED <<cmd, pc, code, left, ran, breaks, sent, stored, begun, acked>>
  BY DEF Dies, Disk!Restart, ghostVars
<1>2. ClientInv'
  BY <1>1 DEF SessionsInv, ClientInv
<1>3. NoReq \in [n : Nat, pair : {"none", "valid", "missing", "invalid", "stranger"}]
  BY DEF NoReq
<1>4. ServedInv'
  BY <1>1, <1>3 DEF ServedInv
<1>5. AttemptInv'
  BY <1>1 DEF SessionsInv, AttemptInv, Putting
<1>6. FileInv'
  <2>1. ASSUME File \notin doubtful' PROVE File \notin doubtful /\ \A a \in Attempt : phase[a] # "writing"
    BY <1>1, <2>1 DEF Disk!Writing, SessionsInv, ServedInv
  <2>. QED
    BY <1>1, <2>1 DEF SessionsInv, FileInv
<1>7. ExitCodeHonest'
  BY <1>1 DEF SessionsInv, ExitCodeHonest
<1>. QED
  BY <1>2, <1>4, <1>5, <1>6, <1>7 DEF SessionsInv

LEMMA ServerSteps ==
  ASSUME SessionsInv,
         \/ ServerStep(Start) \/ ServerStep(Main) \/ ServerStep(Crash)
         \/ ServerStep(ServeReturns) \/ ChangeTLSFiles
  PROVE  SessionsInv'
<1>1. Start \/ Main \/ Crash \/ ServeReturns \/ ChangeFiles
  BY DEF ServerStep, ChangeTLSFiles
<1>2. StartupInv' /\ (stage' = "down" \/ rpcTLS' = rpcTLS \/ rpcTLS = NoTLS)
  BY <1>1, StartupStep DEF SessionsInv
<1>3. CASE Dies
  BY <1>2, <1>3, ServerEnds
<1>4. CASE ~Dies
  <2>1. rpcTLS' = rpcTLS \/ rpcTLS = NoTLS
    BY <1>2, <1>4 DEF ServerStep, ChangeTLSFiles, ChangeFiles
  <2>2. UNCHANGED <<clientVars, req, diskVars, ghostVars>>
    BY <1>4 DEF ServerStep, ChangeTLSFiles
  <2>. QED
    BY <1>2, <2>1, <2>2, ServerGoesOn
<1>. QED
  BY <1>3, <1>4

-----------------------------------------------------------------------------
(***************************************************************************)
(* The command                                                             *)
(***************************************************************************)

\* A step of the command alone, in which it does not become connected unless
\* the server lets it in.
LEMMA ClientAlone ==
  ASSUME SessionsInv, OnlyClient, ClientInv', ExitCodeHonest', cmd' = cmd, ran' = ran,
         cur' \in {0, cur}, pc # "exited"
  PROVE  SessionsInv'
<1>. USE DEF OnlyClient, startupVars, diskVars, ghostVars
<1>1. StartupInv'
  BY DEF SessionsInv, StartupInv
<1>2. ServedInv'
  BY DEF SessionsInv, ServedInv
<1>3. AttemptInv'
  BY DEF SessionsInv, AttemptInv, Putting
<1>4. FileInv'
  BY DEF SessionsInv, FileInv
<1>. QED
  BY <1>1, <1>2, <1>3, <1>4 DEF SessionsInv

\* The command exits before it has sent anything.
LEMMA ExitsUnsent ==
  ASSUME SessionsInv, OnlyClient, NEW c, Exits(c), ~sent,
         pc # "exited", c = ExitSuccess => cmd.misused
  PROVE  SessionsInv'
<1>. USE DEF OnlyClient, Exits, ghostVars, startupVars
<1>1. ClientInv'
  BY DEF SessionsInv, ClientInv
<1>2. ExitCodeHonest'
  BY DEF ExitCodeHonest
<1>. QED
  BY <1>1, <1>2, ClientAlone

LEMMA CodesDiffer ==
  /\ ExitSuccess = 0 /\ ExitError = 1 /\ ExitBadConnection = 2 /\ ExitBadArgs = 128
BY DEF ExitSuccess, ExitError, ExitBadConnection, ExitBadArgs

\* Who is let in has a valid certificate, and so has the server's bundle.
LEMMA LetIn ==
  ASSUME SessionsInv, NEW e, Reachable(e)
  PROVE  /\ rpcTLS.auth = "RequireAndVerify" /\ rpcTLS.pool = "valid"
         /\ cmd.tls.pair = "valid"
BY DEF SessionsInv, StartupInv, Reachable, Handshake

LEMMA BeforeRPC ==
  ASSUME SessionsInv,
         validateArgs \/ mustClientFromCmd \/ DialOK \/ DialTimesOut \/ LoadFile
  PROVE  SessionsInv'
<1>1. OnlyClient /\ ~sent /\ ClientInv /\ pc \in {"args", "tls", "dial", "file"}
  BY DEF SessionsInv, ClientInv, validateArgs, mustClientFromCmd, DialOK, DialTimesOut, LoadFile
<1>2. ASSUME NEW to \in {"args", "tls", "dial", "file", "invoke"}, pc' = to, conn' \in {"none", "up", "lost"},
             to \in {"args", "tls", "dial"} <=> conn' = "none",
             conn' = "up" => /\ rpcTLS.auth = "RequireAndVerify" /\ rpcTLS.pool = "valid"
                             /\ cmd.tls.pair = "valid",
             UNCHANGED <<cmd, cur, ran>>
      PROVE  SessionsInv'
  <2>1. cur = 0
    BY <1>1 DEF ClientInv
  <2>2. ClientInv'
    BY <1>1, <1>2, <2>1 DEF ClientInv, OnlyClient, startupVars, ghostVars
  <2>3. ExitCodeHonest'
    BY <1>2 DEF ExitCodeHonest
  <2>. QED
    BY <1>1, <1>2, <2>2, <2>3, ClientAlone
<1>3. ASSUME NEW c, Exits(c), c = ExitSuccess => cmd.misused PROVE SessionsInv'
  BY <1>1, <1>3, ExitsUnsent
<1>4. CASE validateArgs
  <2>1. pc = "args" /\ conn = "none"
    BY <1>1, <1>4 DEF validateArgs, ClientInv
  <2>. QED
    BY <1>2, <1>3, <1>4, <2>1 DEF validateArgs, Goes
<1>5. CASE mustClientFromCmd
  <2>1. pc = "tls" /\ conn = "none"
    BY <1>1, <1>5 DEF mustClientFromCmd, ClientInv
  <2>. QED
    BY <1>2, <1>3, <1>5, <2>1, CodesDiffer DEF mustClientFromCmd
<1>6. CASE DialOK
  BY <1>2, <1>6, LetIn DEF DialOK
<1>7. CASE DialTimesOut
  <2>1. pc = "dial" /\ conn = "none"
    BY <1>1, <1>7 DEF DialTimesOut, ClientInv
  <2>. QED
    BY <1>2, <1>3, <1>7, <2>1, CodesDiffer DEF DialTimesOut
<1>8. CASE LoadFile
  <2>1. /\ pc = "file" /\ conn \in {"up", "lost"}
        /\ conn = "up" => /\ rpcTLS.auth = "RequireAndVerify" /\ rpcTLS.pool = "valid"
                          /\ cmd.tls.pair = "valid"
    BY <1>1, <1>8 DEF LoadFile, ClientInv
  <2>. QED
    BY <1>2, <1>3, <1>8, <2>1, CodesDiffer DEF LoadFile, Goes
<1>. QED
  BY <1>4, <1>5, <1>6, <1>7, <1>8

\* The connection is lost, found again or given up.
LEMMA Connections ==
  ASSUME SessionsInv, Break \/ Reconnect \/ ReconnectTimesOut
  PROVE  SessionsInv'
<1>1. CASE Break
  <2>1. ClientInv' /\ OnlyClient /\ cmd' = cmd /\ ran' = ran /\ cur' = 0 /\ pc # "exited"
    BY <1>1 DEF Break, OnlyClient, startupVars, ghostVars, SessionsInv, ClientInv
  <2>2. ExitCodeHonest'
    BY <1>1 DEF Break, OnlyClient, ghostVars, SessionsInv, ExitCodeHonest
  <2>. QED
    BY <2>1, <2>2, ClientAlone
<1>2. CASE Reconnect
  <2>1. /\ rpcTLS.auth = "RequireAndVerify" /\ rpcTLS.pool = "valid"
        /\ cmd.tls.pair = "valid"
    BY <1>2, LetIn DEF Reconnect
  <2>2. ClientInv' /\ OnlyClient /\ cmd' = cmd /\ ran' = ran /\ cur' = cur /\ pc # "exited"
    BY <1>2, <2>1 DEF Reconnect, OnlyClient, startupVars, ghostVars, SessionsInv, ClientInv
  <2>3. ExitCodeHonest'
    BY <1>2 DEF Reconnect, ExitCodeHonest
  <2>. QED
    BY <2>2, <2>3, ClientAlone
<1>3. CASE ReconnectTimesOut
  <2>1. ClientInv' /\ OnlyClient /\ cmd' = cmd /\ ran' = ran /\ cur' = 0 /\ pc # "exited"
    BY <1>3 DEF ReconnectTimesOut, Exits, OnlyClient, startupVars, ghostVars, SessionsInv, ClientInv
  <2>2. ExitCodeHonest'
    BY <1>3, CodesDiffer DEF ReconnectTimesOut, Exits, ExitCode, ExitCodeHonest
  <2>. QED
    BY <2>1, <2>2, ClientAlone
<1>. QED
  BY <1>1, <1>2, <1>3

\* Another command starts: no attempt that is still running is its own.
LEMMA RunStep ==
  ASSUME SessionsInv, Run
  PROVE  SessionsInv'
<1>. USE DEF Run, startupVars, diskVars
<1>1. StartupInv'
  BY DEF SessionsInv, StartupInv
<1>2. ClientInv'
  BY DEF SessionsInv, ClientInv
<1>3. \A a \in Attempt : req[a].n \in Nat /\ req[a].n <= ran
  BY DEF SessionsInv, ServedInv, ClientInv, NoReq
<1>4. ServedInv'
  BY DEF SessionsInv, ServedInv, ClientInv
<1>5. AttemptInv'
  BY <1>3 DEF SessionsInv, AttemptInv, ClientInv, Putting
<1>6. FileInv'
  BY DEF SessionsInv, FileInv, AttemptInv, ClientInv
<1>7. ExitCodeHonest'
  BY DEF ExitCodeHonest
<1>. QED
  BY <1>1, <1>2, <1>4, <1>5, <1>6, <1>7 DEF SessionsInv

-----------------------------------------------------------------------------
(***************************************************************************)
(* The RPC and its handlers                                                *)
(***************************************************************************)

\* A request that a handler has taken: nothing is written yet.
LEMMA Accepted ==
  ASSUME SessionsInv, NEW a \in Attempt, Accept(a)
  PROVE  /\ phase[a] = "idle" /\ phase' = [phase EXCEPT ![a] = phase'[a]]
         /\ phase'[a] \in {"asked", "done"}
         /\ DOMAIN call' = Attempt /\ \A b \in Attempt \ {a} : call'[b] = call[b]
         /\ call'[a].op = "put" /\ phase'[a] = "asked" => call'[a].paths = {File}
         /\ cmd.kind = "create" =>
              /\ call'[a].op = "put"
              /\ phase'[a] = "asked" => call'[a].doc = cmd.doc
              /\ phase'[a] = "done" => call'[a].err
         /\ UNCHANGED <<holds, doubtful>>
<1>0. DOMAIN call = Attempt /\ phase \in [Attempt -> {"idle", "asked", "writing", "done"}]
  BY DEF SessionsInv, ServedInv
<1>1. CASE cmd.kind = "create" /\ cmd.file = "ok"
           /\ call' = [call EXCEPT ![a] = Disk!Request("put", "none", {File}, cmd.doc, FALSE)]
           /\ Disk!AskPut(a)
  BY <1>0, <1>1 DEF Disk!AskPut, Disk!Step, Disk!Request
<1>2. CASE cmd.kind = "create" /\ cmd.file = "noId" /\ Disk!RefusePut(a)
  BY <1>0, <1>2 DEF Disk!RefusePut, Disk!PutReturns, Disk!Step, Disk!Request
<1>3. CASE cmd.kind \in {"describe", "list"} /\ Disk!AskRead(a)
  BY <1>0, <1>3 DEF Disk!AskRead, Disk!Step, Disk!Request
<1>. QED
  BY <1>1, <1>2, <1>3 DEF Accept

LEMMA SendStep ==
  ASSUME SessionsInv, NEW a \in Attempt, Send(a)
  PROVE  SessionsInv'
<1>1. /\ pc = "invoke" /\ conn = "up" /\ Accept(a)
      /\ req' = [req EXCEPT ![a] = [n |-> ran, pair |-> cmd.tls.pair]]
      /\ cur' = a /\ pc' = "wait" /\ sent' = TRUE
      /\ UNCHANGED <<startupVars, cmd, code, left, conn, ran, breaks, stored, begun, acked>>
  BY DEF Send
<1>2. /\ phase[a] = "idle" /\ phase' = [phase EXCEPT ![a] = phase'[a]]
      /\ phase'[a] \in {"asked", "done"}
      /\ DOMAIN call' = Attempt /\ \A b \in Attempt \ {a} : call'[b] = call[b]
      /\ call'[a].op = "put" /\ phase'[a] = "asked" => call'[a].paths = {File}
      /\ cmd.kind = "create" =>
           /\ call'[a].op = "put"
           /\ phase'[a] = "asked" => call'[a].doc = cmd.doc
           /\ phase'[a] = "done" => call'[a].err
      /\ UNCHANGED <<holds, doubtful>>
  BY <1>1, Accepted
<1>3. /\ rpcTLS' = rpcTLS /\ rpcTLS.pool = "valid" /\ cmd.tls.pair = "valid"
      /\ ran \in Nat /\ ran > 0 /\ a # 0
  BY <1>1, SessionsAssumption DEF SessionsInv, ClientInv, startupVars
<1>4. /\ phase \in [Attempt -> {"idle", "asked", "writing", "done"}]
      /\ req \in [Attempt -> [n : Nat, pair : {"none", "valid", "missing", "invalid", "stranger"}]]
      /\ req'[a].n = ran /\ req'[a].pair = "valid"
      /\ \A b \in Attempt \ {a} : req'[b] = req[b] /\ phase'[b] = phase[b]
  BY <1>1, <1>2, <1>3 DEF SessionsInv, ServedInv
<1>5. StartupInv'
  BY <1>1, StartupSame DEF SessionsInv
<1>6. ClientInv'
  BY <1>1, <1>3 DEF SessionsInv, ClientInv
<1>7. ServedInv'
  <2>1. /\ phase' \in [Attempt -> {"idle", "asked", "writing", "done"}]
        /\ req' \in [Attempt -> [n : Nat, pair : {"none", "valid", "missing", "invalid", "stranger"}]]
    BY <1>1, <1>2, <1>3, <1>4
  <2>2. \A b \in Attempt \ {a} :
          IF phase'[b] = "idle" THEN req'[b] = NoReq
          ELSE /\ rpcTLS.pool = "valid" /\ req'[b].pair = "valid"
               /\ req'[b].n \in 1..ran
               /\ phase'[b] = "writing" => call'[b].op = "put"
               /\ phase'[b] # "done" /\ call'[b].op = "put" => call'[b].paths = {File}
    BY <1>2, <1>4 DEF SessionsInv, ServedInv
  <2>. QED
    BY <1>1, <1>2, <1>3, <1>4, <2>1, <2>2 DEF ServedInv
<1>8. AttemptInv'
  <2>1. /\ acked'.n \in 0..ran' /\ begun' \in 0..ran'
        /\ pc' # "exited" => acked'.n # ran'
    BY <1>1 DEF SessionsInv, AttemptInv
  <2>2. ASSUME NEW b \in Attempt, b # a
        PROVE  /\ phase'[b] # "idle" /\ req'[b].n = ran' /\ cmd'.kind = "create" =>
                    /\ call'[b].op = "put"
                    /\ Putting(b, cmd.doc)'
                    /\ phase'[b] = "done" => stored' \/ call'[b].err
               /\ req'[b].n = acked'.n => Putting(b, acked.doc)'
    BY <1>1, <1>2, <1>4, <2>2 DEF SessionsInv, AttemptInv, Putting
  <2>3. /\ phase'[a] # "idle" /\ req'[a].n = ran' /\ cmd'.kind = "create" =>
             /\ call'[a].op = "put"
             /\ Putting(a, cmd.doc)'
             /\ phase'[a] = "done" => stored' \/ call'[a].err
    BY <1>1, <1>2, <1>4 DEF Putting
  <2>4. req'[a].n # acked'.n
    <3>1. acked.n # ran
      BY <1>1 DEF SessionsInv, AttemptInv
    <3>. QED
      BY <1>1, <1>4, <3>1
  <2>. QED
    BY <2>1, <2>2, <2>3, <2>4 DEF AttemptInv
<1>9. FileInv'
  BY <1>1, <1>2, <1>4 DEF SessionsInv, FileInv
<1>10. ExitCodeHonest'
  BY <1>1 DEF ExitCodeHonest
<1>. QED
  BY <1>5, <1>6, <1>7, <1>8, <1>9, <1>10 DEF SessionsInv

\* The reply reaches the command: a create that exits with success was
\* acknowledged.
LEMMA ReplyStep ==
  ASSUME SessionsInv, Reply
  PROVE  SessionsInv'
<1>1. /\ pc = "wait" /\ conn = "up" /\ phase[cur] = "done"
      /\ pc' = "exited" /\ code' = ExitCode(call[cur].err) /\ conn' = "none" /\ cur' = 0
      /\ acked' = IF cmd.kind = "create" /\ code' = ExitSuccess
                  THEN [n |-> ran, doc |-> cmd.doc] ELSE acked
      /\ req' = [req EXCEPT ![cur] = NoReq]
      /\ UNCHANGED <<startupVars, cmd, ran, sent, stored, begun>>
  BY DEF Reply, Exits
<1>2. /\ cur \in Attempt /\ req[cur].n = ran
      /\ DOMAIN call = Attempt /\ phase \in [Attempt -> {"idle", "asked", "writing", "done"}]
      /\ req \in [Attempt -> [n : Nat, pair : {"none", "valid", "missing", "invalid", "stranger"}]]
  BY <1>1 DEF SessionsInv, ClientInv, ServedInv
<1>3. /\ phase' = [phase EXCEPT ![cur] = "idle"] /\ DOMAIN call' = Attempt
      /\ \A b \in Attempt \ {cur} : call'[b] = call[b]
      /\ UNCHANGED <<holds, doubtful>>
  BY <1>2 DEF Reply, Disk!Return, Disk!Step
<1>4. /\ \A b \in Attempt \ {cur} : phase'[b] = phase[b] /\ req'[b] = req[b]
      /\ phase'[cur] = "idle" /\ req'[cur] = NoReq
  BY <1>1, <1>2, <1>3
<1>5. NoReq \in [n : Nat, pair : {"none", "valid", "missing", "invalid", "stranger"}] /\ NoReq.n = 0
  BY DEF NoReq
<1>6. StartupInv'
  BY <1>1, StartupSame DEF SessionsInv
<1>7. ClientInv'
  BY <1>1 DEF SessionsInv, ClientInv
<1>8. rpcTLS' = rpcTLS
  BY <1>1 DEF startupVars
<1>9. ServedInv'
  <2>1. /\ phase' \in [Attempt -> {"idle", "asked", "writing", "done"}]
        /\ req' \in [Attempt -> [n : Nat, pair : {"none", "valid", "missing", "invalid", "stranger"}]]
    BY <1>1, <1>2, <1>3, <1>5
  <2>2. \A b \in Attempt \ {cur} :
          IF phase'[b] = "idle" THEN req'[b] = NoReq
          ELSE /\ rpcTLS.pool = "valid" /\ req'[b].pair = "valid"
               /\ req'[b].n \in 1..ran
               /\ phase'[b] = "writing" => call'[b].op = "put"
               /\ phase'[b] # "done" /\ call'[b].op = "put" => call'[b].paths = {File}
    BY <1>3, <1>4 DEF SessionsInv, ServedInv
  <2>. QED
    BY <1>1, <1>3, <1>4, <1>8, <2>1, <2>2 DEF ServedInv
<1>10. /\ acked'.n \in 0..ran
       /\ \/ acked' = acked
          \/ acked'.n = ran /\ acked'.doc = cmd.doc /\ cmd.kind = "create"
  BY <1>1 DEF SessionsInv, AttemptInv, ClientInv
<1>11. AttemptInv'
  <2>1. ASSUME NEW b \in Attempt \ {cur}
        PROVE  /\ phase'[b] # "idle" /\ req'[b].n = ran /\ cmd.kind = "create" =>
                    /\ call'[b].op = "put"
                    /\ Putting(b, cmd.doc)'
                    /\ phase'[b] = "done" => stored' \/ call'[b].err
               /\ req'[b].n = acked'.n => Putting(b, acked.doc)'
    <3>1. Putting(b, cmd.doc)' <=> Putting(b, cmd'.doc)
      BY <1>3, <1>4 DEF Putting
    <3>2. Putting(b, acked.doc)' <=> Putting(b, acked'.doc)
      BY <1>3, <1>4 DEF Putting
    <3>3. /\ phase[b] # "idle" /\ req[b].n = ran /\ cmd.kind = "create" =>
               /\ call[b].op = "put"
               /\ Putting(b, cmd.doc)
               /\ phase[b] = "done" => stored \/ call[b].err
          /\ req[b].n = acked.n => Putting(b, acked.doc)
      BY DEF SessionsInv, AttemptInv
    <3>4. req[b].n = ran /\ cmd.kind = "create" => Putting(b, cmd.doc)
      BY <3>3 DEF Putting
    <3>. QED
      BY <1>1, <1>3, <1>4, <1>10, <3>1, <3>2, <3>3, <3>4
  <2>2. ASSUME NEW b \in Attempt, b = cur
        PROVE  /\ phase'[b] # "idle" /\ req'[b].n = ran /\ cmd.kind = "create" =>
                    /\ call'[b].op = "put"
                    /\ Putting(b, cmd.doc)'
                    /\ phase'[b] = "done" => stored' \/ call'[b].err
               /\ req'[b].n = acked'.n => Putting(b, acked.doc)'
    BY <1>4, <2>2 DEF Putting
  <2>3. begun' \in 0..ran'
    BY <1>1 DEF SessionsInv, AttemptInv
  <2>. QED
    BY <1>1, <1>10, <2>1, <2>2, <2>3 DEF AttemptInv
<1>12. FileInv'
  <2>1. \A b \in Attempt : phase'[b] = "writing" <=> phase[b] = "writing"
    BY <1>1, <1>4
  <2>2. \A b \in Attempt : phase'[b] = "writing" => req'[b] = req[b]
    BY <1>4
  <2>. QED
    BY <1>1, <1>3, <1>10, <2>1, <2>2 DEF SessionsInv, FileInv
<1>13. ExitCodeHonest'
  <2>1. cmd.kind = "create" => stored \/ call[cur].err
    BY <1>1, <1>2 DEF SessionsInv, AttemptInv
  <2>. QED
    BY <1>1, <2>1, CodesDiffer DEF ExitCode, ExitCodeHonest
<1>. QED
  BY <1>6, <1>7, <1>9, <1>11, <1>12, <1>13 DEF SessionsInv

\* A step of a handler: of the store, the request and the document of its
\* attempt only the phase and the file may change.
LEMMA HandlerStep ==
  ASSUME SessionsInv, NEW a \in Attempt, NEW to \in {"idle", "writing", "done"},
         phase[a] # "idle", phase' = [phase EXCEPT ![a] = to],
         DOMAIN call' = Attempt, \A b \in Attempt \ {a} : call'[b] = call[b],
         to = "writing" => phase[a] = "asked" /\ call'[a] = call[a] /\ call[a].op = "put",
         to = "done" => call'[a].op = call[a].op,
         to = "idle" => a # cur,
         req' = IF to = "idle" THEN [req EXCEPT ![a] = NoReq] ELSE req,
         req[a].n = ran /\ cmd.kind = "create" /\ to = "done" => stored' \/ call'[a].err,
         stored => stored', sent' = sent, begun' \in 0..ran,
         UNCHANGED <<startupVars, clientVars, acked>>, FileInv'
  PROVE  SessionsInv'
<1>1. /\ phase \in [Attempt -> {"idle", "asked", "writing", "done"}]
      /\ req \in [Attempt -> [n : Nat, pair : {"none", "valid", "missing", "invalid", "stranger"}]]
  BY DEF SessionsInv, ServedInv
<1>2. /\ phase'[a] = to /\ (to # "idle" => req'[a] = req[a]) /\ (to = "idle" => req'[a] = NoReq)
      /\ \A b \in Attempt \ {a} : phase'[b] = phase[b] /\ req'[b] = req[b]
  BY <1>1
<1>3. NoReq \in [n : Nat, pair : {"none", "valid", "missing", "invalid", "stranger"}] /\ NoReq.n = 0
  BY DEF NoReq
<1>4. UNCHANGED <<rpcTLS, cmd, pc, code, conn, cur, ran>>
  BY DEF startupVars, clientVars
<1>5. StartupInv'
  BY StartupSame DEF SessionsInv
<1>6. ClientInv'
  BY <1>4 DEF SessionsInv, ClientInv
<1>7. ServedInv'
  <2>1. /\ phase' \in [Attempt -> {"idle", "asked", "writing", "done"}]
        /\ req' \in [Attempt -> [n : Nat, pair : {"none", "valid", "missing", "invalid", "stranger"}]]
    BY <1>1, <1>3
  <2>2. \A b \in Attempt :
          IF phase'[b] = "idle" THEN req'[b] = NoReq
          ELSE /\ rpcTLS.pool = "valid" /\ req'[b].pair = "valid"
               /\ req'[b].n \in 1..ran
               /\ phase'[b] = "writing" => call'[b].op = "put"
               /\ phase'[b] # "done" /\ call'[b].op = "put" => call'[b].paths = {File}
    <3>1. CASE to = "writing"
      BY <1>2, <3>1 DEF SessionsInv, ServedInv
    <3>2. CASE to # "writing"
      BY <1>2, <3>2 DEF SessionsInv, ServedInv
    <3>. QED
      BY <3>1, <3>2
  <2>3. cur # 0 => req'[cur].n = ran /\ phase'[cur] # "idle"
    BY <1>2 DEF SessionsInv, ServedInv, ClientInv
  <2>. QED
    BY <1>4, <2>1, <2>2, <2>3 DEF ServedInv
<1>8. AttemptInv'
  <2>1. ASSUME NEW b \in Attempt, NEW d, Putting(b, d)
        PROVE  phase'[b] \in {"asked", "writing"} /\ call'[b].op = "put" => call'[b].doc = d
    BY <1>2, <2>1 DEF Putting
  <2>2. ASSUME NEW b \in Attempt, phase'[b] # "idle", req'[b].n = ran, cmd.kind = "create"
        PROVE  /\ call'[b].op = "put"
               /\ phase'[b] \in {"asked", "writing"} /\ call'[b].op = "put" => call'[b].doc = cmd.doc
               /\ phase'[b] = "done" => stored' \/ call'[b].err
    <3>1. phase[b] # "idle" /\ req[b].n = ran
      BY <1>2, <2>2
    <3>2. /\ call[b].op = "put" /\ Putting(b, cmd.doc)
          /\ phase[b] = "done" => stored \/ call[b].err
      BY <2>2, <3>1 DEF SessionsInv, AttemptInv
    <3>3. call'[b].op = "put"
      BY <1>2, <2>2, <3>2
    <3>4. phase'[b] \in {"asked", "writing"} /\ call'[b].op = "put" => call'[b].doc = cmd.doc
      BY <2>1, <3>2
    <3>5. ASSUME phase'[b] = "done" PROVE stored' \/ call'[b].err
      <4>1. CASE b = a
        BY <1>2, <2>2, <3>1, <3>5, <4>1
      <4>2. CASE b # a
        <5>1. phase[b] = "done" /\ call'[b] = call[b]
          BY <1>2, <3>5, <4>2
        <5>. QED
          BY <3>2, <5>1
      <4>. QED
        BY <4>1, <4>2
    <3>. QED
      BY <3>3, <3>4, <3>5
  <2>3. ASSUME NEW b \in Attempt, req'[b].n = acked.n
        PROVE  phase'[b] \in {"asked", "writing"} /\ call'[b].op = "put" => call'[b].doc = acked.doc
    BY <1>2, <2>1, <2>3 DEF SessionsInv, AttemptInv
  <2>4. acked.n \in 0..ran /\ (pc # "exited" => acked.n # ran)
    BY DEF SessionsInv, AttemptInv
  <2>. QED
    BY <1>4, <2>2, <2>3, <2>4 DEF AttemptInv, Putting
<1>9. ExitCodeHonest'
  <2>1. ASSUME pc = "exited", ran > 0, cmd.kind = "create", ~cmd.misused, code = ExitSuccess
        PROVE  stored
    BY <2>1 DEF SessionsInv, ExitCodeHonest
  <2>2. ASSUME pc = "exited", ran > 0, code \in {ExitBadConnection, ExitBadArgs} PROVE ~sent
    BY <2>2 DEF SessionsInv, ExitCodeHonest
  <2>. QED
    BY <1>4, <2>1, <2>2, Zenon DEF ExitCodeHonest
<1>. QED
  BY <1>5, <1>6, <1>7, <1>8, <1>9 DEF SessionsInv

\* What the invariant says of a put that is under way.
LEMMA PutUnderWay ==
  ASSUME SessionsInv, NEW a \in Attempt, phase[a] \in {"asked", "writing"},
         phase[a] = "writing" \/ call[a].op = "put"
  PROVE  /\ call[a].op = "put" /\ call[a].paths = {File}
         /\ req[a].n \in 1..ran
         /\ req[a].n = ran /\ cmd.kind = "create" => call[a].doc = cmd.doc
         /\ req[a].n = acked.n => call[a].doc = acked.doc
<1>1. /\ call[a].op = "put" /\ call[a].paths = {File} /\ req[a].n \in 1..ran
  BY DEF SessionsInv, ServedInv
<1>2. /\ req[a].n = ran /\ cmd.kind = "create" => Putting(a, cmd.doc)
      /\ req[a].n = acked.n => Putting(a, acked.doc)
  BY DEF SessionsInv, AttemptInv
<1>. QED
  BY <1>1, <1>2 DEF Putting

LEMMA WritingNow ==
  ASSUME SessionsInv
  PROVE  Disk!Writing(File) = {a \in Attempt : phase[a] = "writing"}
<1>1. \A a \in Attempt : phase[a] = "writing" => call[a].paths = {File}
  BY PutUnderWay
<1>. QED
  BY <1>1 DEF Disk!Writing

LEMMA BeginPutStep ==
  ASSUME SessionsInv, NEW a \in Attempt, BeginPut(a), UNCHANGED <<req, startupVars, clientVars, acked>>
  PROVE  SessionsInv'
<1>1. /\ phase[a] = "asked" /\ call[a].op = "put"
      /\ holds' = [holds EXCEPT ![File] = @ \cup {Torn, call[a].doc}]
      /\ begun' = req[a].n /\ UNCHANGED <<sent, stored>>
  BY DEF BeginPut
<1>2. call[a].paths = {File} /\ req[a].n \in 1..ran
  BY <1>1, PutUnderWay
<1>3. /\ phase' = [phase EXCEPT ![a] = "writing"] /\ call' = call
      /\ doubtful' = IF Disk!Writing(File) # {} THEN doubtful \cup {File} ELSE doubtful \ {File}
  BY <1>2 DEF BeginPut, Disk!BeginPut, Disk!Step
<1>4. /\ phase \in [Attempt -> {"idle", "asked", "writing", "done"}] /\ DOMAIN call = Attempt
      /\ ran \in Nat
  BY DEF SessionsInv, ServedInv, ClientInv
<1>5. FileInv'
  <2>1. DOMAIN holds' = {File} /\ doubtful' \subseteq {File}
    BY <1>1, <1>3 DEF SessionsInv, FileInv
  <2>2. ASSUME File \notin doubtful' PROVE \A b \in Attempt : phase'[b] = "writing" => b = a
    BY <1>3, <1>4, <2>2, WritingNow
  <2>3. phase'[a] = "writing" /\ req'[a].n = begun'
    BY <1>1, <1>3, <1>4
  <2>. QED
    BY <2>1, <2>2, <2>3 DEF FileInv
<1>6. begun' \in 0..ran /\ (stored => stored') /\ sent' = sent
  BY <1>1, <1>2
<1>7. phase[a] # "idle" /\ DOMAIN call' = Attempt /\ call'[a] = call[a]
      /\ \A b \in Attempt \ {a} : call'[b] = call[b]
  BY <1>1, <1>3, <1>4
<1>. QED
  BY <1>1, <1>3, <1>5, <1>6, <1>7, HandlerStep

LEMMA EndPutStep ==
  ASSUME SessionsInv, NEW a \in Attempt, EndPut(a), UNCHANGED <<req, startupVars, clientVars, acked>>
  PROVE  SessionsInv'
<1>1. /\ phase[a] = "writing" /\ stored' = (stored \/ req[a].n = ran)
      /\ UNCHANGED <<sent, begun>>
  BY DEF EndPut
<1>2. /\ call[a].op = "put" /\ call[a].paths = {File} /\ req[a].n \in 1..ran
      /\ req[a].n = ran /\ cmd.kind = "create" => call[a].doc = cmd.doc
      /\ req[a].n = acked.n => call[a].doc = acked.doc
  BY <1>1, PutUnderWay
<1>3. /\ phase \in [Attempt -> {"idle", "asked", "writing", "done"}] /\ DOMAIN call = Attempt
      /\ ran \in Nat /\ DOMAIN holds = {File} /\ begun \in 0..ran
  BY DEF SessionsInv, ServedInv, ClientInv, FileInv, AttemptInv
<1>4. /\ phase' = [phase EXCEPT ![a] = "done"] /\ doubtful' = doubtful
      /\ call' = [call EXCEPT ![a] = Disk!Request("put", "none", {}, NoDoc, FALSE)]
      /\ File \notin doubtful => holds' = [holds EXCEPT ![File] = {call[a].doc}]
      /\ File \in doubtful => holds' = holds
  BY <1>2 DEF EndPut, Disk!EndPut, Disk!Step, Disk!PutReturns
<1>5. /\ DOMAIN call' = Attempt /\ \A b \in Attempt \ {a} : call'[b] = call[b]
      /\ call'[a].op = "put"
  BY <1>3, <1>4 DEF Disk!Request
<1>6. FileInv'
  <2>1. DOMAIN holds' = {File} /\ doubtful' \subseteq {File}
    BY <1>3, <1>4 DEF SessionsInv, FileInv
  <2>2. ASSUME File \notin doubtful'
        PROVE  holds'[File] = {call[a].doc} /\ begun = req[a].n
               /\ \A b \in Attempt : phase'[b] # "writing"
    BY <1>1, <1>3, <1>4, <2>2 DEF SessionsInv, FileInv
  <2>3. UNCHANGED <<req, cmd, ran, acked, begun>>
    BY <1>1 DEF clientVars
  <2>. QED
    BY <1>2, <2>1, <2>2, <2>3 DEF FileInv
<1>7. req[a].n = ran => stored'
  BY <1>1
<1>8. stored => stored'
  BY <1>1
<1>. QED
  BY <1>1, <1>2, <1>3, <1>4, <1>5, <1>6, <1>7, <1>8, HandlerStep

LEMMA FailPutStep ==
  ASSUME SessionsInv, NEW a \in Attempt, FailPut(a), UNCHANGED <<req, startupVars, clientVars, acked>>
  PROVE  SessionsInv'
<1>1. /\ phase[a] \in {"asked", "writing"} /\ call[a].op = "put" /\ holds' = holds
      /\ phase' = [phase EXCEPT ![a] = "done"]
      /\ call' = [call EXCEPT ![a] = Disk!Request("put", "none", {}, NoDoc, TRUE)]
      /\ doubtful' = doubtful \cup (IF phase[a] = "writing" THEN call[a].paths ELSE {})
      /\ UNCHANGED <<sent, stored, begun>>
  BY DEF FailPut, Disk!FailPut, Disk!Step, Disk!PutReturns
<1>2. call[a].paths = {File}
  BY <1>1, PutUnderWay
<1>3. /\ phase \in [Attempt -> {"idle", "asked", "writing", "done"}] /\ DOMAIN call = Attempt
      /\ ran \in Nat /\ begun \in 0..ran
  BY DEF SessionsInv, ServedInv, ClientInv, AttemptInv
<1>4. /\ DOMAIN call' = Attempt /\ \A b \in Attempt \ {a} : call'[b] = call[b]
      /\ call'[a].op = "put"
  BY <1>1, <1>3 DEF Disk!Request
<1>5. call'[a].err
  BY <1>1, <1>3 DEF Disk!Request
<1>6. FileInv'
  <2>1. DOMAIN holds' = {File} /\ doubtful' \subseteq {File}
    BY <1>1, <1>2 DEF SessionsInv, FileInv
  <2>2. ASSUME File \notin doubtful'
        PROVE  File \notin doubtful /\ \A b \in Attempt : phase'[b] = "writing" <=> phase[b] = "writing"
    BY <1>1, <1>2, <1>3, <2>2
  <2>3. UNCHANGED <<req, cmd, ran, acked, begun, holds>>
    BY <1>1 DEF clientVars
  <2>. QED
    BY <2>1, <2>2, <2>3 DEF SessionsInv, FileInv
<1>. QED
  BY <1>1, <1>3, <1>4, <1>5, <1>6, HandlerStep

\* A read ends, or a handler returns: the file is not concerned.
LEMMA FileSame ==
  ASSUME SessionsInv, NEW a \in Attempt, phase[a] # "writing",
         \A b \in Attempt \ {a} : phase'[b] = phase[b] /\ req'[b] = req[b],
         phase'[a] # "writing",
         UNCHANGED <<clientVars, acked, begun, holds, doubtful>>
  PROVE  FileInv'
<1>1. \A b \in Attempt : phase'[b] = "writing" <=> phase[b] = "writing"
  OBVIOUS
<1>2. \A b \in Attempt : phase'[b] = "writing" => req'[b] = req[b]
  OBVIOUS
<1>. QED
  BY <1>1, <1>2 DEF SessionsInv, FileInv, clientVars

LEMMA AnswerReadStep ==
  ASSUME SessionsInv, NEW a \in Attempt, AnswerRead(a), UNCHANGED <<req, startupVars, clientVars, acked>>
  PROVE  SessionsInv'
<1>1. /\ phase[a] = "asked" /\ call[a].op \in {"get", "list"}
      /\ phase' = [phase EXCEPT ![a] = "done"]
      /\ call' = [call EXCEPT ![a] = Disk!Answered(@, call'[a].got, call'[a].err)]
      /\ UNCHANGED <<sent, stored, begun, holds, doubtful>>
  BY DEF AnswerRead, Disk!AnswerRead, Disk!Step
<1>2. /\ phase \in [Attempt -> {"idle", "asked", "writing", "done"}] /\ DOMAIN call = Attempt
      /\ ran \in Nat /\ begun \in 0..ran
  BY DEF SessionsInv, ServedInv, ClientInv, AttemptInv
<1>3. /\ DOMAIN call' = Attempt /\ \A b \in Attempt \ {a} : call'[b] = call[b]
      /\ call'[a].op = call[a].op
  BY <1>1, <1>2 DEF Disk!Answered
<1>4. ~(req[a].n = ran /\ cmd.kind = "create")
  BY <1>1 DEF SessionsInv, AttemptInv
<1>5. FileInv'
  BY <1>1, <1>2, FileSame
<1>. QED
  BY <1>1, <1>2, <1>3, <1>4, <1>5, HandlerStep

LEMMA ReturnStep ==
  ASSUME SessionsInv, NEW a \in Attempt, a # cur, Disk!Return(a),
         req' = [req EXCEPT ![a] = NoReq],
         UNCHANGED <<sent, stored, begun, startupVars, clientVars, acked>>
  PROVE  SessionsInv'
<1>1. /\ phase[a] = "done" /\ phase' = [phase EXCEPT ![a] = "idle"]
      /\ call' = [call EXCEPT ![a] = Disk!NoCall]
      /\ UNCHANGED <<holds, doubtful>>
  BY DEF Disk!Return, Disk!Step
<1>2. /\ phase \in [Attempt -> {"idle", "asked", "writing", "done"}] /\ DOMAIN call = Attempt
      /\ DOMAIN req = Attempt /\ ran \in Nat /\ begun \in 0..ran
  BY DEF SessionsInv, ServedInv, ClientInv, AttemptInv
<1>3. DOMAIN call' = Attempt /\ \A b \in Attempt \ {a} : call'[b] = call[b]
  BY <1>1, <1>2
<1>4. FileInv'
  BY <1>1, <1>2, FileSame
<1>. QED
  BY <1>1, <1>2, <1>3, <1>4, HandlerStep

LEMMA HandleStep ==
  ASSUME SessionsInv, NEW a \in Attempt, Handle(a)
  PROVE  SessionsInv'
BY BeginPutStep, EndPutStep, FailPutStep, AnswerReadStep, ReturnStep DEF Handle

-----------------------------------------------------------------------------
(***************************************************************************)
(* The theorems                                                            *)
(***************************************************************************)

LEMMA InitSessions == SessionsInit => SessionsInv
<1>. SUFFICES ASSUME SessionsInit PROVE SessionsInv
  OBVIOUS
<1>. USE DEF SessionsInit
<1>1. StartupInv
  BY StartupAssumption DEF StartupInit, StartupInv
<1>2. cmd \in Commands
  BY SessionsAssumption
<1>3. ClientInv
  BY <1>2 DEF ClientInv
<1>4. /\ phase = [a \in Attempt |-> "idle"] /\ call = [a \in Attempt |-> Disk!NoCall]
      /\ doubtful = {} /\ DOMAIN holds = {File}
  BY DEF Disk!Init
<1>5. NoReq \in [n : Nat, pair : {"none", "valid", "missing", "invalid", "stranger"}]
  BY DEF NoReq
<1>6. ServedInv
  BY <1>4, <1>5 DEF ServedInv
<1>7. AttemptInv
  BY <1>4 DEF AttemptInv, Putting
<1>8. FileInv
  BY <1>4 DEF FileInv
<1>9. ExitCodeHonest
  BY DEF ExitCodeHonest
<1>. QED
  BY <1>1, <1>3, <1>6, <1>7, <1>8, <1>9 DEF SessionsInv

LEMMA NextSessions == SessionsInv /\ [Next]_vars => SessionsInv'
<1>. SUFFICES ASSUME SessionsInv, [Next]_vars PROVE SessionsInv'
  OBVIOUS
<1>1. CASE UNCHANGED vars
  BY <1>1, StartupSame, ServerGoesOn DEF vars, startupVars, SessionsInv
<1>2. CASE ClientStep
  BY <1>2, BeforeRPC, SendStep, Connections, ReplyStep DEF ClientStep
<1>. QED
  BY <1>1, <1>2, ServerSteps, RunStep, Connections, HandleStep DEF Next

\* What the theorems below follow from: whatever commands are run and however
\* the connections and the server break, the invariant holds.
THEOREM SessionsInvariance == Spec => []SessionsInv
BY InitSessions, NextSessions, PTL DEF Spec

\* The control state of bootcmd and of the handlers of the server always
\* agree: a command waits for an attempt of its own, which is being served.
THEOREM SessionsTypeCorrect == Spec => []SessionsTypeOK
<1>1. SessionsInv => SessionsTypeOK
  <2>. SUFFICES ASSUME SessionsInv PROVE SessionsTypeOK
    OBVIOUS
  <2>1. /\ cmd \in Command
        /\ pc \in {"args", "tls", "dial", "file", "invoke", "wait", "exited"}
        /\ conn = "up" => pc \in {"file", "invoke", "wait"} /\ rpcTLS # NoTLS
        /\ pc = "wait" /\ conn = "up" <=> cur # 0
    BY SessionsAssumption, NoTLSFields DEF SessionsInv, ClientInv
  <2>2. \A a \in Attempt : phase[a] # "idle" <=> req[a] # NoReq
    BY DEF SessionsInv, ServedInv, NoReq
  <2>3. cur # 0 => req[cur].n = ran /\ phase[cur] # "idle"
    BY DEF SessionsInv, ServedInv
  <2>. QED
    BY <2>1, <2>2, <2>3 DEF SessionsTypeOK
<1>. QED
  BY <1>1, SessionsInvariance, PTL

\* The RPC server of info.go and tlsutil.go only ever works for clients with a
\* valid certificate, whatever happens to its TLS files.
THEOREM AdmittedOnlyCorrect == Spec => []AdmittedOnly
<1>1. SessionsInv => AdmittedOnly
  BY DEF SessionsInv, ServedInv, AdmittedOnly
<1>. QED
  BY <1>1, SessionsInvariance, PTL

\* The exit code of a bootcmd command never claims more than it knows: a
\* create that exits with success was acknowledged by the store.
THEOREM ExitCodeHonestCorrect == Spec => []ExitCodeHonest
<1>1. SessionsInv => ExitCodeHonest
  BY DEF SessionsInv
<1>. QED
  BY <1>1, SessionsInvariance, PTL

\* A create that exits with success has replaced its file, for every number of
\* attempts that lost connections and restarts of the server leave behind.
THEOREM SuccessMeansStoredCorrect == Spec => []SuccessMeansStored
<1>1. SessionsInv => SuccessMeansStored
  <2>. SUFFICES ASSUME SessionsInv, acked.n # 0, begun = acked.n, Writers = {},
                       File \notin doubtful
                PROVE  holds[File] = {acked.doc}
    BY DEF SuccessMeansStored
  <2>1. \A a \in Attempt : phase[a] # "writing"
    BY PutUnderWay DEF Writers
  <2>. QED
    BY <2>1 DEF SessionsInv, FileInv
<1>. QED
  BY <1>1, SessionsInvariance, PTL

\* main of cmd/bootcfg starts what its flags ask for: connections are accepted
\* only by an RPC server that verifies client certificates, and the signer is an
\* unlocked private key or the public key of a ring without a private one.
THEOREM ServingAsConfiguredCorrect == Spec => []ServingAsConfigured
<1>1. SessionsInv => ServingAsConfigured
  BY DEF SessionsInv, StartupInv, ServingAsConfigured
<1>. QED
  BY <1>1, SessionsInvariance, PTL

=============================================================================
