------------------------------- MODULE Startup -------------------------------
(***************************************************************************)
(* The life of a bootcfg process: main of cmd/bootcfg, with what it calls  *)
(* in bootcfg/sign, bootcfg/tlsutil, bootcfg/rpc and bootcfg/http.         *)
(*                                                                         *)
(* main works through its flags in order and dies at the first one that    *)
(* cannot be honoured.  The TLS files are looked at twice, once to see     *)
(* that they exist and later to load them, and may change in between.  The *)
(* RPC server is served from a goroutine before the HTTP port is bound, so *)
(* a process that fails to bind it dies with RPCs in progress.  Nobody     *)
(* looks at what that goroutine returns: when it fails to accept a         *)
(* connection it closes the port, and the process goes on without it.      *)
(***************************************************************************)
EXTENDS Naturals

CONSTANTS
  Configs,      \* command lines and environments, members of Config
  TLSFiles,     \* what the server's TLS files may be replaced by, of TLSFile
  MaxStarts,    \* bound: starts of the process
  MaxChanges    \* bound: times somebody replaces the TLS files

\* What the flags say, and what main finds when it follows them.
Config ==
  [flags : {"ok", "badEnv", "version", "help"},
   address : {"ok", "invalid", "inUse"},
   data : {"dir", "other"},
   assets : {"unset", "dir", "other"},
   rpc : {"unset", "ok", "inUse"},
   level : {"ok", "invalid"},
   ring : {"unset", "missing", "garbage", "empty", "public", "private", "encrypted"},
   passphrase : {"unset", "right", "wrong"}]

\* The key pair, and the bundle of certificate authorities: "noPEM" is a file
\* without a PEM block, "invalid" one with a block that is no certificate.
TLSFile ==
  [pair : {"valid", "missing", "invalid"},
   ca : {"valid", "missing", "invalid", "noPEM"}]

ASSUME StartupAssumption ==
  /\ Configs \subseteq Config /\ Configs # {}
  /\ TLSFiles \subseteq TLSFile
  /\ MaxStarts \in Nat /\ MaxChanges \in Nat

VARIABLES
  stage,        \* how far main has got, "down" when no process runs
  conf,         \* the flags it is started with
  tlsFiles,     \* the TLS files as they are now
  signer,       \* the key that signs, "none" without signature endpoints
  rpcTLS,       \* the tls.Config of the RPC server, NoTLS while none serves
  accepting,    \* does the RPC server accept connections
  starts, changes

startupVars == <<stage, conf, tlsFiles, signer, rpcTLS, accepting, starts, changes>>

NoTLS == [auth |-> "none", pool |-> "none"]

Fail == "error"

-----------------------------------------------------------------------------
(***************************************************************************)
(* bootcfg/sign/signer.go                                                  *)
(***************************************************************************)

\* Mutant: an encrypted key without a passphrase is taken as it is.
unlockIfGiven(ring, passphrase) ==
  CASE ring \in {"garbage", "empty"} -> Fail
    [] ring \in {"public", "private"} -> ring
    [] ring = "encrypted" ->
         IF passphrase = "unset" THEN "locked"
         ELSE IF passphrase = "right" THEN "private" ELSE Fail

\* The key of the first entity of the ring, or Fail.  Only a ring without a
\* private key gives an entity that cannot sign.
unlockKeyRingEntity(ring, passphrase) ==
  CASE ring \in {"garbage", "empty"} -> Fail
    [] ring \in {"public", "private"} -> ring
    [] ring = "encrypted" -> IF passphrase = "right" THEN "private" ELSE Fail

LoadGPGEntity(c) ==
  IF c.ring = "missing" THEN Fail ELSE unlockKeyRingEntity(c.ring, c.passphrase)

-----------------------------------------------------------------------------
(***************************************************************************)
(* bootcfg/tlsutil                                                         *)
(***************************************************************************)

\* A bundle without any PEM block is an empty pool and no error.
NewCertPool(ca) == IF ca \in {"missing", "invalid"} THEN Fail ELSE ca

\* tls.LoadX509KeyPair.
LoadX509KeyPair(pair) == IF pair \in {"missing", "invalid"} THEN Fail ELSE pair

\* Mutant: client certificates are not verified.
ServerConfigAnyClient(f) ==
  IF LoadX509KeyPair(f.pair) = Fail \/ NewCertPool(f.ca) = Fail THEN NoTLS
  ELSE [auth |-> "Request", pool |-> NewCertPool(f.ca)]

\* NoTLS stands for the error.
ServerConfig(f) ==
  IF LoadX509KeyPair(f.pair) = Fail \/ NewCertPool(f.ca) = Fail THEN NoTLS
  ELSE [auth |-> "RequireAndVerify", pool |-> NewCertPool(f.ca)]

-----------------------------------------------------------------------------
(***************************************************************************)
(* main                                                                    *)
(***************************************************************************)

StartupInit ==
  /\ stage = "down"
  /\ conf \in Configs
  /\ tlsFiles = [pair |-> "valid", ca |-> "valid"]
  /\ signer = "none"
  /\ rpcTLS = NoTLS
  /\ accepting = FALSE
  /\ starts = 0
  /\ changes = 0

\* The process is gone, and with it all it served.
Exit ==
  /\ stage' = "down"
  /\ signer' = "none"
  /\ rpcTLS' = NoTLS
  /\ accepting' = FALSE

\* A process is started, the next one with the flags of the one before.
Start ==
  /\ stage = "down"
  /\ starts < MaxStarts
  /\ stage' = "flags"
  /\ starts' = starts + 1
  /\ UNCHANGED <<conf, tlsFiles, signer, rpcTLS, accepting, changes>>

\* A stage of main: passed when ok, with the signer and the RPC server it
\* leaves behind (a new one accepts connections), and fatal otherwise.
Stage(from, ok, to, key, cfg) ==
  /\ stage = from
  /\ \/ /\ ok /\ stage' = to /\ signer' = key /\ rpcTLS' = cfg
        /\ accepting' = (accepting \/ cfg # rpcTLS)
     \/ ~ok /\ Exit
  /\ UNCHANGED <<conf, tlsFiles, starts, changes>>

\* Flags from the environment, then -version and -help, which only print.
ParseFlags == Stage("flags", conf.flags = "ok", "arguments", signer, rpcTLS)

\* url.Parse and os.Stat: the TLS files only have to exist.
ArgumentsValid ==
  /\ conf.address # "invalid"
  /\ conf.data = "dir"
  /\ conf.assets # "other"
  /\ conf.rpc # "unset" => tlsFiles.pair # "missing" /\ tlsFiles.ca # "missing"

ValidateArguments ==
  Stage("arguments", ArgumentsValid, "setup", signer, rpcTLS)

\* The log level, the signers, the store and the core server.
SetUp ==
  LET key == IF conf.ring = "unset" THEN "none" ELSE LoadGPGEntity(conf)
  IN  Stage("setup", conf.level = "ok" /\ key # Fail,
            IF conf.rpc = "unset" THEN "http" ELSE "rpc", key, rpcTLS)

\* Mutant: a port in use is tried again and again.
ListenRPCAgain ==
  /\ stage = "rpc"
  /\ stage' = IF conf.rpc = "ok" THEN "tls" ELSE "rpc"
  /\ UNCHANGED <<conf, tlsFiles, signer, rpcTLS, accepting, starts, changes>>

ListenRPC == Stage("rpc", conf.rpc = "ok", "tls", signer, rpcTLS)

\* The certificates are loaded and the server goroutine started.
ServeRPC ==
  LET cfg == ServerConfig(tlsFiles)
  IN  Stage("tls", cfg # NoTLS, "http", signer, cfg)

\* grpcServer.Serve returns: Accept has failed (out of file descriptors, say) and
\* the port is closed.  Connections and handlers that it has go on.
ServeReturns ==
  /\ accepting
  /\ accepting' = FALSE
  /\ UNCHANGED <<stage, conf, tlsFiles, signer, rpcTLS, starts, changes>>

\* ListenAndServe only returns with an error.
ServeHTTP == Stage("http", conf.address = "ok", "up", signer, rpcTLS)

\* The process is killed, or its HTTP server stops accepting.
Crash ==
  /\ stage # "down"
  /\ Exit
  /\ UNCHANGED <<conf, tlsFiles, starts, changes>>

\* Somebody replaces the server's TLS files: before main looks whether they
\* exist, or between that and loading them.
ChangeFiles ==
  /\ stage \in {"down", "setup"}
  /\ changes < MaxChanges
  /\ tlsFiles' \in TLSFiles \ {tlsFiles}
  /\ changes' = changes + 1
  /\ UNCHANGED <<stage, conf, signer, rpcTLS, accepting, starts>>

\* The steps of main, which a running process takes by itself.
Main ==
  \/ ParseFlags \/ ValidateArguments \/ SetUp \/ ListenRPC \/ ServeRPC \/ ServeHTTP

-----------------------------------------------------------------------------
\* A process that has come up has started what its flags ask for: an RPC server
\* exactly if -rpc-address is set, signature endpoints exactly if -key-ring-path
\* is.  Whatever happens to the files while main runs, connections are accepted
\* only by an RPC server that verifies client certificates, and the signer is a
\* private key that was unlocked, or the public key of a ring that has no other,
\* with which every signature fails (main.go, signer.go, info.go).  It may stop
\* accepting connections, with nothing to show for it (main.go:153).
ServingAsConfigured ==
  /\ accepting => rpcTLS # NoTLS
  /\ rpcTLS # NoTLS => conf.rpc = "ok" /\ rpcTLS.auth = "RequireAndVerify"
  /\ signer \in {"none", "private"} \/ (signer = "public" /\ conf.ring = "public")
  /\ stage = "up" =>
       /\ rpcTLS # NoTLS <=> conf.rpc # "unset"
       /\ signer # "none" <=> conf.ring # "unset"

\* main never hangs half way, with RPCs served and no HTTP: it comes up or
\* exits, whatever the flags and the files are (main.go:64-170).
StartupEnds == (stage # "down") ~> (stage \in {"up", "down"})

=============================================================================
