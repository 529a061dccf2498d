----------------------------- MODULE MCSessions ------------------------------
(***************************************************************************)
(* A small instance of Sessions for TLC.  A server that works and every    *)
(* way in which one flag or file can be wrong; commands that work and      *)
(* every way in which one part of them can be.                             *)
(***************************************************************************)
EXTENDS Sessions

\* The records that differ from r in field k only, with a value of V.
Vary(r, k, V) == {[r EXCEPT ![k] = v] : v \in V}

Works ==
  [flags |-> "ok", address |-> "ok", data |-> "dir", assets |-> "dir", rpc |-> "ok",
   level |-> "ok", ring |-> "unset", passphrase |-> "unset"]

\* The keys matter to HTTP only.
HTTPOnly == [Works EXCEPT !.rpc = "unset"]

MCConfigs ==
  {Works}
    \cup Vary(Works, "flags", {"badEnv", "version", "help"})
    \cup Vary(Works, "address", {"invalid", "inUse"})
    \cup Vary(Works, "data", {"other"})
    \cup Vary(Works, "assets", {"other"})
    \cup Vary(Works, "rpc", {"inUse"})
    \cup Vary(Works, "level", {"invalid"})
    \cup Vary(HTTPOnly, "assets", {"unset"})
    \cup Vary(HTTPOnly, "ring", {"missing", "garbage", "empty", "public", "private", "encrypted"})
    \cup Vary([HTTPOnly EXCEPT !.ring = "encrypted"], "passphrase", {"right", "wrong"})

Good == [pair |-> "valid", ca |-> "valid"]

MCTLSFiles ==
  {Good} \cup Vary(Good, "pair", {"missing", "invalid"})
         \cup Vary(Good, "ca", {"missing", "invalid", "noPEM"})

Create ==
  [kind |-> "create", misused |-> FALSE, tls |-> Good, endpoints |-> <<"server">>,
   timeout |-> FALSE, file |-> "ok", doc |-> 1]

MCDoc == {1, 2}

MCCommands ==
  Vary(Create, "doc", MCDoc)
    \cup Vary(Create, "timeout", {TRUE})
    \cup Vary(Create, "misused", {TRUE})
    \cup Vary(Create, "file", {"unreadable", "noId"})
    \cup Vary(Create, "kind", {"describe", "list"})
    \cup Vary(Create, "endpoints", {<<>>, <<"dead", "server">>})
    \cup Vary([Create EXCEPT !.timeout = TRUE], "endpoints", {<<"dead", "server">>})
    \cup Vary(Create, "tls",
              Vary(Good, "pair", {"missing", "invalid", "stranger"})
                \cup Vary(Good, "ca", {"missing", "invalid", "noPEM"}))

=============================================================================
