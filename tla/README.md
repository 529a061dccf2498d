# bootcfg: TLA+ models, model checking and proofs

`bootcfg` answers machines that boot over the network. An operator stores
machine *groups*, *profiles* and *templates* (Ignition, Cloud-Config, generic)
as files of one data directory, by hand or over gRPC. A machine asks an HTTP
endpoint with labels (its MAC address, UUID and so on); the server picks the
group whose selector fits best, reads the group's profile and the template the
profile names, renders it and answers. Every config endpoint has twins that
answer with a detached OpenPGP signature of the config.

The server has no lock, no cache and no background task. All its state is the
data directory, which every request reads and writes on its own goroutine. What
is hard about it is what happens when requests, failures and crashes meet in
that directory, and what its client can conclude when connections break and
requests are sent twice.

## Inventory

| Part | Source (`src/bootcfg/`) | State | Operations | Hard behaviour | What makes it correct |
|---|---|---|---|---|---|
| groups, profiles | `storage/storagepb` | none | validate, normalise, JSON, match, order | spellings of MAC addresses; ties in the order | the best matching group is chosen, whatever the sort does |
| file store | `storage/filestore.go`, `fs.go` | files and directories | put, get, list | interleaved system calls, truncate then write, crash between, I/O errors, one bad file among many | an acknowledged document is what is read; reads are never older than the request, and made up only of what was there |
| core server | `server` | none | puts, gets, select group and profile | a chain of store operations between which files change | one consistent chain from labels to answer |
| HTTP endpoints | `http` | none | grub, ipxe, boot.ipxe, pixiecore, ignition, cloud, generic, metadata | errors swallowed by middleware, templates that do not render | right status for what is stored; every request answered |
| gRPC services | `rpc` | none | the same, by RPC | error codes | NotFound for a missing match, Unknown otherwise |
| signatures | `sign` | a buffer per request | `.sig`, `.asc` twins | handler status against signer status, Range requests, write order | the signature verifies what the plain endpoint serves |
| startup | `cmd/bootcfg/main.go`, `sign/signer.go` | how far main has got | flags, checks, key ring, listeners | files checked early and used late, RPCs served before HTTP is bound, an RPC server that stops unnoticed | serves what its flags ask for, or exits |
| TLS | `tlsutil` | none | server and client configuration | an empty CA bundle is no error | only clients with a certificate of the bundle are served |
| client, CLI | `client`, `cli`, `cmd/bootcmd`, stubs of `rpc/rpcpb` | a connection | create, describe, list | endpoints dialled in turn, lost connections, requests sent again, zero timeouts | the exit code claims no more than is known; commands end |

HTTP and gRPC call the core server, the core server calls the store, the store
makes system calls. Signature endpoints wrap the HTTP handlers. The hazards
these parts are exposed to are listed, with their lines, in `PROJECT.json`.

## Modules

    Storagepb <-- Selection <---- Server <-- MCServer
      ^   ^         ^  ^            |
      |   |         |  +-- SelectionProofs
      |   PathTree <- TreeSelection <-- MCSelection
      |                             |
      +-------- FileStore <---------+
                  ^
                  +--- StoreRefinement <-- MCFileStore
                             :
                           Store <.. Sessions <-- MCSessions
                                        |
    Signing <-- MCSigning            Startup

    SelectionProofs <-- FileStoreProofs <-- ReadProofs <-- StoreRefinementProofs
           ^--- PathTreeProofs                  ^--------- ServerProofs
    SessionsProofs, SigningProofs

Arrows are EXTENDS, dotted lines INSTANCE. A module `XProofs` extends X and holds
its theorems (`ReadProofs`: those of FileStore's reads).

* **Storagepb** has the pure functions of `group.go` and `profile.go`. An id is
  its place in alphabetical order, so that a list visits files in the order the
  code does; `NoId` (0) is the empty string. A selector is a function from keys
  to values. Metadata bytes are abstract, `Unmarshal` and `Marshal` relate them
  to the set of variables they define, and JSON's `omitempty` is kept
  (`MarshalRichGroup`). `ParseMAC` maps spellings of an address to a normal form.
  `json.Unmarshal` ignores fields it does not know and leaves those empty that it
  does not find, so documents of another kind parse: a profile read as a group
  has its id and matches every machine, an Ignition config (`OtherJSON`) not even
  an id (`UnmarshalRichGroup`, `UnmarshalProfile`).
* **FileStore** has the directories, the files and, per goroutine, the store
  operation it is in (`io[p]`: program counter, directory, names left to read,
  document to write, offset, bytes read, results, error). Each action is one
  system call. `OpenTrunc`, `WriteBlocks` and `CloseFile` are the three parts of
  `ioutil.WriteFile`; `ReadBlocks` and `ReadEOF` are `ioutil.ReadFile`; `ReadDir`
  starts a list. `WriteError`, `ReadError`, `ReadDirError` fail a call, `Crash`
  ends the process. `last`, `spoiled` and `seen` are history variables that only
  properties read: the document last acknowledged per path, the paths whose
  puts overlapped, failed or crashed, and what each path held since a request
  began. Ids are joined to a directory unlooked at: `Place` takes the plain ones
  (`Name`) to a file there and the others to the file that `Alias` says, so that
  a group of id `../profiles/a` is a file of `profiles/`.
* **Store** is the abstract specification of `storage.go`'s interface: one
  register per path. `holds` is what a path may be found to hold, `doubtful` the
  paths whose puts overlapped, failed or died, `may` what a path may have held
  since a caller asked. A put takes effect in two steps (`BeginPut`, `EndPut`),
  a read answers for some moment since it was asked, and a list leaves out
  nothing that was there all along.
* **StoreRefinement** maps FileStore to Store: `holds` is what a reader would
  find now (`View`), the phase forgets the system call, the call keeps only what
  its caller can see. `ImplementsStore` is Store's `Spec` under that mapping.
* **PathTree** is about names, with whole operations: `Clean`, `Join` and
  `sanitize` on names as sequences of components, `writeFile` with the
  directories it makes, lists with the extensions they cut. `kept` is a history
  variable: what was acknowledged, by the place its name means (`Walk`, a
  reference definition that does not use `Clean`). `TreeSpec` is its
  specification on its own.
* **Selection** is `server.SelectGroup`: `sort.Sort` is not stable, so
  `SelectGroup` is the set of groups the code may return over all the orders the
  sort may leave. `Best` and `Selects` say what it should return, by the number
  of selectors alone; the tie-break is a claim of its own
  (`SelectsAlphabetically`).
* **TreeSelection** composes PathTree and Selection: at every point of the
  filling of the data directory a machine with any of the labels may ask, and
  SelectGroup works on what GroupList returns.
* **Server** extends FileStore and Selection with the requests (`req[p]`: kind, stage, labels, the
  group, profile and bytes the answer was made of, the code). A boot request is
  a chain: list the groups, select, get the profile, get the template, render.
  Each handler is an action named after it. The body is left out but for its
  sources; `renderTemplate` decides the status from the variables a template
  needs and whether the endpoint can convert the text. A put request without a
  group or profile makes the handler follow a nil pointer, which ends the
  process: that is `Crash`, which `rpc` has (`Faults`) and `boot` leaves out.
* **Signing** is stand-alone: a handler is the script of calls it makes on its
  ResponseWriter, and the plain and the signature exchange each run a script of
  one outcome, interleaved. The client sends the same Range header, or none, with
  both: `http.ServeContent` then answers 206 or refuses with 416.
* **Startup** is `main`: `stage` is the next part of it to run, every fatal
  error leads back to "down", `Crash` and `Start` end and begin a process. The
  TLS files are a variable that somebody may replace, since main looks at them
  twice. `accepting` tells whether the RPC server still accepts connections:
  `ServeReturns` is the end of `grpcServer.Serve`, whose error main drops.
  `unlockKeyRingEntity`, `NewCertPool` and `ServerConfig` are the
  functions of `sign` and `tlsutil` on the few things a file can be.
* **Sessions** composes Startup, Store and a client that runs commands one after
  the other. `pc` follows a command through `cli` and `client`; `Send` and
  `Accept` are the generated stubs and handlers; `Reconnect` is the loop of the
  vendored `grpc.Invoke`, whose calls are not fail-fast (`Break` loses the
  connection, the handler at the server runs on). The file the commands are
  about is a register of Store, so Sessions relies on what FileStore was shown
  to implement, and on nothing else; of the steps Store allows it takes those
  that keep every doubt, because a larger `holds` allows every answer that a
  smaller one does. When main's process ends, however it ends, `Dies` takes
  handlers and connections with it. `sent`, `stored`, `begun` and `acked` are
  history variables.

Operators introduced by "Mutant:" are wrong versions of a definition, one
plausible bug each, used to show that a property can fail; nothing else refers
to them.

### A file's bytes

A file is a sequence of blocks and a document takes `Size(d)` of them. Every
write starts at offset zero, so the i-th block of a file is always the i-th
block of some document and is represented by that document; writing behind the
end of a file truncated meanwhile leaves a `Hole`. Bytes that are all of one
document decode to it (`Whole`). Bytes of several documents, which a reader meets
when it reads on while a put replaces the file and which overlapping puts leave
behind, may or may not parse, and if they do, to a document that nobody wrote:
`Mixed` says which documents may come of blocks of which, `Decodings` takes them
all, and `Parse` may also fail. Nothing decodes that has a hole in it, and a part
of a single document is no JSON object (`MixedAssumption`). In the runs a
document of two blocks is cut behind its id (and a group's profile): the head of
one group with the tail of another has the other's selector and metadata, with
the tail of a profile it has none. Template bytes are returned undecoded.

## Runs

| Run | Configuration | Question | Distinct states |
|---|---|---|---|
| `file_store` | 2 requests list, get and put; a group of 2 blocks, a profile of 2 blocks with id `../groups/a` and an empty template all contend for one file of `groups/`, beside a group at rest, with a group in `profiles/`; I/O errors, crashes | what a put shows and leaves, what reads may return, does a list survive its bad members and its races, is it a Store | 522 668 |
| `selection` | up to 3 files put by clients or laid out by hand, ids `a`, `a/b`, `b/../a`, `a.b`, `../groups/a`, five template names, the empty one among them, a file called just `json`, an Ignition config and a profile in `groups/`, 5 label sets | where names lead, what is listed, selection against its definition | 58 410 |
| `boot` | 1 machine on any endpoint, 1 RPC client that moves its group and profile and rewrites a template | one chain per answer, right status, every request answered | 364 403 |
| `rpc` | 2 RPC clients that select, get, list and put groups and a template, a tree with and one without a default group, I/O errors, crashes | gRPC codes and chains | 1 127 770 |
| `signing` | 1 client fetching a config and its signature, 9 kinds of handler outcome, signing may fail | status and signature agree | 2 367 |
| `sessions` | 2 commands of 17 kinds, 2 lives of a server with one of 19 configurations, TLS files replaced once, 1 lost connection, a lost RPC port, 2 handlers | what an exit code means, who is served, that commands and startups end | 623 484 |

Passing properties:

* `PutAlone`: a put that no other put overlaps shows exactly the prefix it has
  written. `Healthy`: between such puts a file is exactly the document last
  acknowledged (nothing of a longer predecessor survives).
* `NoStaleRead`: groups and profiles returned were in the file when the caller
  asked or were being put meanwhile; nothing is older. A mixture is made of
  blocks of such documents only, and returned only of a file that was torn:
  being written during the read, or left so by overlapping, failed or cut puts.
* `StoreTypeOK`: whatever its id, every file put has a name in one of the five
  directories. (A profile without an id that got past `AssertValid` would be a
  file called `.json`.) A file of `profiles/` may well be a group.
* `TypeOK` of Server: no handler goes on to the profile without a group, nor to
  the template without a profile, although the middlewares swallow the errors.
* `UndisturbedRead`: a file nobody writes during a read is read for what it is,
  whatever happens to its neighbours.
* `ImplementsStore`: every step of the file store is a step of Store or none at
  all, with faults, crashes and overlapping puts.
* `TreeOK`, `KeptReadable`: whatever the names, files stay below the data
  directory, and what was acknowledged stays where its name leads until a put of
  the same place. `ListComplete`: lists return what `json.Unmarshal` makes of
  the files under plain names with the extension, whatever kind they are meant to
  be, and of no others. A stray profile or Ignition config in `groups/` is
  therefore a group that matches every machine; a group whose id holds a slash is
  never listed; and of a file called just `json`, which has no extension to cut,
  `json.json` is read. `PlainPutsWork`: a put fails only because an acknowledged
  file is in the way, as after a template put with an empty name.
* `SelectionCorrect`, `SelectionDeterministic`: the answer is a match with the
  most selectors, and does not depend on the sort unless two groups have the very same selector
  (the case `Documentation/bootcfg.md:118` warns of).
* `StableGroupPreferred`: a matching group file that is not touched during a
  request is never passed over for a weaker group.
* `AnswersFromOneChain`: a success is made of one chain of documents, each
  stored during the request under the name the one before gives (or made of
  blocks of such documents where the file was torn meanwhile).
* `UndisturbedAnswer`: with nothing changing, the status is the one a sequential
  reading of the tree gives.
* `EveryRequestAnswered`: every request ends.
* `StatusAgrees`, `SignatureVerifies`, `SignErrorIsApparent`: a signature reply
  has the status of the plain one and verifies its body; a failed signature has
  no body but the error's text, and the status of an error unless the handler had
  sent a 206 (`signed_range` below).
* `SuccessMeansStored`: a create that exits with 0 has replaced the file, through
  retries and restarts, unless a later put has begun or puts overlapped. The
  exceptions are real: a first attempt that outlives its connection may begin
  after a newer document was acknowledged and replace it.
* `ExitCodeHonest`: 0 of a create means the store acknowledged it, 2 and 128 mean
  that nothing was sent. (1 means nothing either way, and describe and list exit
  with 0 in any case.)
* `AdmittedOnly`, `ServingAsConfigured`: no client is served whose certificate
  the bundle loaded by this process does not vouch for; a process that has come
  up has started the RPC server and has the signature endpoints that its flags
  ask for, and no key still encrypted becomes a signer. That the RPC port stays
  open is not part of it: the server stops at the first connection it fails to
  accept, its error is dropped, and nobody can tell but the clients, which wait.
  A ring with public keys only gives a signer that fails on every request.
* `StartupEnds`, `CommandsEnd`: main comes up or exits; a command ends, except
  that with no dial timeout it may wait for the endpoint it dials or has lost.
  bootcmd never sets the timeout, so it never tries a second endpoint.

Runs that TLC refutes, each a disagreement between the code and what its
documents, comments or tests say (`findings` in `PROJECT.json` quotes them):

* `metadata_signature`: `/metadata` writes its lines in Go map order, so its
  signature often does not verify what is served.
* `unreadable_put`: `GroupPut` acknowledges a group whose `mac` selector does not
  parse; it can then never be read.
* `overlapping_puts`: two acknowledged puts of one id leave a file that is
  neither.
* `torn_group`: a machine that boots during an update of its group may be given
  a group with fewer selectors. (For the same reason a template read during an
  update may be served empty or cut short with 200: `AnswersFromOneChain` speaks
  of the blocks of a template and not of the whole.)
* `tie_break`: `sort.Reverse` turns the tie-break around with the count, so of
  two matching groups with as many selectors the one that is alphabetically last
  is chosen.
* `signed_range`: the 206 of a Range request passes the signing writer before
  the signature exists; when signing fails the reply is 206 with an error text.

### Bounds

Two blocks per document are the fewest for which a reader can see a proper
prefix, a writer can leave a longer tail, and two writers can mix. Two requests
let two writers overlap, or a reader and a writer, and what overlapping writers
leave be read later; a reader under two writers at once is left to the proofs,
which are for any number. One file under contention and one at rest give a list a
bad and a good member. That a directory may be missing is met in `selection`.
Two spellings of one MAC address
and one value that is none cover what normalisation does. Three groups are the
fewest where a sort can go wrong other than by swapping two. `Faults` turns on
I/O errors and crashes; `boot` leaves them to `rpc` and to `file_store` to stay
within minutes. Requests repeat without bound there: no counter needs a cap.

`sessions` needs caps: `MaxCommands` 2 (one command's attempt can meet the
next), `MaxStarts` 2 (a crash and a recovery), `MaxBreaks` 1 and two handlers
(an attempt that is left behind and the one that replaces it), `MaxChanges` 1
(files checked and gone). Each configuration and each command differs from a
working one in one respect. The file does not exist at first. In `selection`
`MaxFiles` 3 gives one file in the way of another and a third to list. `signing`
writes configs of up to `MaxPieces` 2 pieces, so that a piece may be lost or two
swapped.

`file_store` and `rpc` use symmetry in the requests, which their properties, all
of them safety properties, do not tell apart.

### Fairness

`EveryRequestAnswered`: weak fairness of each goroutine's own steps. Go runs
every runnable goroutine, and no step waits for another request; system calls
on local files return. `StartupEnds`, `CommandsEnd`: the same of main, of the
command and of each handler; gRPC dials again for as long as a dial blocks, so
a server that stays reachable is reached, and a timeout that is set expires.
Arrivals, starts, failures, crashes and lost connections are not fair.

## Proofs

TLC checks small instances; the theorems below hold for any sets of goroutines,
ids, keys, groups, documents and commands and any document sizes, and of every
behaviour, faults and crashes included. Each module has one inductive invariant,
one lemma per action that the action keeps it, and theorems that read the runs'
properties off it. The invariants were checked by TLC before they were proved.

**FileStoreProofs**: `StoreTypeCorrect` (`[]StoreTypeOK`: whatever ids are
put, files have names of their own in the five directories, and what is read of
them is a group, a profile or bytes),
`PutAloneCorrect`, `HealthyCorrect`. `Healthy` is not inductive: when a put
closes its file nothing in it says what the file holds. `StoreInv` adds
`PutAlone` (the file is the prefix written so far by the only writer) and
`PutWellFormed` (the offset is within the document; a put that has not opened
its file has offset 0). `CloseFile` at offset `Size(doc)` then turns the prefix
into the whole image. Steps that write no file all go through `QuietStep`; the
facts about bytes are `OverlayPrefix` and `OverlayType`.

**ReadProofs**: `NoStaleReadCorrect`, `UndisturbedReadCorrect`. What a reader
returns says nothing about how it got there, so `ReadInv` follows it. About the
tree: whatever a path shows now, everyone who watches it has seen
(`SeenCurrent`), a path that does not exist shows nothing, a settled one has an
acknowledged document. About each reader: it watches all it asks for, every
block in its buffer was seen (`BufferOK`), the buffer is the file's own prefix as
long as nobody has touched the file, every result is what a document that was seen parses to,
or, of a path that was torn, what blocks that were seen make together
(`Returns`), and a path with one steady document has been read for it
(`Faithful`). `ParseFromBuffer` is the heart of it: bytes decode to a document
that was seen, or else they are not one document and only blocks that were seen
are in them, and where no put was seen at work the buffer is a whole document.

**StoreRefinementProofs**: `StoreImplemented`, `StoreSpec => ImplementsStore`.
Initial states map to initial states; every system call maps to a step of Store
(`OpenTrunc` to `BeginPut`, `WriteBlocks` to `WritePut`, `CloseFile` to `EndPut`,
a final read to `AnswerRead`, failed calls to `FailPut` and `Disturb`) or to none.
Lists need `ListsInv` on top of `ReadInv`: the results so far can be matched, in
increasing order of names, with paths already read, which is what Store's
`MayList` asks of the whole.

**SelectionProofs**: `SelectGroupCorrect` (every answer is a match with the
most selectors, or the error exactly when nothing matches), `SelectionTotal` (there is an answer) and
`SelectionUnique` (there is only one unless two groups tie), for every list and
every labels. The first match has the least index among the matches, and the
order of the arrangement does the rest. That every list can be sorted is an
induction on its length, written as a shortest list that cannot be
(`SortExists`, `SortOneMore`): `LeastOf` takes a set and no operator, so the
provers can use it.

**PathTreeProofs**: `TreeInvariance`, `TreeOKCorrect`, `KeptReadableCorrect`,
`PlainPutsWorkCorrect`, `ListCompleteCorrect` of `TreeSpec`;
`SelectionCorrectAlways`, `SelectionDeterministicAlways` of `SelectionSpec`, for
all names, documents and labels. The heart is what becomes of a name: the code
cleans it twice, first relative (`filepath.Join`), then rooted (`sanitize`), and
`SanitizeClean` and `SanitizeAccepts` show that the outcome is where a walk from
the data directory along the name ends, or an error exactly when a zero byte is
left. `Climbs` is the invariant of the first cleaning (the result goes up some
times and then along the path walked so far), and a walk that goes up from the
data directory stays there (`WalkClimbs`). `Clean`, `Walk` and `List` are
recursive functions of the position in a sequence; `RunExists` and `RunUnique`
show that such a recursion has exactly one solution, by an induction over a set
of numbers (`UpTo`, again from `LeastOf`), which is how facts about data that
the library's induction theorems cannot give are reached. `TreeInv` adds to the
properties what they need: paths are plain, the tree is finite, and every
directory but the root is there for a file (`DirsUsed`), without which a
directory left over from a failed put might block a plain name. For lists,
cutting an entry's extension and adding ".json" leads to a file with the
extension (`FileOfPlain`), every such file is led to by its own entry
(`ListedIs`), and the loop keeps what is no error (`LoopEnds`). What is listed
are then groups (`GroupsType`), to which the selection theorems apply.

**ServerProofs**: `ServerTypeCorrect`, `StableGroupPreferredCorrect`,
`AnswersFromOneChainCorrect`, `UndisturbedAnswerCorrect`, of `Spec` (fairness is
not used). The properties speak of answers; `ServerInv` is `StoreInv`, `ReadInv`
and, per request, what it has found so far at each stage (`AtGroups`,
`AtProfile`, `AtTemplate`: a group that matched, was seen and is outranked by no
steady one, its profile, the store operation it waits for) and that it watches
the whole tree. That what was found stays found is `RequestGrows`: sets of
things seen only grow, and a path steady now was steady before. The selection
theorem gives the group, `ReadInv` the profile and the template, and
`RenderWhole` relates the status to what `Expected` computes from the tree.
`GroupVariables` shows that a stored group's metadata never fails to decode, so
the error branch of `collectVariables` is never taken for groups that were read.

**SessionsProofs**: `SessionsTypeCorrect`, `AdmittedOnlyCorrect`,
`ExitCodeHonestCorrect`, `SuccessMeansStoredCorrect`,
`ServingAsConfiguredCorrect`. `SessionsInv` ties the stages of main, of the
command and of each handler together: a process that is not serving has no
handlers, a connected command has shown a valid certificate to this very
process, the attempts of a create are puts of its document, and a file in no
doubt that nobody writes holds the document of the put that began last.

**SigningProofs**: `SigningTypeCorrect`, `StatusAgreesCorrect`,
`SignatureVerifiesCorrect`, `SignErrorIsApparentCorrect`. `SigningInv` says, for
the text the outcome comes to, that an exchange which has made its first j calls
has written (or kept for signing) exactly the text of these calls and sent the
status they imply.

Assumptions, each named in the module that declares the constants and evaluated
by TLC in the runs: ids are positive naturals and there is one; keys are finitely
many (a Go map is finite); normalising twice is normalising once; marshalling
then unmarshalling is the identity; sizes are naturals and JSON documents not
empty; it takes blocks of two documents to make a third; an id that is no plain
name leads to a file of one of the directories (those that do not are PathTree's); markers and errors are no documents, results or sets of variables; inputs
have their types; an empty template refers to nothing, converts for Fuze and not
for cloud-init; a signature is not the error text; env files have finitely many
lines; names have at least one component and a component at least one part (the
string "" is one empty part); the store's own directory names and "json" contain
no zero byte; the administrator, who goes through the operating system, names
files by plain paths.

Only model-checked: liveness (`EveryRequestAnswered`, `StartupEnds`,
`CommandsEnd`), which is out of the prover's reach, as is ENABLED.

## Not modelled

What an unsynced file holds after a power loss; files edited by hand while a
request reads them; failing writes to a client (the error of `Flush` at
`writer.go:68` is such a one: the connection that could show it is gone); body
formats;
the Name field; `Copy`; the asset server and the home page (no state); help
texts, tables, the version and the unimplemented instance command; cipher
suites, encodings and descriptors of generated code; the in-memory stores of
`storage/testfakes`, which only tests use. Interleavings of system calls and
the spelling of names are modelled apart (FileStore and PathTree): to FileStore a
name decides which file an operation is about and nothing else. That a name makes
a directory of what another one takes for a file, and names that lead outside the
store's own directories, are left to PathTree.

## Plan

1. Done: Storagepb, Selection, FileStore, Server, Signing, their runs, the type
   and put invariants and the selection theorem.
2. Done: Store and its refinement, PathTree, Startup, Sessions.
3. Done: the reads, the refinement of Store, the selection, Server, Sessions and
   Signing proved.
4. Done: PathTree proved, and selection on the lists it gives.
5. Done: mixtures of documents that parse, files of another kind, ids that lead
   to another directory, Range requests, the RPC server's silent end.
6. Left: FileStore's `Alias` as the function that PathTree's `sanitize` computes
   (the two are modelled apart, see above).
