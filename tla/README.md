# A TLA+ verification of the MCP Host Engine

The MCP Host Engine (`mcphe`) is an MCP server in Go that runs tools written as
JavaScript plugins. This directory holds TLA+ modules that model its parts, TLC
configurations that model-check them on small instances, and TLAPS proofs of
theorems about them for every instance.

* [1. The system](#1-the-system)
* [2. The modules](#2-the-modules)
* [3. The runs](#3-the-runs)
* [4. The proofs](#4-the-proofs)
* [5. What disagrees with the documentation](#5-what-disagrees-with-the-documentation)
* [6. What is not modelled, and the plan](#6-what-is-not-modelled-and-the-plan)

To check a run: `tlc -config FileOneCommand.cfg MCRevocationFile.tla` (the tables in
section 3 name the module of each configuration). To check proofs: `tlapm
RevocationFile_proofs.tla`.

## 1. The system

| component | source | state it keeps | operations | correct when |
|---|---|---|---|---|
| revocation list, token commands | `auth/revoker.go`, `main.go` | the revocation file and its `.tmp` | `token create`, `token revoke`, each a process: read, edit, write `.tmp`, rename | a revocation stays until it is taken back; the list is never partial; an issued token is usable |
| revocation in the server | `auth/revoker.go`, `auth/token.go` | the snapshot in memory | `NewRevoker`, `Watch`/`reload` every 5 s, `Validate` per request | what is revoked is not accepted, and changes of the file arrive |
| module loader | `plugin/plugin.go` | the map of visited files, the VM's global `module` | `require` | cycles and only cycles are refused; a file returns its own exports; loading ends |
| tool calls | `plugin/plugin.go`, `host/host.go` | one VM per plugin, its globals `host` and `require` | `CallTool` in one goroutine per request | a call acts with its own caller's identity and session |
| pid file | `main.go`, `config/config.go` | one file | stored before listening, removed on failure or at the end of stdio | the file names the server that runs |
| memory plugin | `plugin-devel/plugins/memory/plugin.ts` | one JSON file per session, its `.tmp` | `set`, `get`, `delete`, `list` | the file is whole; what is reported as stored is; nothing else is lost |
| plugin registry | `plugin/plugin.go` | list and map of plugins | `LoadPlugins`, `ListTools`, `GetAllTools` | listed and callable tools agree |
| configuration, resolvers | `config/` | the configuration, the registered resolvers | `LoadConfig` and the per-plugin getters | every reference is resolved before it is used |
| HTTP gateway | `transport/`, `main.go` | none | token middleware, CORS, routing | every route passes the chain it should |
| MCP bridge | `server/bridge.go` | none | registration, result conversion | every outcome of a call becomes an answer |
| host HTTP client | `host/httpclient/`, `host/host.go` | none | `http.get` ... `http.request`, each one request with a timeout | a request that is given up is not sent again; every call returns |
| other host functions | `host/fs/`, `host/exec/`, `host/env/`, `host/url/` | none | files, streams, commands, environment, URLs | checks before effects; failures leave no half effect |
| service plugins | `gitlab`, `gitea`, `home_assistant`, `zabbix`, `wikijs`, `wikipedia_search` in `plugin-devel/plugins/` | none; the services have it | up to 14 commands each, of one to a few requests | a change is made at most once and only on demand; what is reported is what took place |
| workspace daemon client | `mcwsd` in `plugin-devel/plugins/` | none; the daemon has workspaces, files, jobs | 19 commands, four of them deprecated names, parameters with two names | nothing but what is named changes; a job's output arrives once and in order |
| query plugins | `proxmox`, `gmail`, `microsoft_outlook`, `kibana`, `opensearch`, `elastic7`, `elastic8`, `google_search`, `get_ip`, `websearch`, and `plugins/http_request_*.js` | none | one request | every call is answered |
| small plugins | `date_time`, `env`, `ping`, `read_file`, `write_file`, `run_command` | none | one host function | - |

How they interact. A request passes the token middleware, which asks the
server's revocation snapshot; the bridge turns it into a `CallTool`; the tool's script
runs in the plugin's VM, loads files with `require` and acts through `host`, which
sends HTTP requests to remote services and waits for them with a timeout. The
token commands and the server only share the revocation file. Servers started
from one configuration share the pid file and the plugins' data directories.

What is hard here. No file is ever locked: processes interleave between reading,
writing and renaming, and can be killed anywhere. The server's snapshot lags
behind the file, and a validation looks at the clock and at the snapshot at two
different moments. Requests run concurrently and share VMs that are not meant to
be shared. Cycle detection relies on a map that has to be right on every path of
returns and exceptions. A request to a service may be refused, be lost, be answered by
something that does not parse, or be carried out after the plugin has given it up; the
plugins tell these apart by a handful of tests, each its own way. `PROJECT.json` lists each of these hazards at its line.

## 2. The modules

Every action stands for one step of the code between two points where another process,
goroutine, clock tick or kill can come in. Data is cut down to what the properties tell apart.

### RevocationEntries, RevocationRegister, RevocationFile

`RevocationEntries` is the list as a value, a function from keys to expiries
(`Absent`, `Permanent` or unix seconds), with one operator per operation of the
`Revoker`: `Pruned` (in `readEntries`), `IsRevoked`, `Revoked`, `Unrevoked`. `Denies`
says independently what an entry means at a given time.

`RevocationRegister` is the abstract specification: commands change the list in one step.

`RevocationFile` is the detailed one: any number of `token create` and `token revoke`
processes, each going through

    StartCreate / StartRevoke -> ReadEntries -> OpenTmp -> WriteTmp -> RenameTmp -> Finish

or `RenameFails`, and `Abort` (a kill or a system call that fails) at any point. Files
follow POSIX: an open `.tmp` that another process renames is the list from then on
(`fd[c] = "list"`), and one that is replaced after that is nobody's (`"unlinked"`).
Writing over a file that has contents leaves an arbitrary subset of its lines
behind the new ones (`Overwritten`).

`solo` and `barred` are history variables: whether a command has been alone since it started,
and the keys whose permanent revocation has taken effect and has not been taken back.

Abstractions: the read is one step, since the open file is never written once it is the
list, except by a process whose `.tmp` was renamed away (whose write is atomic here).
Lines that a mixed write garbles are dropped. User names contain no blanks, `#` or `:`.
`Ttl` and `BlanketTtl` are the durations given when a labelled token and when a
whole user is revoked; they are apart because only the latter can put an end to a
permanent entry (section 5). A duration may be negative, as `parseTokenDuration` lets it
be; the expiry is then in the past, and no expiry is before 1970 (`Expiring`).

### RevocationWatch

The server beside the register: `StartServer` (`NewRevoker` before listening),
`StopServer`, `ReloadRead` and `ReloadSwap` (`reload`, before and under the lock),
`CheckExpiry` and `CheckRevoked` (`Validate`). `FileChanges` is a step of the
register. A reload that fails keeps the snapshot, so it is a stuttering step. History:
`standing` holds the identities that the file denied when the server last read it and has
denied ever since. `upheld` holds those whose revocation is in effect: a revocation comes
into effect when the server has read it and swapped it in, or enforces it
anyway, and is so as long as the file has it (`Uphold`). One case is left out, because the code does not
keep it: while a reload that has read the file is in flight, what the old snapshot enforces counts
only if it is in `standing`. An identity that is unrevoked before that read and
revoked anew after it is denied by the old snapshot and missing from the list about to be swapped in; it
is upheld from the next reload on. `covered` marks a request whose validation began
under an upheld revocation that outlives its token.

### RequireLoader

A file is a list of steps, `require(m)` or `module.exports = ...`; the dependency
graph is chosen in `Init` among all small ones. `stack` is the chain of running
files, `visited` the map that `CallTool` shares among all requires of a call,
`exported` the global `module`. `SharedMap = FALSE` is the `require` a plugin has while it is
loaded: each call makes a new map. Nothing in a file can be skipped, but every exception can be
caught (`Catch`) or not (`Unwind`). `MaxDepth` stands for the finite Go stack.
Files that use `exports.x = ...` are not modelled.

### PluginCalls

`CallTool` for any number of calls and tools: `Find`, `SetHost`, `SetRequire`, then uses of
the two globals until the call answers. `acted` records in whose name each use
acted. The model interleaves at Go calls and host functions. What a `goja` VM
does when two goroutines are in it at once is undefined; the model counts only
the outcomes in which it works, which is enough for the counterexample and does not
matter to the theorem, which is about calls that do not share a VM.

### MemoryPlugin

The memory tool over one session's file, in any number of processes, since every
stdio client starts its own. `Faults` names the host functions that may fail, the
clean-up of a failed save among them. An operation that is refused (no key, no value, no such action) and a
`list` only answer. The file is a
JSON text, empty, or a mixture of two writes; the last two load as an empty map.
Sessions do not share files, so one stands for all. `list` and `get` change nothing
and differ only in their answers.

### HostHttp, the plugin modules, RemoteCall and ServicePlugin

A plugin's `call` is synchronous and the plugins keep nothing between calls, so what a
plugin does next is a function of its parameters, its settings and the replies it has
had. That is how each is written: `Call(c, rs)` in `GitLabPlugin`, `GiteaPlugin`,
`HomeAssistantPlugin`, `ZabbixPlugin`, `WikiJsPlugin`, `WikipediaPlugin`, `McwsdPlugin` and
`QueryPlugins` (the tools of one request, and those that throw after their reply has come) is `Send(request)` or `Answer(outcome)`, with one
operator per handler of the source. `HostHttp` is what they share: the functions the host has, a
request (which function, whether it reads, changes or deletes, whether it carries the
token), a reply (a status and the set of what can be said of its body:
`"text"`, `"json"`, `"ok"`, `"sha"`, ...). Parameters and settings are the sets of
those that are there; only those whose absence a plugin notices are named. `"readable"`
among the settings means that reading the configuration does not throw.

`ServicePlugin` puts a call of any of these tools between a caller and a service:

    Begin -> SendRequest -> Serve -> Deliver -> SendRequest ... -> AnswerCaller

with `RequestThrows` for all that fails before a request leaves (no such function, a domain,
method or header that is not allowed, no connection), `TimeOut` at any time while the plugin waits,
and `ServeLate` for a change that the service carries out when nobody waits for it any
more. The services are external: `Results` and `Refusals` are the replies they may give to a
request they did, or did not, carry out, among them a 2xx with an empty or a plain text
body, and (zabbix, wikijs) an error with status 200. `Article` is what Wikipedia says of
a page. `done` counts the changes, `confirmed` is the reply to a change when it arrived.

`RemoteCall` is the abstract specification of one call: it changes something
at most once and only when it is asked to; when the caller is told of a success the change
has taken place, and nothing happens after it; any other answer leaves it open.

### Workspace

`ServicePlugin` is about one call; `Workspace` composes `McwsdPlugin` with a caller that
makes call after call and with the daemon's state: workspaces, files, jobs that go on by
themselves. A call goes `Begin`, `SendRequest` or `Refuse`, `Serve`, `Deliver` or
`TimeOut`, `End`. Here the parameters have values (`Details` says what of them
reaches the daemon), since the questions are which file, which job and
from which cursor on; `MeantPath` and `MeantJob` say what the schema promises of
parameters with two names. `late` holds the requests that were given up, which may be
carried out during any later call. The daemon and the caller are external: the daemon is
the least that the tool's descriptions say of it, the caller uses
any command with any parameters, but passes a cursor back only with the job it came with.
`targets` (what the caller wanted ended) and `overtaken` (a late request has changed a file during
the call) are history variables.

## 3. The runs

A *violation* run checks one property, which the code does not have (section 5).

### Revocation file (`MCRevocationFile`)

| run | instance | shows |
|---|---|---|
| FileOneCommand | 1 command at a time, 1 user, 2 labels, ttl -1, 0 or 1 for labels, clock to 3 | `ImplementsRegister`: with kills and errors anywhere, the file is the atomic register; `ListIsComplete`; `MintedTokenIsUsable`; `BarredStaysDenied`: permanent means permanent |
| FileTwoCommands | 2 commands, 1 label, ttl 0 for users, clock to 2 | `SoloCommandIsAtomic`: overlapping or killed commands do not harm a later one that is alone; `TypeOK` |
| FileLostRevoke | 2 commands of which no two write at the same time (`CONSTRAINT OneWrites`), no ttl | violation of `BarredStaysDenied`: a command puts back the list it had read before the other renamed its own |

Two commands suffice for any race over one file and one `.tmp`; three keys of one
user are all the ways in which keys can be related (blanket, label, other label);
different users do not share a key. A clock of 3 with ttl 1 has a
moment before, in and after an entry's last second, and ttl -1 makes entries that have run out
when they are given. The constraint of FileLostRevoke keeps the collisions on `.tmp` out of the
counterexample, which is about the read and the write of the list: commands that open, write and rename one
after the other still lose a revocation. The symmetry of FileTwoCommands
permutes the two processes, which no property tells apart.

### Revocation in the server (`MCRevocationWatch`)

| run | instance | shows |
|---|---|---|
| WatchServer | 1 request, 1 label, ttl 0, clock to 2, `FairSpec` | `UpheldIsEnforced`, `UpheldNeverAccepted`, `WTypeOK`; `RevocationConverges`, `ReissueConverges` |
| WatchExpiryRace | the same | violation of `CoveredNeverAccepted` |

Requests do not influence each other, so one is enough. With ttl 0 an entry given at
1 is in its last second at 1 and has run out at 2. `FairSpec` assumes weak
fairness of `ReloadRead` and `ReloadSwap`: the ticker fires every 5 seconds, a
read does not fail for ever, and the lock is held only for a map lookup or an
assignment. Nothing is assumed about commands or requests, or about servers being started.

### Module loader (`MCRequireLoader`)

| run | instance | shows |
|---|---|---|
| RequireInCall | 4 files, one of them missing; two require up to two files, one up to one; `FairSpec` | `MapIsExact`, `NoFileInsideItself`, `LoadingEnds`, `TypeOK` |

The graphs of RequireInCall have every cycle through up to three files, diamonds, the
same file required twice in a row, and requires of a missing file before and after good ones,
each with every choice of exceptions caught; the theorems cover every graph.
`FairSpec` is weak fairness of `Next`: a script that runs is not suspended.
`MaxDepth` is larger than the number of files, so the bound itself is never met
in RequireInCall.

### Tool calls (`MCPluginCalls`) and memory (`MCMemoryPlugin`)

| run | instance | shows |
|---|---|---|
| CallsOneAtATime | 3 calls, 2 tools, at most 2 uses each, no overlap within a tool | `ActsInOwnName`, `TypeOK` |
| CallsTogether | 2 calls of 1 tool | violation of `ActsInOwnName` |
| MemoryOneSaves | 2 processes that share the directory, 2 keys, 2 values; every host function may fail; no two saves at once (`CONSTRAINT OneSaves`) | `FileIsWhole`, `OnlyNamedKeyChanges`, `TypeOK` |

### Service tools (`MCServicePlugin`) and the workspace daemon (`MCWorkspace`)

| run | instance | shows |
|---|---|---|
| Services | all 21 tools, every command and an unknown one, every set of given parameters and settings, every page; no timeout configured; `FairSpec` | `ImplementsRemoteCall`; `ConfirmedIsReported`: a change whose confirmation arrived is not reported as failed; `ChangesCarryToken`, of the tools that have a token; `SummaryIsHeeded`: no page that its summary shows to be a disambiguation page for an article; `CallsAreAnswered`; `TypeOK` |
| GitLabLegacy | the gitlab tool | violation of `FunctionsExist` |
| Workspace | 1 workspace, 2 paths, 2 texts, 2 jobs of 2 pieces of output, 1 late request; one session with files and three with jobs | `OutputOnce`, `OnlyNamedEnds`, `SuccessIsSo`, `NoWriteDropped`, `StartedAsAsked`, `WTypeOK` |

Services has no bound of its own: a call makes few requests. The one number that is smaller than
in the code is that of Wikipedia's key sections, two for at most four, which is enough for a
first, a later, a failing and a last one. What the tools are told apart by in the properties is
stated there: gitea does not know whether it succeeded, home_assistant and mcwsd promise
their caller more than the others, and http_request_put and http_request_delete throw
after their reply (`ThrowsAfterwards`, section 5). `ChangesCarryToken` says nothing of the
http_request tools, which have no token of their own, nor of gitlab, whose changes never get as far as a
request. `FairSpec` is weak fairness of the script's own steps
(`SendRequest`, `RequestThrows`, `AnswerCaller`) and of `Deliver` or `TimeOut`: a script that can go on does, and
`http.Client` either returns the reply or, its timer being set, an error. Nothing is assumed of the
services, so `CallsAreAnswered` rests on the timeout, which with nothing
configured must come out positive (`TimeoutSeconds`).

Two jobs are needed to name the wrong one, two paths for the wrong file, two pieces of output
for one to be repeated or lost; one late request can meet any later call. Files and jobs
have nothing but the workspace in common, so a session has one of them; the three with jobs
each have two of getting output, cancelling and destroying the workspace, while the theorem
`OutputIsOnce` is about any set of commands. Requests with the two names of a parameter,
equal or different, and with neither, are all among the inputs.

The assumptions "no overlap within a tool" of CallsOneAtATime, "one command" of
FileOneCommand and "no two saves at once" of MemoryOneSaves are not enforced by the
code: they are the conditions under which it is right. The last one is a state constraint:
TLC follows only the behaviours in which it always holds, which are those that
`FileStaysWhole` (section 4) is about. A save is what begins when `set` or `delete` has
loaded the map and ends at its rename or its failure; all else, kills included, interleaves
freely, so two processes are enough for one to disturb another. Three calls over two tools
are the least that have both a later call of the same tool and an interleaved one of another.

Deadlock is checked wherever the system may not stop; a tool call that has
answered and a script that has ended are at rest.

Every property of a passing run has a mutant in `PROJECT.json`: a wrong version
of one definition, next to it in its module and marked *Wrong*, that makes TLC find
the property violated.

## 4. The proofs

The proofs are in modules named `*_proofs`. They hold for every value of the constants that
satisfies the modules' `ASSUME`s; extra hypotheses are named in the theorems. A hypothesis
`Cli = {c0}` or `Proc = {p0}` is the instance with one process; `[]OneSaves` and
`[]OneWrites` select behaviours among any number of processes, those in which no two
are between their load and their rename (memory) or between opening `.tmp` and the
rename (list). Nothing in the code sees to either.

| theorem | says | inductive invariant |
|---|---|---|
| `TypeCorrect` | `Spec => []TypeOK` (RevocationFile) | itself |
| `SoloIsAtomic` | `Spec => SoloCommandIsAtomic`, any number of commands | `SoloInv`: while a command is alone, `.tmp` is what it has written and its memory is its edit of the list |
| `OneCommandAtATimeIsRegister` | with `Cli = {c0}`, `Spec => ImplementsRegister` | the same facts of `c0` in every stage, with the expiry and the pruning moment in the past |
| `PermanentRevocationsLast` | with `Cli = {c0}` and `BlanketTtl = {}`, `Spec => []BarredStaysDenied` | `BarredInv`: blanket lines are permanent, and a barred key or its user has a permanent line, which pruning never drops |
| `WTypeCorrect` | `WSpec => []WTypeOK` | itself |
| `RevocationStaysInEffect` | `WSpec => []UpheldIsEnforced` | `UpheldInv`: what is upheld or standing the file denies; a list that is read and not yet swapped in has all that is standing, and what is upheld is standing while there is one |
| `RevokedIsNotAccepted` | `WSpec => UpheldNeverAccepted` | `UpheldInv` |
| `LoaderTypeCorrect` | `Spec => []TypeOK` (RequireLoader) | itself |
| `CyclesAreDetected` | with `SharedMap`, `Spec => []NoFileInsideItself` | the map is the set of running files, which are pairwise different, with the plugin at the bottom |
| `OnlyCyclesAreRefused` | `Spec => []MapIsExact` | the same |
| `CallsTypeCorrect` | `Spec => []TypeOK` (PluginCalls) | itself |
| `SoloTokenWorks` | `Spec => []SoloMinted`, any number of commands | `SoloMinted`: a command that is alone and has renamed its edit finds its identity cleared until it has printed the token; with `SoloInv` |
| `MintedTokenWorks` | with `Cli = {c0}`, `Spec => []MintedTokenIsUsable` | `SoloMinted` |
| `ListIsReplacedWhole` | `Spec /\ []OneWrites => ListIsComplete`, any number of commands | `AllOwnTmp`: a command that writes has `.tmp` for itself, empty when it was opened and its own edit once it was written |
| `MemoryTypeCorrect` | `Spec => []TypeOK` (MemoryPlugin) | itself |
| `FileStaysWhole` | `Spec /\ []OneSaves => []FileIsWhole`, any number of processes | `AllWhole`: besides, `.tmp` is what the saving process has to write, and that is its call's change of the file's map, or of the empty one when its read failed |
| `OnlyOwnKeyIsChanged` | `Spec /\ []OneSaves => OnlyNamedKeyChanges` | `AllWhole` |
| `OneProcessKeepsFile` | with `Proc = {p0}`, both | - |
| `WorkspaceTypeCorrect` | `Spec => []WTypeOK` (Workspace) | with `InStep`, below |
| `OutputIsOnce` | `Spec => []OutputOnce`, any number of workspaces, jobs, pieces and late requests | `InStep`: a cursor the caller uses is the one it has, a request asks for what the call means, a reply about output begins where the cursor is and says nothing the job has not said, and what the caller has is what its cursor says |
| `OnlyNamedEnd` | `Spec => []OnlyNamedEnds` | `AsMeant`, below |
| `SuccessIsMeant` | `Spec => []SuccessIsSo` | `AsMeant` |
| `NoWriteIsDropped` | `Spec => []NoWriteDropped` | `AsMeant` |
| `StartsAsAsked` | `Spec => []StartedAsAsked` | `AsMeant` |
| `ServiceTypeCorrect` | `Spec => []TypeOK` (ServicePlugin) | `AsPromised`, below |
| `TokenIsCarried` | `Spec => []ChangesCarryToken` | `AsPromised` |
| `ConfirmedReported` | `Spec => []ConfirmedIsReported` | `AsPromised` |
| `SummaryHeeded` | `Spec => []SummaryIsHeeded` | `AsPromised` |
| `CallsKeepThePromise` | `Spec => ImplementsRemoteCall`, any tools, any timeouts | `AsPromised` |
| `SeparateToolsSeparateCalls` | with `OneAtATime`, `Spec => []ActsInOwnName` | a tool has at most one call inside, and from its `SetHost` (`SetRequire`) on the global is its own |

The lemmas of `RevocationEntries_proofs` are the arithmetic of the list: what pruning
keeps (`PrunedKeepsDenied`: a key that is denied now survives a pruning now) and what a removal clears.
The key to `RevocationStaysInEffect` is that `readEntries` prunes with `<` while an entry denies
with `>=`: the mutant `PrunedEarly` uses `<=`, and fails.

`OutputOnce` is not inductive, because a reply on its way may be longer than what the caller
has, and because the job may have grown since. `InStep` names the chain from the caller's cursor over the
request and the reply back to the caller. Late requests cannot break it: none of them is a
read, and a job's output only grows (`Grows`). It needs the types, and the types need it (what
`End` appends has to be a sequence of pieces), so the two are proved together.

`AsMeant` is about what a call asks for and what has become of it. The four properties look at one
moment each (the answer, a cancelled job, a request on its way); between them the
daemon replies, a reply is lost, and requests that were given up are carried out. `AsMeant` adds what
connects these: the request is the one the parameters lead to in either spelling
(`RequestIsTheCalls`), what it is to end is among `targets`, for late requests too
(`CallIsWanted`, `LateIsWanted`), and from the daemon's reply on, what was cancelled, destroyed or
written stays so (`CancelHolds`, `DestroyHolds`, and `WriteHolds` unless `overtaken`). `WTypeOK`
and `InStep`, proved first, say which job a reply is about.

The proof about `ServicePlugin` has two halves. The first is about the tools as functions:
`Contract` says of a tool's next move, for every command, every set of parameters and
settings and every sequence of replies whatever they are, that a change is asked for
only by a command that is for one, with the token if there is one, after which nothing more is asked
for; and, gitea excepted, that success is answered only to a reply that is no refusal, and that a
confirmation is not answered with a failure, unless the tool throws after every reply (`ThrowsAfterwards`). Each tool has a lemma (`GitLabContract`, ...,
`QueryContract`; the Wikipedia tool, which changes nothing, has `WikipediaMoves`), and
`MovesKeepTheContract` puts them together. The second half is about the state machine and knows the tools
only by that contract: `AsPromised` says that the request or the answer is the next
move after the replies so far (`Following`), that changes made and changes on their way are
together at most one (`AtMostOne`), where the reply to a change is (`Confirmed`), that without a change
there is only a refusal (`Refused`), and which pages the Wikipedia tool still looks at
(`Looking`). A timeout is the hard step: it turns a request into one that may yet be served, and
`AtMostOne` counts it, so that what is served late cannot be a second change.
The refinement then goes step by step (`StepsKeepThePromise`): `Begin` is the abstract `Ask`, a
`Serve` or a `ServeLate` that changes something is `Do`, `AnswerCaller` is one of the two
`Tell`s, and all else stutters.

Only model-checked: the liveness properties (`CallsAreAnswered`, `RevocationConverges`,
`ReissueConverges`, `LoadingEnds`; temporal reasoning under fairness is out of the prover's
reach), and the four violations of section 5. Every safety property of a passing run is proved,
those with a hypothesis on overlapping processes under the same hypothesis as in the run or a weaker one.

## 5. What disagrees with the documentation

Each of these is a violation run whose counterexample follows the code step by step;
`PROJECT.json` quotes the comment it contradicts.

* *FileLostRevoke*: a `create` and a `revoke` read the same list; the revoke renames its own into place, then the
  create renames the one it has edited from the older list, and the revocation is gone.
* *WatchExpiryRace*: a validation that straddles the end of a token's last second, and a reload, accepts a
  token that was revoked to its end.
* *CallsTogether*: overlapping calls of one tool use each other's host object.
* *GitLabLegacy*: every change the gitlab tool makes calls `host.httpPut` or `host.httpPost`, which
  the types and the documentation list and `MakeHostObject` does not have; it fails before a request is sent.

Other limits that the models show, and that the properties name as conditions:

* without a configured file `token create` always fails at the rename, after the token was minted
  (`RenameFails`);
* top-level requires that form a cycle recurse until the stack overflows
  (`NoFileInsideItself` with `SharedMap = FALSE`), and `module` is one global variable: a file that requires
  after it has assigned `module.exports` returns the other file's exports
  (`ReturnsOwnExports`, with the scripts `ExportFirst` of `MCRequireLoader`);
* overlapping commands share `.tmp`, and can rename an empty list into place
  (`ListIsComplete` with two commands that write at once);
* an identity that is unrevoked, and revoked anew after a reload has read the file, was denied all along by the
  old snapshot and is accepted from the swap until the next reload, up to five seconds later (`Uphold`);
* `revoke bob 1h` replaces the permanent entry of `bob:laptop`, whose token is
  accepted again an hour later (`BarredStaysDenied` with a `BlanketTtl`);
* processes that share the memory plugin's directory share its `.tmp` (`FileIsWhole`
  without `OneSaves`), its failures to save are reported as success, and a
  failed read followed by a `set` loses every other key (`AfterFailedRead`);
* the gitea tool takes a reply for a success when its text has "ok" somewhere and never looks at the
  status, so neither of its answers says anything about what happened; its GETs
  carry no credentials, and before a write the sha is read without them (`GiteaPlugin`);
* http_request_put and http_request_delete write to `console`, which the plugin's VM does not have, once the reply is
  there: a PUT or a DELETE that was made and confirmed is answered as a tool error, on every call
  (`ThrowsAfterwards`, which `ConfirmedIsReported` exempts);
* the proxmox and outlook tools parse the reply object as if it were a text, and always fail
  (`QueryPlugins`);
* a Wikipedia lookup whose summary request came back with an error status checks only the title: an
  introduction that says "may refer to" is returned as an article (`SummaryIsHeeded` is only about the summary);
  and an outage of the search looks like a search without results (`WikipediaPlugin`);
* a write or an edit of a file that was given up may be carried out during a later one, and overwrite it
  (`overtaken` in `Workspace`); mcwsd's header names `MCCWS_*` variables and the code reads `MCWSD_*`.

## 6. What is not modelled, and the plan

In this order:

1. *Host functions*: the file system with its allow-lists and streams that fail
   half-way, over which the memory plugin can be restated; which of the HTTP client's checks
   makes a request throw; commands, environment, URL objects beside their parameters.
2. *Configuration*: `LoadConfig` as a sequence of resolutions (which values are used
   before they are resolved), list values, plugin fallbacks, timeouts.
3. *Server life cycle*: loading plugins, duplicate and disabled names, registering them with
   the bridge, the pid file of HTTP and stdio servers, listening and ending; listed against
   callable tools as the abstract specification.
4. *HTTP gateway*: the middleware chain, CORS, session routing, the openapi route,
   composed with RevocationWatch's validation.
5. *The text of the revocation list*: what lines written for odd names read back as.
6. *Proofs* about the modules above.

Out of scope: signatures and token encoding (every validated token is correctly signed),
the MCP SDK, `goja` itself and what a data race does inside it, TLS, logging,
the built copies in `plugins/`, the plugins that only wrap one host function, and the build and test
scripts. Of the service tools, not modelled are the texts of requests and answers, the parameters a
plugin passes on unseen, and what the services do besides changing something or not.
