# AntigravityProxyLauncher in TLA+

A verification development of AntigravityProxyLauncher: TLA+ modules translated
from the source, TLC configurations that check them on small instances, and
TLAPS proofs of what matters for every instance. `PROJECT.json` lists every
component, run, mutant and hazard, and the source lines of every definition.
Paths below are relative to `src/`; `S/` stands for `launcher/Sources/`, `A/`
for `AntigravityTun/AntigravityTun/` and `G/` for `tools/mitm_proxy/`.

## 1. The system

The launcher (Swift, macOS) patches a target application so that it loads
`libAntigravityTun.dylib` (C++). The library hooks four socket calls and leads
the application's connections through a SOCKS5 proxy, or, for the hosts of AI
services, to a local proxy written in Go, which reads the request, routes it by
model and by keywords, and translates it for another provider. Around these are
the configuration files, a Google login that nothing starts at this commit, and a
license worker.

```
 launcher --patches--> application process(es)
                          | getaddrinfo / connect / getpeername / close
                          v
                    socket hooks --- FakeIP pool <== shared ring ==> other processes
                          |    \
              SOCKS5 client     HTTP CONNECT
                          |        \
                    SOCKS5 proxy   Go proxy: routing -> handler -> provider
                                              |             |          |
                                        model cache   passthrough   reader goroutine
                                                        retry           | channel
                                                             translator goroutine
                                                                        | pipe
                                                                      client
```

### 1.1 Components

| Component | Source | State it keeps | Operations | What makes it correct | Module |
|---|---|---|---|---|---|
| FakeIP pool | `A/FakeIP.hpp` | two maps and a cursor per process, a ring of entries in shm or a file shared by all processes, an fcntl lock | Alloc, GetDomain, SharedPut, SharedGet | an address leads to the name it was given for; no name is made up; a dead holder of the lock blocks nobody | `FakeIP`, `NameDirectory` |
| SOCKS5 client | `A/Socks5.hpp` | none between calls | Handshake | success only behind an accepted method and reply, stream aligned, ends | `Socks5`, `ConnectCall` |
| Socket hooks | `A/AntigravityTun.cpp` | map of descriptors to the address asked for, one-time license and configuration | connect, getaddrinfo, getpeername, close | peer address kept, no stale entry, flags restored, right proxy | `SocketHooks`, `ConnectCall` |
| Configuration, license file, log | `A/Config.hpp`, `A/Logger.hpp` | one object that two hooks load | load, check, append | settings in range whatever the file holds and whoever loads it | `LibraryConfig`, `ConnectCall`; license in `SocketHooks` |
| Go server | `G/main.go` | listener, transport, hosts | CONNECT, reverse proxy, list models, shut down | every request ends somewhere, or the process does | `GoServer`; interception in `Routing` |
| Routing | `G/config`, `G/handler`, `G/provider/provider.go` | configuration and instances loaded at start | find handler, match rule, match keywords, choose provider | earlier turns have no say behind a prompt; own format first; translator and sender agree | `Routing` |
| Stream pipeline | `G/provider/openai.go`, `G/handler/*_handler.go` | a channel, a pipe and two goroutines per request | scan, send, take, write, copy, cancel | chunks in order and once; completion not invented; nobody left behind | `StreamPipeline`, `EventStream` |
| Stream translators | `G/translator` | block and call indices of a stream | translate a chunk, translate the end | client can put text and calls together again | `StreamTranslate` |
| Passthrough retry | `G/handler/passthrough_retry.go` | loop variable, body | send, retry, back off, buffer | no broken answer passed on as whole | `PassthroughRetry` |
| Model list cache | `G/handler/gemini_handler.go` | body, header, time | check, fetch, store, serve stale | one response, bounded age | `ModelsCache` |
| Provider requests, model discovery, schema sanitising | `G/provider` | model list of an instance | send, fetch models | - | reader and registry only |
| Request and whole-response translation | `G/translator`, `G/handler` | none | rewrite JSON | - | not modelled |
| Patching a command | `S/Services/PatchService.swift` and the services that read its result | command, backup, copy, wrapper, metadata on disk | patch, roll back, clean, evaluate | original never lost; failure leaves a command that runs; ready means it starts, but for one state | `PatchCLI` |
| Patching a bundle | `S/Services/PatchService.swift`, `SigningService`, `PatchVerificationService` | copied bundle, metadata | copy, inject, sign, verify, roll back | a failure leaves nothing half made | `Launcher` |
| Launcher workflow | `S/State/LauncherAppState.swift` | selected application (a global), running flag, steps, log | select, patch, launch, stop, clean, refresh | one workflow works on one application | `Launcher`; cleanup in `PatchCLI` |
| Launch and stop | `S/Services/LaunchService.swift` | pid, certificate bundle | launch, escalate a stop, make the bundle | certificate bundle current; stop ends | not modelled |
| Google login | `GoogleOAuthService`, `OAuthCallbackServer`, `AuthViewModel` | listener, continuation, expected state, flow state | login, cancel, callback, timeout, refresh, log out | - | unreachable (section 7) |
| Accounts and tokens | `AccountStoreService`, `TokenStoreService`, `KeychainService` | accounts.json, token files, keychain | load, save, delete | - | unreachable (section 7) |
| Configuration services, releases | `ProxyConfigService`, `ModelRoutingService`, `AppSettingsService`, `ModelListService`, `ProxyConnectivityService`, `ReleaseUpdateService` | files, user defaults | load, save, ask | - | not modelled |
| License worker | `cloudflare/license-api.js` | key-value store | activate, validate, limit | one machine per key | not modelled |
| Migration, views, menu bar, command line, utilities, scripts, tools | see `PROJECT.json` | - | - | - | not modelled: interface, external tools, plain records |
| `nlohmann/json.hpp`, `AntigravityTun/build` | | | | | third-party and generated |

### 1.2 How they interact

* `getaddrinfo` calls `Alloc`, `connect` calls `GetDomain`; the FakeIP pool is
  the only state the processes of an application share. `SocketHooks` therefore
  contains the directory `NameDirectory`, the abstract specification that
  `FakeIP` is shown to implement, and not the ring.
* `connect` loads the configuration in its first call, as `getaddrinfo` does, each
  under a static of its own; it dials the proxy, calls `Socks5Client::Handshake` or
  sends a CONNECT, and then records the descriptor; `getpeername` and `close` read
  and erase the record. `ConnectCall` composes the call with the configuration and
  the handshake, `SocketHooks` composes the hooks of several threads.
* A handler of the Go proxy starts a goroutine that reads from the channel the
  provider's goroutine fills, and hands the read end of a pipe to the server,
  which copies it to the client. A context cancels both. Overlapping requests for
  the model list share a cache. All of them live in one process that a signal ends:
  `GoServer`.
* The launcher's workflow calls patch and verification services on a global queue;
  they ask a global, `FileSystemPaths.activeApp`, which application they are about,
  and the main thread changes it. Otherwise the services meet only on disk. Health and
  detection read what patch, rollback and cleanup left, also after the launcher died in
  between.

### 1.3 What is hard here

1. Processes that share a ring and may die while writing it; addresses that are
   recycled while applications hold them (`FakeIP.hpp:239`, `:349`).
2. Descriptor numbers the kernel gives away again while another thread is still
   between two steps of a hook (`AntigravityTun.cpp:280`, `:433`).
3. Fragmented, late or foreign answers of a proxy (`Socks5.hpp:63`); two threads
   that load one configuration at once, from a file that changes
   (`AntigravityTun.cpp:374`, `Config.hpp:225`).
4. Two goroutines, a bounded channel, a pipe, a client that leaves and a
   context that expires (`openai.go:447`).
5. Retries over a half-read answer (`passthrough_retry.go:55`).
6. A cache filled by overlapping fetches (`gemini_handler.go:282`).
7. Interleaved fragments of several tool calls (`anthropic_to_openai.go:231`,
   `gemini_to_openai.go:248`).
8. A patch that is a sequence of file operations, any of which may fail or be
   the last one before a crash, while the user installs new versions
   (`PatchService.swift:258`, `:284`, `SigningService.swift:178`).
9. A global that names the application a running workflow works on, set by the
   menu bar and by every refresh (`LauncherAppState.swift:55`).
10. A signal that ends the Go proxy while requests are under way (`main.go:252`).

`PROJECT.json` "hazards" names them at their lines with the properties that cover
each, or the reason why none does. Smaller ones, left to a reader:

* fcntl interrupted by a signal returns without the lock, and a process without
  shared memory falls back to a file that the others do not read
  (`FakeIP.hpp:85`, `:103`; both are steps of `FakeIP`);
* connect blocks a caller that asked not to block, for two seconds and then the
  handshake (`AntigravityTun.cpp:179`); a refused handshake leaves the descriptor
  connected to the proxy (`:290`; a step of `SocketHooks`);
* a name of more than 255 bytes has its length cut (`Socks5.hpp:179`);
* a body over the limit is cut without an error (`passthrough_retry.go:32`), a
  stream whose Content-Type has a parameter is buffered (`:84`), the usage in a
  chunk without choices is dropped (`openai.go:500`);
* a Gemini passthrough that came without CONNECT has a context without a proxy
  and its connection is dropped (`main.go:379`; the outcome `aborted` of
  `Routing`); models are listed from the file and routed by the file at start
  (`main.go:433`);
* a certificate bundle of two certificates is kept after the local certificate
  changed (`LaunchService.swift:175`);
* concurrent requests to the license worker count as one (`license-api.js:41`).

## 2. The modules

| Module | Lines | What it is |
|---|---|---|
| `NameDirectory` | 49 | abstract: what a pool of made-up addresses promises |
| `FakeIP` | 359 | the pool, ring, lock, crashes; implements `NameDirectory` |
| `FakeIPProofs` | 1155 | theorems about `FakeIP` |
| `Socks5` | 212 | the handshake byte by byte against an arbitrary server |
| `LibraryConfig` | 132 | `Config::Load` of two hooks on one object |
| `ConnectCall` | 184 | one `my_connect` from its first line to its return; composes the two above |
| `ConnectCallProofs` | 1605 | theorems about `ConnectCall`, with its configuration and its handshake |
| `SocketHooks` | 300 | the four hooks, threads, descriptors; uses `NameDirectory` |
| `SocketHooksProofs` | 750 | theorems about `SocketHooks` |
| `EventStream` | 42 | abstract: what a client of a translated stream is promised |
| `StreamPipeline` | 215 | reader, channel, handler, pipe, copy; implements `EventStream` |
| `PassthroughRetry` | 156 | retries of a raw passthrough |
| `ModelsCache` | 136 | the cache of `fetchAvailableModels` |
| `GoServer` | 100 | the process of the Go proxy; composes the three above |
| `GoServerProofs` | 842 | theorems about `GoServer` and its three kinds of exchange |
| `StreamTranslate` | 232 | the three stream translators and their state |
| `StreamTranslateProofs` | 1378 | theorems about `StreamTranslate` |
| `Routing` | 242 | from a request to a handler, rule, provider entry and instance |
| `RoutingProofs` | 359 | theorems about `Routing`, and lemmas about the first and last index of a list |
| `PatchCLI` | 328 | patch, rollback, cleanup and health of a command line program |
| `PatchCLIProofs` | 475 | theorems about `PatchCLI` |
| `Launcher` | 164 | the patch of a bundle against the selection and the refresh |
| `MCFakeIP`, `MCConnectCall`, `MCSocketHooks`, `MCRouting` | | symmetry sets and input sets for TLC |

The modules without an `MC` module and without `Proofs` in their name are their own TLC
instances: their constants are plain numbers and sets that the `.cfg` gives. A module
that is composed has its own initial states and steps (`SocksInit`, `SocksNext`,
`socksVars`) and no specification. Definitions whose comment says *mutant* are wrong on
purpose and used by no specification; they show that a property can fail (section 4).

### 2.1 FakeIP

`ipToDomain`, `domainToIp` and `cursor` are the members of the same names;
`m_mtx` is held for a whole operation, so a process has one operation in flight
and the variable `pc` says where it is. An operation splits where the file lock
is taken and given back: `AllocFresh` does everything up to `SharedPut`,
`PutBegin` takes the lock and writes address and time of a slot, `PutEnd` its
name; `GetBegin` looks into the private map, `GetEnd` scans the ring and imports
what it finds. `Crash` may come between the two halves of a put: the slot then
holds a new address with the old name, or part of one (`Garbled`), and the lock is
free, as fcntl locks die with their holder. `Attach` chooses shm or the file
per process. Addresses are offsets in the CIDR block. `given`, `born`, `allocs`,
`issued` and `torn` are history: nothing reads them but properties.

`NameDirectory` forgets rings, locks and cursors. The refinement mapping is
`bound <- ipToDomain`, `known <- issued`, `tainted <- torn`. A put is a stutter,
an allocation is `HandOut`, an import is `Learn`, a crash is `Restart`.

### 2.2 ConnectCall, with Socks5 and LibraryConfig

`ConnectCall` follows one `my_connect` through `phase`: the configuration is loaded
(`OwnLoad`), the license and the address looked at (`Initialized`), the proxy chosen
(`Route`), dialled (`Dial`, `InProgress` and the poll with its signals), and the
tunnel asked for, with `Handshake` of `Socks5` or with a CONNECT to the local proxy
(`MitmAsk`, `MitmRecv`). `total` counts the time of all waits that have a timeout.

`Socks5` is one handshake. A read wants an exact count (`Wanted`) and gets it in
fragments of any size (`Receive(n)`); `Tick` moves the clock of the call, `TimesOut`
ends it. The server greets and replies with any of the byte strings of the instance,
which include a refusal, an HTTP answer, replies with IPv4, IPv6 and domain
addresses of zero, one and four bytes, and replies of other protocols: `ReplyBytes`
names their bytes as `Handshake` takes them, any version, any second byte and any
address type, one that it does not know being followed by no address. The server may
push application data behind the reply and may close at any moment. `granted` is what
the code looks at, the second byte of the reply; nothing looks at its version
(`Socks5.hpp:203`).

`MitmRecv` is the one `recv` of the answer to a CONNECT, and `Established` the `strstr`
in its bytes: a status line of which only a part has come is a refusal, and the words
of a success behind an error are one.

`LibraryConfig` is `Config::Load`, one action per section of the file, as the two
hooks run it on one object: values are written as they are read and judged behind
that, a key of the wrong type in any section throws and leaves what was written. Each
load finds contents of its own, as the launcher may rewrite the file between them.

### 2.3 SocketHooks

Threads of one process and descriptor numbers that the kernel reuses. `Resolve`
is `my_getaddrinfo`; the directory hands out any address, so recycling happens
at once. The time, the bytes and the configuration of a connect are `ConnectCall`'s
concern; here `my_connect` is split into `ConnectBegin` (license, address, name),
`ProxyConnected` or `ProxyUnreachable`, `Granted` or `Refused` (the handshake,
in blocking mode) and `Record`, as another thread can run between them;
`my_close` into the erasure and the system call. `Dup2` is a system call the
library does not hook. A thread uses only descriptors it opened. The metadata file
changes at any time (`MetadataChanges`); the first `my_connect` reads the license and
keeps it. An application may also connect to a literal of the FakeIP block
(`ResolveReal`), which the directory may not know: `ConnectPlain` passes it on.

### 2.4 GoServer, with StreamPipeline, PassthroughRetry and ModelsCache

`GoServer` is the process: `Accept` takes a request of one of three kinds, `Signal`
makes `Shutdown` close the listener, and `Exit` is the return of `main`, which waits
for nothing. A behaviour follows one kind of exchange, as the kinds share no
variable; the requests for the model list are three at once.

`reader` is `processStream`, `handler` the goroutine of the three stream
handlers (`Begin` starts it and writes the first event, where the format has one), `Copy`
is `streamCopyWithFlush`. Each of the two selects is a disjunction: with a full channel
and a cancelled context the code may take either branch. `closed` marks the close of the channel by the reader's defer,
`pipe` tells which end closed it. `EventStream` has no goroutine: chunks are
produced, delivered in order, and completion comes after all of them and only if
the provider ended its stream.

`PassthroughRetry` follows one request through at most `MaxRetries + 1`
attempts against an upstream that fails, answers with any status, type and
coding, gzip that does not decode among them, and whose body is whole, breaks off or
never ends. `Discard` is the read of a server error before the next attempt, which such
a body may hold up as well. `ModelsCache` has a
goroutine per request, split where the read lock is let go, the fetch returns and
the write lock is taken.

### 2.5 StreamTranslate

A line of the upstream carries text, fragments of tool calls and a finish reason
in every combination; a fragment names its call, says whether it is the first
and whether it has arguments. `state` is `translator.StreamState`; `out` are the
events of the client's format. Pieces of text are named by the line that brought
them, so "complete and in order" is equality of sequences. The component is
*partly* modelled: request and whole-response translation are not.

### 2.6 Routing

`Routing` takes a configuration and a conversation that grows, and computes for every request of every client where the code sends it:
tunnel, upstream, nowhere, or a provider entry and the instance loaded for it. An
instance is loaded for an entry whose type has a factory and that names an endpoint
(`Loads`). The models of an entry are those it has when `main` begins to serve: the
fetch at start (`main.go:142`) is a choice of the configuration.

### 2.7 PatchCLI

One action per file operation of `preparePatchedCLI`, in the order of the code, and one
per call of codesign: `Unsign` asks it to remove the signature of the copy, and `Sign`
to make one. `Fail` may replace any of them and leads to the rollback, itself one action
per operation (`RollbackWrapper`, `RollbackCommand`, `RollbackRestore`,
`RollbackDirectory`), each of which may fail and is followed by the next.
`CleanDirectory`, `CleanCommand` and `CleanRestore` are `cleanEnvironment`, and
`CleanFails` is a removal that throws in it. `Crash` may come between any two of these.
`Install` is the user. `Ready` is `PatchedAppHealthService.evaluateCLI`. A binary is its
version. `copyItem` and `removeItem` do all of what they do, or nothing: a copy that is
cut short, or a directory of which a part is removed, is not in the model.

### 2.8 Launcher

Two threads. The main thread selects (`Select`, the `didSet` of `selectedApp`) and
refreshes (`Visit` and `Leave`, one turn of the loop of `refreshAllAppStatuses` with
its `defer`); the workflow's thread patches a bundle, one action per step of
`preparePatchedBundle`, then verifies it, or cleans one up. Each action asks
`activeApp` where the code does: the copy goes to the destination computed at the
start, everything behind it to the application that is active then. A bundle is the
original it is a copy of, with the library, the environment and a signature or
without. `Verify` may also end without a finding of its own making (`unverified`): the
helper it needs is missing, or codesign is not run or answers no
(`PatchVerificationService.swift:92-146`), behind which `runWorkflow` rolls nothing back.

## 3. What is checked

All numbers are distinct states of the runs.

| Run | States | What it shows |
|---|---|---|
| `fakeip_ring` | 221,976 | with two processes, three names, a pool of two addresses and a ring of two slots, both wrapping, and processes on different stores: the maps of a process agree, an address leads back to its name, the ring answers with its newest entry, the oldest address is recycled |
| `fakeip_crash` | 380,326 | with deaths at every step: no name is made up unless a write was torn, the pool implements the directory, every operation ends |
| `connect` | 1,230,044 | one connect against every server of the instance and every file, behind two loads: SOCKS5 reports success only behind an accepted method and an accepted reply, the stream is aligned, the call is bounded and ends with two named exceptions, the settings end up in range |
| `proxy_type` | violation | a proxy configured as HTTP is spoken to in SOCKS5 (finding) |
| `hooks` | 1,525,052 | two threads, two descriptor numbers, two addresses, a license that runs out and is renewed: the peer address is kept, nothing of an earlier socket remains, flags come back, tunnels lead where they should, the process keeps the license it began with |
| `go_server` | 1,503,828 | with a signal at any time: a stream of up to five chunks through a channel of two implements `EventStream` and leaves no goroutine; no broken answer is passed on as whole, 502 comes only after the last attempt, every request is answered but for the waits for the upstream; three overlapping requests for two model lists get header and body of one response, of bounded age |
| `translate` | 382,257 | every stream of four lines with two calls, for each of the three formats: text, an Anthropic client's in open blocks, calls and completion arrive, as far as section 3.4 says |
| `translate_parallel` | violation | two calls to a Gemini client merge (finding) |
| `routing` | 453,534 | up to two rules of five, three provider lists, two routers, conversations of three turns, thirteen requests: earlier turns have no say behind a prompt, rules for the own format come first, translator and sender are of one type |
| `patch_cli` | 311,817 | three versions and two crashes: the original is never lost, a link has its backup, a failed patch leaves a command that runs, ready means it starts but behind a codesign that was stopped between its calls |
| `patch_upgrade` | violation | a newer binary installed over a patched command is removed (finding) |
| `launcher` | violation | two applications; a patch that fails behind a change of the selection leaves its half made bundle and may remove a sound one (finding) |

### 3.1 Bounds, and why they are enough

* `FakeIP`: three names against two addresses force recycling; three
  allocations per process and two slots make the ring wrap twice; two clock
  values allow entries of the same and of different milliseconds. The crash run
  drops a name and a store to afford restarts and liveness. The real sizes (4096
  slots, a /15 block) change no comparison; the proofs are for every size.
* `Socks5`: `Timeout = 2` separates before and at the deadline; fragments go up
  to sixteen bytes, the longest read of the instance. The replies of other protocols
  are one that is refused, one with the second byte 0 and an unknown address type, and
  one with the second byte 0 and a domain.
* `ConnectCall`: one tick of the poll and one signal give an expiry, and an expiry
  put off. `MCFiles` has each section missing, sound, out of range and ill-typed. The
  load of the other thread is followed until the tunnel is asked for: nothing reads
  the configuration behind that.
* `SocketHooks`: a third thread would be needed only for a step between two
  threads working on one number; two suffice to close, reopen and record. Two states
  of the metadata, with a valid license and with an expired one, allow every order of
  them; what else the file may hold counts as one of the two.
* `StreamPipeline`: five chunks fill a channel of two, block the sender and
  leave one for each place of the pipe; the chunk without event is in the middle.
* `StreamTranslate`: two calls in four lines allow a start, an interruption by
  text or by the other call, and a resumption.
* `ModelsCache`: `MaxTime = 3` leaves time for a list to expire and for the one
  fetched then to be too old; the third request is the one that overlaps two others.
* `GoServer`: exchanges of different kinds do not meet, so one at a time shows all.
* `Routing`: two rules are enough for a conflict of first and better match; three
  turns for a tagged prompt between an older one and what comes behind it.
* `PatchCLI`: three versions allow patch, upgrade, patch, upgrade; two crashes
  allow one in a patch and one in the cleanup after it.
* `Launcher`: two applications are one that is patched and one that is looked at.

`CHECK_DEADLOCK FALSE` stands where the system stops: bounded inputs are used
up, a request is answered, a handshake has ended.

### 3.2 Fairness

* `FakeIP`: weak fairness of `Finish(p)`, the completion of an operation in
  flight; a thread in a call of the library runs, and the lock is blocking.
* `ConnectCall`: weak fairness of the steps of the thread itself and of the other
  thread's load, of the clock, and of the end of a poll whose time is over. Nothing
  is assumed of the proxies or of signals.
* `GoServer`, a stream: weak fairness of `Reader`, of `Expire` and of the scan error
  behind it is what the Go scheduler and the 30-minute context give the reader.
  `ReaderEnds` needs nothing of the client.
  `PipelineEnds` has `ClientFairness` as its antecedent: a client that neither
  reads nor leaves blocks the copy for good, as the server sets no write timeout.
* `GoServer`, a request passed on: the goroutine runs. Nothing is assumed of the
  upstream, as neither the round trip nor the read of a body has a deadline:
  `Answered` names the waits for it (`WaitsForUpstream`), for the headers, for the end of
  a body and for as much of a server error as is read before the next attempt
  (`passthrough_retry.go:72`, `:89`), and says that nothing else holds a request up.
* All three name the exit of the process as the other way a request may end.

The other modules have no liveness property.

### 3.3 Findings

* `translate_parallel`: `StreamState` holds one function call, so for a Gemini
  client the second of two calls overwrites the first and arguments run together
  (`gemini_to_openai.go:248`), the outcome that the comment at `provider.go:48`
  warns of. The test at `openai_to_openai_test.go:231` shows that an upstream
  interleaves calls.
* `patch_upgrade`: `.original` is not refreshed when it exists, and the command
  is removed all the same (`PatchService.swift:258`, `:285`), against the comment
  at `:254`. The new version is lost; the old one stays, so `OriginalNeverLost`
  holds and `BinaryPreserved` does not.
* `proxy_type`: `proxy.type` is read and validated (`Config.hpp:195`), and nothing in
  `my_connect` looks at it, against `docs/troubleshooting_ineligible_region.md:162`
  and `README.md:13`, which offer HTTP proxies.
* `launcher`: every step of a bundle patch asks anew which application it is about,
  and so does the rollback (`PatchService.swift:302`), while the menu bar selects
  another one before it looks at `isRunningWorkflow` (`LauncherAppState.swift:126-142`)
  and a refresh visits all of them (`:656`). `launcher/README.md:26` promises that a
  failure leaves nothing half made.

### 3.4 What the properties leave out

Where a property carries a condition, the code makes no wider promise or does not
keep it; the condition says which:

* `NothingInvented` and `NewestPutWins`: no torn entry. A process that dies
  between the address and the name of a slot leaves a wrong pair, and no reader
  can tell.
* `NewestPutWins`: puts of one millisecond are not ordered once the ring wrapped.
* `FallbackForNonTunneled`: not for a number made by `dup2`, which no hook sees.
* `OneLicense`: a process that starts with an expired license passes made-up addresses
  on, although `getaddrinfo` goes on making them and the comment of
  `AntigravityTun.cpp:57` promises a passthrough; the property says that it never does
  so beside a tunnel. An address of the FakeIP block that the directory does not know
  is passed on under any license (`:85-86`, `:300`).
* `OpenOnlyIfAccepted`: what the code asks for, a reply whose second byte is 0. A reply
  of another protocol with this byte opens a tunnel that is none. The property is about
  SOCKS5; of a CONNECT no more is known than that `strstr` found the words.
* `StreamAligned`: for a server that says no more than its two bytes before it is asked,
  as RFC 1928 has it; of a foreign reply, what is left is behind the bytes that
  `Handshake` takes for it.
* `EarlierTurnsIgnored`: from the newest prompt with the tag on, or, where no turn has
  it, from any turn of the user's. A prompt *without* the tag behind one *with* it is
  routed by the older one: the first pass of `ExtractLatestUserContent` looks for the
  tag in all turns, although its comment (`content_extractor.go:21`) and
  `config.go:169` say that the most recent message alone counts.
* `TextPreserved`: the Anthropic and Gemini translators drop the text of a line that
  also brings a call. Text behind the first call goes to block 0 of an Anthropic client,
  which is stopped by then or the call's own (`anthropic_to_openai.go:270-288`): such a
  delta does not count as text the client has, and the property is about answers whose
  text comes first.
* `CallsPreserved`: a Gemini client with one call, an OpenAI client with any. An
  Anthropic client's fragments without a name go to a block of the next index
  (`anthropic_to_openai.go:231`).
* `ConnectEnds`: not for a local proxy that takes the CONNECT and stays silent (the
  `recv` of `AntigravityTun.cpp:260` has no timeout), nor for a negative connect
  timeout that `Load` leaves when a later key throws.
* `SettledConfigInRange`: not for a file one of whose keys has the wrong type.
* `ReaderEnds`, `PipelineEnds`, `Answered`: not when the process exits.
* `BoundedStaleness`: an answer served because the fetch failed may be older.
* `FailedPatchKeepsCommand`: a first patch, and a rollback whose removal of the command
  and copy of the original succeed. A failed second patch leaves the command a link to a
  wrapper that is gone.
* `ReadyRuns`: not behind a codesign that removed the signature of a copy used again and
  did not sign it (`SigningService.swift:178`, `:180`), by a death or a failure between
  the two or one that is rolled back in part. With the wrapper and the metadata of the
  patch before, the launcher calls this ready; the next patch that ends well ends it.

## 4. Mutants

Every property of every passing run has a mutant in `PROJECT.json`: a
definition of the model replaced by what a plausible bug would make of it (a
cursor that wraps late, a close that erases its record last, a timeout that starts
anew with every fragment, a copy that is reused unsigned). Under the run's own
configuration TLC then finds the property violated.

## 5. What is proved

Every safety property and action property of a passing run is a theorem, for every
value of the constants its assumption allows, as are both refinements. `PROJECT.json`
"theorems" lists them; this is the argument of each.

| Module | Theorems | Inductive invariant |
|---|---|---|
| `FakeIPProofs` | `TypeCorrect`, `PoolCorrect`, `MapsCorrect`, `OwnAddressCorrect`, `NothingInventedCorrect`, `NewestPutCorrect`, `OldestRecycledCorrect`, `RefinesDirectory` | `TypeInv`, `MapInv`, `RingInv`, `OrderInv`, `AgeInv` |
| `ConnectCallProofs` | `SocksTypeCorrect`, `AcceptedCorrect`, `AlignedCorrect`, `BoundedCorrect`, `ConfigCorrect` | `CallInv` |
| `SocketHooksProofs` | `TypeCorrect`, `PeerAddressKeptCorrect`, `FallbackCorrect`, `TunnelledCorrect`, `FlagsCorrect`, `OneLicenseCorrect` | `HooksInv` |
| `GoServerProofs` | `ImplementsEventStreamCorrect`, `BufferedCorrect`, `GivesUpCorrect`, `OneResponseCorrect`, `StalenessCorrect` | `PipelineInv`, `RetryInv`, `CacheInv` |
| `RoutingProofs` | `EarlierTurnsCorrect`, `OwnFormatCorrect`, `TranslatorCorrect` | `RouteInv` |
| `PatchCLIProofs` | `TypeCorrect`, `OriginalNeverLostCorrect`, `LinkHasBackupCorrect`, `FailedPatchCorrect`, `ReadyRunsCorrect` | `PatchInv` |
| `StreamTranslateProofs` | `TextCorrect`, `CallsCorrect`, `CompletionCorrect` | `TranslateInv` |

A theorem is about the specification of a run and carries no hypothesis besides the
named assumptions of the modules it is about (section 5.8). What a property leaves out
(section 3.4), its theorem leaves out.

### 5.1 FakeIP

Any number of processes, names and stores, any block, any ring of at least one slot.
The properties are not inductive alone, and the strengthening has layers, each of
which uses those before it.

* `TypeInv` is `TypeOK` with `PoolInv`: the cursor, an address about to be published
  and the address of a slot with a name are of the pool, a pair about to be published
  was issued, and no slot is younger than the clock.
* `MapInv` is `MapsAgree` and `OwnAddressResolves` with one more part: the address a
  `GetDomain` in flight asks about is unknown to its process. `GetEnd` writes the map
  entry of that address, which would break both properties if the address had been
  handed out meanwhile; `m_mtx`, held for the whole operation, is what keeps it
  unknown.
* `RingInv` is `NothingInvented` with what makes it so: a process between the address
  and the name of a slot holds the lock and the slot has its address, and every slot
  that nobody is writing holds an issued pair, unless `torn`.
* `OrderInv` numbers the puts. A slot put later is not of an earlier millisecond, and
  until the ring wraps the puts fill the slots from the first one on, so that the
  entry `SharedGet` finds by its time stamp, or by its place, is the newest put. That
  is `NewestPutWins` once `torn` entries and puts of one millisecond in a ring that
  wrapped are set aside.
* `AgeInv` gives the age of an address of the pool: how many allocations were made
  since equals the distance of the cursor from it, around the block. An address is
  taken away when the cursor is on it, so behind exactly one round, which is
  `OldestRecycled`.

The refinement maps each action to a step of the directory, or to a stutter, under the
first three. Two lemmas about least and greatest elements of sets of naturals give the
entry that `SharedGet` chooses (`BestExists`, `SharedGetAnswer`).

### 5.2 ConnectCall and Socks5

Any servers, payloads, fragments, files and bounds, and any number of hooks that load
at once.

* `SocksInv`: what `ReadExact` has read, followed by what waits in the socket, is what
  is left of the greeting or of the reply at this point of the handshake
  (`GreetingInv`, `AnswerInv`), so where the fragments are cut makes no difference,
  for a reply of any version, second byte and address type; the two sides take turns
  (`TurnInv`), nothing waits before the server spoke (`QuietInv`), and a read in
  progress wants more (`WantInv`). `StreamAligned` is `AnswerInv` in its last state.
* `LoadInv`: a port or a timeout out of range is one that some load has still to
  judge, or that a load left behind when it threw. `SettledConfigInRange` is what
  remains when all loads are over and none threw.
* `ClockInv` gives each phase its share of the budget: the poll its signals, each call
  of the handshake one timeout (`HandshakeClock`, `Over`).
* `PhaseInv`: the handshake has not begun before its phase, and success through SOCKS5
  is that of `Handshake`.

### 5.3 SocketHooks

Any number of threads, descriptors, names and addresses. The hooks take no lock across
their steps; the argument rests on a fact of how applications use descriptors, which
the model's actions have as their guard and `OwnInv` makes precise: at most one thread
works on an open descriptor, and a closed one has no entry. `CallInv` says what a call
in flight finds at its descriptor, `EntryInv` relates the entry of `g_sockfd_map` to
the kernel's socket, `DirInv` says that a pair which is bound was handed out, and
`LicenseInv` that a tunnel, open or on its way, was begun under the one license. The
metadata may be any set of values and change at any time; `OneLicenseCorrect` rests on
`LicenseKept` alone, the static of `my_connect`.

### 5.4 GoServer

Any number of chunks, capacity, attempts, requests and ticks. The three kinds of
exchange share no variable, and `StepOfServer` splits a step of the server into
theirs.

* `PipelineInv`: the items on their way, from the reader through the channel to the
  goroutine of the handler, are consecutive (`OrderInv`); the first of them is what
  the client is to get next (`FrontInv`); nothing is behind the terminal event
  (`CompleteInv`). From these each step is one of `EventStream` or a stutter
  (`PipelineStepImplements`).
* `RetryInv` counts the requests the upstream received by the loop variable and the
  place in the loop, the read of a server error that is dropped among them.
* `CacheInv`: header and body are always stored together, and `AgeInv` bounds from
  below when what is cached, or held by a request, was fetched.

### 5.5 Routing

Any configuration, any requests, a conversation of any length. `RouteInv` is small, as
an outcome is computed in one step; the proofs are in the lemmas about the first index
of a list that passes a test and about the last one (`MinMember`, `MaxMember`,
`MaxLast`, `RuleFound`, `EntryFound`, `InstanceFound`): what was said before a prompt
is not behind the last index.

### 5.6 PatchCLI

Any number of versions and deaths. `BackupInv`: `.original`, once made, stays, and
each step that takes the command away comes behind it. `WorkInv`: until the command is
removed it is the one the patch found, and a rollback knows what it has to undo,
whichever of its operations are done. `DirInv`: a wrapper stands only next to a copy
that is signed or was taken from codesign between its two calls, also behind a death,
and a patch that ended well has signed it, which is `ReadyRuns`.

### 5.7 StreamTranslate

Streams of any length with any number of calls, for each of the three formats. What a
chunk is translated to is described once (`LineEvents`): events that are final only
behind the end of the upstream, of which at most one brings text, and that of this
line. So the list of lines that a client has put together grows by the newest line, or
not at all (`BringsMore`, `BringsSame`), which gives `TextInv` and, call by call,
`ArgsInv` for an OpenAI client. For an Anthropic client, `OpenInv` keeps the block of
the text open until the first call, and `BlockInv` says that each delta was written
into an open one, which with `TextInv` is `TextPreserved`. For a Gemini client with
one call, `CallInv` says that the pending call of the state holds the arguments so far
(`Pending`), that nothing about it was sent, and that it goes out at the end. The
translators fold over the calls of a line; a line has at most two, so the folds are
unrolled in the proof (`OneFragment`, `QuietTools`).

### 5.8 Assumptions

Each is named, stands in the module that declares the constants, and is evaluated by
TLC in the module's runs: bounds are naturals, a ring, a channel and a time to live
are positive, and markers (`None`, `Done`, `Garbled`) are no member of the set they
mark the absence of. Those that say more:

* `Socks5Assumption`: servers send bytes; a greeting that accepts the method without
  authentication is of two bytes, as anything behind it would be sent unasked; a reply
  is cut where `Handshake` cuts it: its address has the length its type tells, none
  for a type it does not know. Its version, second byte and type may be any.
* `ConfigAssumption`: a connect timeout in a file is an integer, missing or of a wrong
  type.
* `RoutingAssumption`: rules and providers are lists, a provider list is not empty, as
  the configuration is checked for at start.
* `ConnectAssumption`: the hook `connect` is one of those that load.

### 5.9 Only model-checked

* Liveness and what rests on it: `OperationsEnd`, `ConnectEnds`, `ReaderEnds`,
  `PipelineEnds`, `Answered`. The prover does no fairness.
* The four runs that show a violation; there is nothing to prove. `Launcher` has no
  other run, so nothing is proved of it.

## 6. Plan

The runs and the theorems cover the code that carries the program's logic. Left: what
an Anthropic client makes of the block indices of text and fragments behind a call, as
a property of `StreamTranslate`; deaths of the launcher in the patch of a bundle,
which `Launcher` leaves out; a promise of the bundle patch that holds, with the
rollback that fails and the verification that ends early counted in; a reboot under
the ring of `FakeIP`.

## 7. What is not modelled

* The Google login and the storage of accounts and tokens: no view and no other code
  calls `login`, `cancelLogin`, `logout` or `refreshAccessToken` of `AuthViewModel`
  at this commit, so the program never runs them.
* `nlohmann/json.hpp`, 25,826 lines of a third-party parser. What a parse gives is
  modelled where it is used: a value, a default, or an exception.
* The license worker: handlers of one read and at most one write in an external
  service. Two activations at once are a hazard without a property.
* Deaths of the launcher in a bundle patch, and applications of different kinds in
  one workflow; `PatchCLI` has the deaths, `Launcher` the interleavings.
* Starting, stopping and migrating applications: done by macOS and external tools.
  That a tool may fill its pipe (`CommandRunner.swift:48`) is a hazard without a
  property.
* A reboot: `CLOCK_MONOTONIC` begins anew while the fallback file of the ring keeps its
  stamps (`FakeIP.hpp:79-83`, `:105-119`), so that old entries look newer than new ones.
  `FakeIP.Tick` is one clock that never goes back. Which of its calls makes `Attach` end
  on the file, or on nothing (`:130`, `:219`), is not told apart.
* User interface, command line output, logs and the library's logger; rewriting one
  JSON document into another; the version order of releases; TLS and HTTP below a
  request; build scripts.
