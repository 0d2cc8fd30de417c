# Formal models of martian (src/)

This directory holds TLA+ models of the martian HTTP proxy. TLC
configurations check them on small instances. TLAPS proofs establish the
following for every instance:

- the main shutdown invariant;
- the refinement of an abstract shutdown specification;
- that no handler registers while `Close()` waits (an action property);
- the consecutive-error limit;
- the tunnel's loss-free splicing and its join of the two copies;
- the refinement of an abstract splice specification by the tunnel;
- the logger's entry shape. The runs, the mapping from
definitions to source lines, the findings and the hazards are listed in
`PROJECT.json`.

## The system and its parts

| Part | Source | State | Operations | Interacts with |
|---|---|---|---|---|
| Proxy engine | `src/proxy.go` | `closing` channel, `conns` wait group and `connsMu`, listener, per-connection session (hijacked) and buffered reader/writer | `Serve` (accept loop), `handleLoop` (per connection), `readRequest`, `handle`, `handleConnectRequest`, `handleUpgradeResponse`, `tunnel`/`copySync`, `Close`, `Closing` | clients, upstream (roundTrip/connect), modifiers |
| Upstream dialer | `src/proxy.go` 802-907 | none (per call) | `roundTrip`, `connect`, `connectHTTP`, `connectSOCKS5`, `errorResponse` | proxy engine |
| FIFO modifier group | `src/fifo/fifo_group.go` | `reqmods`, `resmods`, `aggregateErrors`, two RWMutexes | `SetAggregateErrors`, `Add*Modifier`, `ModifyRequest/Response`, `Verify*`, `Reset*`, `ToImmutable`, `groupFromJSON` | the engine calls it as its modifier |
| Connection metrics | `src/unnamed/part_000` (package connmetric), `src/connmetric/tracker.go` | byte counters, first error, `closeOnce` | `Read`, `Write`, `Close` | a `Tracker` receives one `StatsEntry` |
| Traffic logger | `src/martianlog/logger.go` | `mode`, `decode`, log function | `SetMode`, `SetHeadersOnly`, `SetDecode`, `ModifyRequest`, `ModifyResponse`, `loggerFromJSON` | used as a modifier; its setters may be called from any goroutine |
| Log package | `src/unnamed/part_001` | level, mutex | level-filtered printing | everyone |

The parts that are hard to get right are in the engine. Many handler tasks run
concurrently with the accept loop and with `Close()`. `Close()` must signal the
handlers, wait for each of them, and leave no handler reading after it returns.
A handler's loop combines read errors, parse errors, modifier hijacks, tunnels
and close decisions. The FIFO group's hard part is its pure algorithm:
aggregating or stopping on errors through nested groups, and the
`ToImmutable` flattening. The metrics wrapper's hard part is the interleaving
of concurrent Read/Write/Close on one connection.

## Modules

### `Proxy.tla` (proxy engine lifecycle)

`Proxy.tla` models the engine's lifecycle: `Serve`, `handleLoop`, `readRequest`,
the outcome of one `handle()` call, and `Close()`.

Variables:

- `closing`: `p.closing` has been closed.
- `spc`: where `Serve` is.
- `mu`: the holder of `connsMu`.
- `conns`: the set of handler tasks counted by the wait group.
- `cpc[k]`: where each `Close()` caller is.
- For each connection: `hpc` (where its `handleLoop` is), `result` (what
  `handle()` returned), `errs` (the consecutive error counter), `hijacked`,
  `shut` (the write side was half-closed by `readRequest`), `pclosed` (the
  deferred `conn.Close()` ran), and the counters `parsed` and `answered`.
- `hist[c]`: the values `handle()` returned to `handleLoop`, in order. It is a
  history variable: no step reads it. It lets `ErrorLimitExact` compare the
  counter with what actually happened.
- Clients are the environment. They dial, send up to `MaxMsgs` messages of
  the kinds in `Msgs` (`keep`, `close`, `upgrade`, `connect`, `bad`), and close
  their side.

Actions, one per step of the code:

- `ServeCheck`, `Accept`, `AcceptTemporary`, `AcceptFail`: the accept loop.
- `HandlerAdd`: `connsMu`, then `conns.Add`.
- `HandlerCheck`: the `Closing()` check.
- `ReadRequest`: parse a request, then check closing.
- `ReadBad`, `ReadEOF`, `ReadTimeout`: read errors, with `CloseWrite`.
  `ReadTimeout` is the header deadline set at the top of `readRequest`.
  The deadline re-armed or cleared at line 366 only bounds later reads of the
  same request and of a tunnel. Every `readRequest` sets its own header
  deadline again, so the model keeps `ReadTimeoutSet` as a constant. The
  tunnel's own deadline is `Tunnel`'s `rdl`.
- `Serve`: the rest of `handle()`. Its outcome is chosen from what the code can
  do:
  - a hijack by a modifier;
  - a response written;
  - the close decision at 702-707, 772 and 784;
  - a 101 upgrade or a CONNECT tunnel. Both end in `errClose`, but first
    the handler goes to `tunnel` and stays blocked in `tunnel()`;
  - a rejected CONNECT, which returns the flush error.
- `TunnelReturn`: both copies of the tunnel sent on `donec`, and `tunnel()`
  returns. When that happens depends on the peers closing (see `Tunnel`), so
  the step gets no fairness.
- `HandleResult`: the loop body of `handleLoop`.
- `HandlerExit`: the deferred `conn.Close()` and then `conns.Done()`.
- `CloseSignal`, `CloseLock`, `CloseWait`: `Close()`.

The body of `handle()` is collapsed into one step because the engine's control
only depends on its result and on the hijacked flag. `Tunnel` and `MitmLoop`
model two parts of that body in detail.

The end of the module maps `Proxy` onto the abstract specification
`Shutdown.tla`. `closing` is `signalled`. The connections whose handler has
passed the `Closing()` check and is reading, serving or handling a result
(`Serving`) are `active`. The `Close()` callers at `returned` are `returned`. `ShutdownRefinement` is `Abs!Spec`.

`NoAddDuringWait` is an action property. While a `Close()` caller is in
`conns.Wait()`, no step adds to `conns`. `sync.WaitGroup` forbids an `Add`
from zero that runs concurrently with `Wait`. `Close()` holds `connsMu`
across `Wait`, and the handler takes `connsMu` before `conns.Add`.
`WaitHoldsLock` (a caller is at `wait` exactly when it holds `connsMu`) is
the invariant it rests on.

### `Shutdown.tla` (what `Close()` promises)

Three variables (`signalled`, `active`, `returned`) and four actions:

- `Signal`;
- `Admit(c)`, only before the signal;
- `Finish(c)`;
- `Return(k)`, only after the signal and with `active` empty.

It is the spec's §4.5 graceful shutdown without the wait group, the mutex or
the handler's steps.

### `Splice.tla` (what a tunnel promises its peers)

Six variables: the chunks each peer has sent (`csent`, `usent`), the chunks
each has read (`urecv`, `crecv`), and whether each has closed its write side.
Each peer sends, closes, and reads the next chunk the other has sent
(`UpRecv`, `ClientRecv`: the read is the next number, and only one that was
sent). Nothing says that everything sent is read. A deadline may cut a copy,
so the promise is only that nothing is lost from the middle, reordered,
duplicated or invented. It has no buffers, copy tasks, writers or deadlines.

### `Tunnel.tla` (`tunnel`, `drainBuffer`, `copySync`)

The handler's steps are `WriteHead` (or `WriteHeadFail` once a write deadline
has passed), `Drain` and `Wait` (two values on `donec`). Each `copySync` is
`OutCopy`/`InCopy` (one chunk), `OutEnd`/`InEnd` (EOF, or the armed
deadline's error) and `OutCloseWrite`/`InCloseWrite` (half-close, then
`donec <- true`). `InCloseWrite` may leave the client without EOF: the client
connection half-closes only if `asCloseWriter` finds a `CloseWrite`.
`Init` chooses the writer `cw` that `handleConnectRequest`
or `handleUpgradeResponse` hands over (a conn with `CloseWrite`, the pipe writer
of `ConnectPassthrough`, or neither), and the chunks already buffered in
`brw.Reader`. The client and the upstream server send, read and close as the
environment. Chunks are numbered, so a stream is a sequence of numbers.
`rdl` and `wdl`, chosen in `Init` from `ReadDeadlines` and `WriteDeadlines`,
say whether deadlines armed by `readRequest` or by an earlier `handle()` are
still set on `conn`. Nothing in the code clears them. A passing deadline ends
a copy early: `OutEnd`'s second disjunct, `InEnd`'s second disjunct, and
`WriteHeadFail`. `UpFinish` is `UpClose`, taken once the upstream has read the
proxy's EOF.

`DoneCount` says that `donec` counts the copy tasks that have finished, and
that neither task runs before `drainBuffer`. `StreamInv` is the strengthening
of `TunnelLossless`. Neither is a run's property. TLC checked both as
invariants of `MCTunnel` with every kind of `cw` before they were proved.

`Peers == INSTANCE Splice` maps each of the peers' variables to itself. The
proxy's buffers (`buf`, `c2p`, `p2u`, `u2p`, `p2c`), its program counters and
`donec` are hidden. `SpliceRefinement == Peers!Spec` says that whatever the
writer, the drained buffer and the deadlines, every step of the tunnel is a
step of the peers' `Splice` or leaves them alone.

### `MitmLoop.tla` (which stream `handle()` works on)

A stream is named by its TLS depth: 0 is the accepted conn, and `d + 1` is a
`tls.Server` over `d`. The variables are the stream `handle` was given
(`arg`), the streams `brw.Reader` and `brw.Writer` are bound to (`rl`, `wl`),
and the tunnel spliced. `Loop` is `handleLoop` calling `handle(ctx, conn, brw)`.
`ServeMitm` has three outcomes: TLS success, handshake failure and plaintext.
A failed handshake returns its error to `handleLoop`. The loop stops on a
closeable error (`tls:`, EOF) and continues on any other, so both are
possible.
`ServeUpgrade` is `handleUpgradeResponse`.

### `FifoRace.tla` (`SetAggregateErrors` against `ModifyRequest`)

`group.ModifyRequest` takes one step per entry (`RunEntry`), then `Return`.
`SetAggregateErrors` writes the flag between any two steps. The flag is read
at every failing entry, as in the code.

### `Logger.tla` (`martianlog.Logger`)

`Init` is `NewLogger` or `loggerFromJSON`. The setters are one step each.
`ModifyRequest` and `ModifyResponse` are split at every statement that reads
`l.mode` or `l.decode`:

- `Start`: the skip and error-only returns;
- `ReqUrlMode`;
- `SetSkipBody`;
- `ResErrRequest`;
- `ResUrl`;
- `ReqMessage`/`ResMessage`: the message view.

`Emit` is the two deferred calls, `logEnd` and then `l.log`. An entry is the
sequence of its sections. `ConcurrentSet` says whether the setters may run
while a call is in progress. The `logger` run keeps them between calls, because
neither the spec nor the comments say whether setters may run while traffic
flows. With `ConcurrentSet` TRUE, TLC finds an entry that mixes two modes: a
`SetMode` between lines 217 and 245 of `ModifyResponse`. This is listed as a
hazard.

`View`, `ErrPrefix` and `Entry` are what the doc comments describe, not code.
`CallInv` is the proof's strengthening of `EntryFromOneMode`, and TLC checked
it on the `logger` instance first.

### `FifoGroup.tla` (FIFO group)

The state is the group configuration: `mods[g]["req"|"res"]` and `aggregate[g]`.
It is built by the real mutating calls, `SetAggregateErrors` and
`AddRequestModifier`/`AddResponseModifier`. Those calls are all `groupFromJSON`
makes. Groups are `1..NumGroups`, and a group only holds higher-numbered groups,
which keeps the tree acyclic as `groupFromJSON` does.

`ModifyRequest`/`ModifyResponse` (`Exec`, `RunFrom`) and `ToImmutable` change
no group. They are therefore operators, evaluated in every reachable
configuration for every set `F` of failing leaves. A MultiError is a record of
its members. Its `Error()` string joins the members', so the observable error
is the flattened sequence `Render`.

### `ConnMetric.tla` (InstrumentedConn)

Each task makes one call, split where other goroutines interleave:

- Read and Write are two steps: the inner call, then the error check and the
  atomic add.
- Close is two steps: `closeOnce` with the inner `Close`, then the loads and
  `RecordStats`.

A dereference of the nil `*error` sets `panicked`.

### `ProxyProofs.tla`, `TunnelProofs.tla`, `LoggerProofs.tla`

The TLAPS proofs about `Proxy`, `Tunnel` and `Logger`.

## Runs

| Run | Shows |
|---|---|
| `proxy_lifecycle` (MCProxy.cfg, pass) | One client, two messages of every kind, one `Close()` caller, read deadline on: `QuiescentAfterClose`, and `CloseReturns`. `CloseReturns` says that `Close()` returns, provided every tunnel a handler is blocked in eventually ends (`TunnelsEnd`). Without that premise a tunnel that never ends blocks `Close()` forever. About 24k states. |
| `proxy_two_conns` (MCProxyTwo.cfg, pass) | Two clients, one message each: the inductive invariant `QuiescenceInv`, `ShutdownRefinement`, and `NoAddDuringWait` (no handler joins `conns` while a `Close()` caller is in `conns.Wait()`, the `sync.WaitGroup` rule that `connsMu` keeps). About 680k states, under a minute. |
| `fifo_semantics` (MCFifoGroup.cfg, pass) | Three groups, up to two entries per list and four in all, two leaves, every failure set: `ModifySemantics` (the code's loop equals the spec's stop/aggregate semantics, nested groups included) and `ImmutablePreservesSemantics`. About 71k configurations. |
| `idle_close` (violation) | Without a read deadline an idle keep-alive client blocks `Close()` forever. |
| `drop_on_close` (violation) | A request parsed after `Close()` was signalled gets no response. |
| `error_limit` (MCProxyErrLimit.cfg, pass) | One client sends up to six requests, well-formed or malformed: `ErrorLimitExact`. The property is stated against `hist`, the results `handle()` returned. A handler about to read has not just had `MaxConsecutiveErrors` errors in a row. A handler that left the loop on an error had exactly that run behind it. So a counter that is not reset, not incremented or compared off by one is caught. About 63k states. |
| `tunnel` (MCTunnel.cfg, pass) | Up to two chunks each way, at most one buffered behind the request, both half-closable writers, and every combination of armed deadlines. `TunnelLossless` holds: in each direction that no armed deadline can cut, every chunk arrives in order. `TunnelEnds` (`cEOF ~> tpc = "done"`) holds. `HandlerJoinsCopies` holds: `tunnel()` returns only after a failed response head, or after both copies have sent on `donec`. `SpliceRefinement` holds: the tunnel implements `Splice`. About 17k states. |
| `tunnel_read_deadline` (violation) | The read deadline from `readRequest` cuts the outbound copy, so client data is lost (`SpliceUntilEOF`). |
| `mitm_raw_conn` (violation) | TLS MITM, a request on the TLS stream, then a 101 upgrade: the upgrade splices the raw conn while `brw` is bound to the TLS stream. |
| `fifo_race` (violation) | `SetAggregateErrors(false)` between two failing entries: the call returns the second error alone, and the aggregated first one is lost. |
| `logger` (MCLogger.cfg, pass) | Setters between calls only, two calls, every mode: `EntryFromOneMode` (each entry is the documented one for one mode). About 22k states. |
| `connmetric_close` (violation) | `*ic.error.Load()` dereferences nil: the first failing I/O and every `Close` panic, and no stats entry is recorded. |

**Bounds.**

- One or two connections are enough for the lifecycle questions. Every
  property is about one handler against `Close()`. The second connection adds
  the case where one handler registers while another holds the wait group.
- Two messages per client cover a request followed by another request, a
  malformed one or a CONNECT.
- The consecutive-error limit of 5 needs five failed reads in a row;
  `error_limit` allows six messages on one connection, so the limit is reached
  and passed.
- The tunnel needs two chunks in each direction and one buffered chunk, so
  that reordering, loss and the drained prefix are all reachable.
- The tunnel run uses only writers that can be half-closed. A `cw` that is
  neither a `closeWriter` nor a pipe writer leaves the upstream without EOF,
  and the tunnel never ends (`copySync` only logs at line 592). The mutant
  `OutCloseWriteNever` is exactly that behaviour, and it breaks `TunnelEnds`.
- `MitmLoop` needs three requests (MITM, a request on the TLS stream, an
  upgrade). `FifoRace` needs two failing entries out of three. The logger needs
  one call per kind of request/response, and two calls in the sequential run.
- Symmetry is not used, because the runs check liveness.

**Fairness.**

- The proxy's own tasks are weakly fair on each of their actions: the accept
  loop, each handler step and each `Close()` caller. The Go scheduler runs a
  runnable goroutine eventually.
- When `ReadTimeoutSet` holds, a read with no data times out (`ReadTimeout`
  is weakly fair), because the deadline passes.
- `TunnelReturn` is not fair. A tunnel ends only when both copies end, and
  the inbound copy has no deadline from `readRequest`: it ends when the
  upstream closes. `CloseReturns` therefore carries the premise `TunnelsEnd`
  (weak fairness of each connection's `TunnelReturn`). `Tunnel`'s
  `TunnelEnds` shows when that premise holds: once the client has closed.
- Clients, the listener's owner, the caller of `Close()` and accept errors are
  the environment and get no fairness.
- Deadlock checking is off because an idle proxy legitimately blocks in
  `Accept`.
- In `Tunnel`, the following are weakly fair:
  - the handler and the two copy goroutines;
  - an armed deadline passing;
  - each peer reading what it was sent;
  - the upstream server closing its side after it has read the proxy's EOF
    (`UpFinish`), which is what HTTP/WebSocket servers do.

  When the client closes is its own choice and unfair. `TunnelEnds` is
  therefore stated from the client's EOF. Deadlock checking is off because a
  finished tunnel stops.

**Mutants.** Each property of a passing run is broken by a plausible bug of
the code:

- the `p.Closing()` check after registering removed;
- `HandlerExit` without `conns.Done()` (breaks `CloseReturns`);
- `Close()` not waiting;
- a new MultiError made for every error;
- inlining a nested group whatever its flag;
- a successful `handle()` not resetting the error counter (breaks
  `ErrorLimitExact`);
- `drainBuffer` skipped;
- `copySync` never half-closing;
- `tunnel()` receiving from `donec` once;
- a short write in `copySync` re-sending a chunk without consuming it
  (breaks `SpliceRefinement`);
- `conns.Add` taken without holding `connsMu` (breaks `NoAddDuringWait`);
- the deferred `l.log` running before `logEnd`.

`HandlerCheck` without its `Closing()` check also breaks `ShutdownRefinement`.

## What is proved

`ProxyProofs.tla` proves these for all values of the constants, from
`ProxyAssumption`:

- `TypeCorrect`: `Spec => []TypeOK`.
- `QuiescenceInvariant`: `Spec => []QuiescenceInv`.
- `QuiescentAfterCloseHolds`: `Spec => []QuiescentAfterClose`.
- `Refinement`: `Spec => ShutdownRefinement`. `Proxy` implements `Shutdown`.
- `ErrorLimitHolds`: `Spec => []ErrorLimitExact`.
- `NoAddDuringWaitHolds`: `Spec => NoAddDuringWait`.

`QuiescentAfterClose` alone is not inductive. A handler that has registered
but not yet checked `Closing()` could be anywhere when `Close()` returns. The
strengthening `QuiescenceInv` adds two facts:

1. Every handler between `conns.Add` and `conns.Done` is in `conns`.
2. Every `Close()` caller past `close(p.closing)` has `closing` set.

With (1), `CloseWait`, which needs `conns = {}`, can only return when no
handler is registered. With (2), a handler registering afterwards takes the
`Closing()` branch. The proof has one step per action:

- a frame lemma for the steps that touch none of `hpc`, `conns`, `cpc`,
  `closing`;
- small typing lemmas for `Serve` and `ReadRequest`.

The refinement proof has two lemmas:

- `InitRefines`: `Init` maps to `Abs!Init`.
- `NextRefines`: from `QuiescenceInv`, every step maps to a `Shutdown` step
  or a stutter:
  - A handler step changes the serving set by at most its own connection:
    - `HandlerCheck` passing the `Closing()` check is `Admit`. It passes only
      when `closing` is false, which is the guard of `Admit`.
    - `HandleResult` leaving the loop is `Finish`.
  - `CloseSignal` is `Signal` or, when already signalled, a stutter.
  - `CloseWait` is `Return`. `QuiescenceInv` gives `conns = {}`, and so no
    serving handler.
  - Every other step leaves all three mapped variables alone.

`Refinement` follows with PTL from `[]QuiescenceInv`.

`ErrorLimitExact` is not inductive either. It says nothing of the counter
`errs`, which decides the next exit. The strengthening `ErrorCountInv` has
these parts:

1. A connection that was not accepted has no handler.
2. A handler that has not read yet has an empty history.
3. A handler inside the loop (not at `exit` or `done`) has fewer than
   `MaxConsecutiveErrors` consecutive errors.
4. Inside the loop, `errs` is the length of the trailing run of `"err"`
   results in `hist` (`TrailingRun`).
5. A handler that left on an error has `MaxConsecutiveErrors` errors at the
   end of its history.

Part (1) is needed because `Accept` has no guard on the handler's state.
`HandleResult` keeps (4): an error extends the trailing run by one
(`TrailingAppend`), and a `nil` result resets both the run and the count. A
`close` result leaves the loop. The proof's lemmas cover:

- the frame of the steps that touch none of `hpc`, `errs`, `hist`, `cst`;
- a handler moving inside the loop without touching its count;
- the other connections' parts under a `HandleResult` step.

`TypeOK` is split into `LifecycleTypeOK` and the typing of `hist`, and the two
are proved separately, to keep each obligation small.

`NoAddDuringWait` is the action property `[][A]_vars`. Its `A` says that a
step taken while some caller is at `wait` adds nothing to `conns`. The proof
rests on the invariant `WaitHoldsLock`: a caller is at `wait` exactly when it
holds `connsMu`. `CloseLock` takes the lock and moves to `wait`.
`CloseWait` leaves both. No other step changes either, and `HandlerAdd` needs
`mu = NoOne`. Together with `TypeOK`, `WaitHoldsLock` is inductive
(`NextWaitLock`). The step lemma `NoAddStep` then shows every step from such
a state has `conns' \subseteq conns`. PTL combines them.

`TunnelProofs.tla` proves these for all bounds, writers and deadlines, from
`TunnelAssumption`:

- `TypeCorrect`: `Spec => []TypeOK`.
- `TunnelInvariant`: `Spec => []TunnelInv`.
- `TunnelLosslessHolds`: `Spec => []TunnelLossless`.
- `HandlerJoinsCopiesHolds`: `Spec => HandlerJoinsCopies`.
- `SpliceRefinementHolds`: `Spec => SpliceRefinement`. `Tunnel` implements
  `Splice`.

`TunnelInv` is `TypeOK /\ DoneCount /\ StreamInv`. The type invariant alone
is not inductive: `donec \in 0..2` holds only because `donec` counts the copy
tasks that have finished, which is `DoneCount`. `StreamInv` says that no chunk
is lost or reordered on the way. For each direction, the concatenation of four
streams is exactly the chunks the source sent, `Upto(csent)` or
`Upto(usent)`:

- what the destination has read;
- what is in flight to it;
- what `brw.Reader` holds (outbound only);
- what the source sent that the proxy has not read.

It also says two more things:

- `brw.Reader` is empty once the copies have started.
- A copy that ended with no deadline armed saw EOF on an empty stream.

Each step is its own lemma, and each lemma is a sequence identity:

- a copy or a peer's read moves the head of one stream to the end of the
  next (`MoveHead`, `CopyKeepsStream`);
- a send appends the next number (`SendKeepsStream`, `UptoProperties`);
- `drainBuffer` moves `brw.Reader`'s chunks to the end of the upstream stream
  (`DrainKeepsStream`).

`TunnelLossless` follows: a finished copy with no deadline has empty buffers
behind it. `HandlerJoinsCopies` follows from `DoneCount`: `Wait` needs
`donec = 2`, and `donec` is 2 only when both copies are `done`.

The refinement rests on `StreamInv` too. `InitRefines`: `Init` is a `Splice`
initial state. `NextRefines`: from `TunnelInv`, every step is a `Splice` step
or a stutter of the peers' variables:

- sends and closes are the same actions;
- the proxy's own steps (copies, drain, handler) change no peer variable;
- a peer's read (`UpRecv`, `ClientRecv` of `Tunnel`) takes the head of the
  stream in flight to it.

For the reads, `StreamInv` says `urecv \o p2u \o buf \o c2p = Upto(csent)`.
`PrefixUpto` shows that a prefix of `Upto(n)` is `Upto` of its length, and at
most `n` long. `HeadNext` then shows that the head of what follows is
`Len(urecv) + 1` and that `Len(urecv) < csent`, which is `Splice`'s guard.
`NextChunkOut` and `NextChunkIn` state this for each direction.

`LoggerProofs.tla` proves `EntryFromOneModeHolds`:
`~ConcurrentSet => (Spec => []EntryFromOneMode)`, for every set of modes and
every bound on calls. The hypothesis is the `logger` run's: the setters run
between calls. With concurrent setters the property is false, and TLC finds
the mixed entry. The strengthening `CallInv` fixes, for each statement a call
can be at, three things:

- what it has written to `b`;
- the `skipBody` it set;
- which returns it has passed.

All three are stated against the mode and the decoding setting in force.
Those cannot change during the call. Every statement that emits then hands
`l.log` exactly `Entry(call, mode, decode)`. The invariant also types `log`
and `b` as sequences of sections.

What stays with TLC:

- The liveness properties `CloseReturns` (under its premise `TunnelsEnd`)
  and `TunnelEnds`. TLAPS does not reason about fairness or `ENABLED` here.
- `EntryFromOneMode` with concurrent setters. It is false, and the hazard
  records it.
- The FIFO group properties: `RunFrom`, `Exec`, `ToImmutable` and `Render` are
  RECURSIVE operators, and what a recursive definition computes for every input
  cannot be proved with the installed provers.

## Not modelled

- Inside `handle()`: response writing, flush errors and the modifier calls.
  They are outcomes of `Serve`. The tunnel and the stream choice across MITM
  are separate modules (`Tunnel`, `MitmLoop`). In `Proxy` a tunnel is only
  the blocked `tunnel` state and its unfair `TunnelReturn`.
- A write error on the upstream side of a tunnel (`io.CopyBuffer` returning
  because `cw` failed). `OutCopy` always writes its chunk. Such an error ends
  the outbound copy early, like the read deadline that
  `tunnel_read_deadline` already shows.
- In `MitmLoop`, an HTTP/2 session (`H2Config().Proxy`) is not modelled
  apart. It is folded into the handshake-failure outcome: `handle()` returns
  an error to the loop, which stops or continues.
- The accept back-off delay (time).
- The FIFO group's verifier calls, which only forward.
- The non-atomic `ToImmutable` snapshot of nested groups.
- The logger's `SetLogFunc` and the entries' wording. The log package only
  formats output.
- Session/Context, MITM, traffic shaping, HTTP/2 and the API forwarder, whose
  sources are not under `src/`.

## Plan

1. Compose `Tunnel`'s copies into `Proxy`'s `tunnel` state, so that
   `TunnelsEnd` follows from the peers' fairness instead of being a premise.
2. `FifoGroup`: `ToImmutable` split per child, for its snapshot hazard.
   `VerifyRequests`/`Reset*` with verifier leaves.
3. Proofs: once `Tunnel` is composed into `Proxy`, that `Close()` still
   returns only after the tunnel's copies have ended.
