# Formal models of zona

`zona` is a system for servers that find and talk to each other without a centre (`zona-p2p`, Rust), together
with a learning side process (`zona`, Rust) that an ASP.NET host starts and teaches (`Zona.ProxyLib`, C#).  This
directory holds TLA+ modules of its stateful core, TLC configurations that check them on small instances, and
TLAPS proofs of what matters most.  `PROJECT.json` maps every definition to the lines it models.

Run TLC with `tlc -config X.cfg M` and the prover with `tlapm M.tla`; the pairs are in `PROJECT.json`, "runs".

## 1. Inventory

| component | source | state | operations | interacts with |
|---|---|---|---|---|
| validator sets, certificates, epoch headers | `zona-p2p-bft/src/{validator,certificate,epoch}.rs` | none (pure checks) | `ValidatorSet::new`, `verify_quorum`, `verify`, `verify_next_set` (`verify_current_set` and `verify_epoch_chain` are called by tests only) | called by full nodes and light clients |
| full-node finality | `zona-p2p-bft/src/state.rs` | finalised height and hash, epoch, validator set, status, divergence counter (u32) | `apply_certificate`, `advance_epoch`, `record_divergence`, `resume_finality` | certificates of validators |
| light client | `zona-p2p-bft/src/light_client.rs` | best header, validator set, pending reports by header, checkpoint flag | `observe`, `advance_epoch`, `provide_external_checkpoint` | several channels, each with a referrer |
| routing table | `zona-p2p-types/src/slots.rs`, overlay `recovery.rs`, `peers/pex.rs` | G-, L- and D-slots, replacements of the tick | `try_insert`, `apply_candidates`, `record_probe`, `evict_dead`, `reset_tick`, `evaluate_recovery` | every handler that learns of a peer |
| introductions and start-up | `zona-p2p-node/src/{main,admin}.rs`, `zona-p2p-server/src/server.rs` | table, URLs, where the start-up is | two rounds of `do_introduce` with retries, `handle_introduce`, listen | HTTP calls between nodes |
| message relay | `admin.rs` and `server.rs` (`do_relay`), overlay `routing/xor.rs`, zona-curl `p2p.rs` | open calls, the path in the message | next hop, fan-out, delivery, answer | chains of nested HTTP calls |
| request and response | `server.rs` (`send_and_wait`, `deliver`), `http_api.rs` | correlation counter, pending map, channels | send, deliver, time out, give up | relay in both directions |
| training store | `zona/src/{store,teach,training_status}.rs` | samples by route, completion flag, session, `train_store.json` | record, status, load, save, reset | host over HTTP |
| teach pipeline | `Zona.ProxyLib/*.cs` | queue, gate, worker, poller, child process | measure, enqueue, post, poll, close the gate, start and stop zona | zona over HTTP |
| overlay node and envelopes | `zona-p2p-node/src/node.rs`, overlay `repair.rs`, `routing/critical.rs`, `limits.rs`, `descriptor_store.rs` | table, caches, quorum trackers, rate windows | `handle_envelope`, forward, repair, critical sends | simulator network |
| network simulator | `zona-p2p-sim/src/lib.rs` | nodes, one queue of envelopes, partitions | introduce, enqueue, step, drop, repair, kill | overlay node |
| zona-curl | `servers/zona-curl/src/{main,serve,p2p}.rs` | peers of the bootstrap, one blocking thread per request | `run_serve`, `run_fetch`, `bootstrap_peers`, `serve_one_bytes`, `relay_sync` | relay, zona-dns, proxy-server |
| zona-dns, proxy-server | `servers/{zona-dns,proxy-server}/src/main.rs` | the zone table (fixed at start) | `load_zones`, `lookup`; `do_upstream_request` | handlers of a node server |
| mask profiles and signature samples | `zona/src/{mask_profiles,signature_synth}.rs` | none (reads the training store) | `mask_profiles`, `signature_samples`, percentiles, byte synthesis | training store while it is taught |
| the rest | crypto, transport, gossip, hello-server, client, installer, scripts | none or I/O | | |

What is hard here, and what makes each part correct:

* **BFT.** Nodes and clients receive certificates and epoch headers in any order, and compare no block hashes:
  agreement rests on the quorum threshold and on following the epochs correctly.  Correct means one block per
  height for everybody, forever, under a third of faulty weight.
* **Routing table.** A long sequence of insertions must keep the limits of each kind of slot and of each referrer at once and
  never lose the closest peer.
* **Start-up.** Nodes introduce themselves before they listen, to nodes that do the same.  Correct means that
  everyone listens in the end and that whoever is in a table can be called.
* **Relay.** Nested synchronous calls over connections that break or hang, most of them without a time-out.  Correct means
  truthful answers, no duplicates without a fault, a search that ends, and an answer for everybody who can give up waiting.
* **Request and response.** A timer races a late response; identifiers are reused by other processes.  Correct
  means that a call gets the response to its own request and leaves nothing behind.
* **Overlay node.** Descriptors arrive by four ways in any order, critical messages in copies over two paths, everything
  may be lost.  Correct means stores that agree once they have heard the same, messages that are accepted on copies of their
  own only, delivery at the destination.
* **Pages through the overlay.** A thread per request tries one peer after another over calls that break or time out
  while what they carried goes on; the client's time-out for a fetch is as long as the proxy's.  Correct means an answer for every
  request, from the proxy of its own host, and no repetition at the web server without a break.
* **Profiles.** Sorting, interpolation and two roundings over samples with gaps, asked while more arrive.  Correct means
  that what is published has the rank it claims.
* **Teaching.** Five loops in two processes that crash and restart; a flag that is read field by field, cached in
  another process and never reset.  Correct means no sample counted twice, none lost by a crash, a flag that
  agrees with the data, and teaching that ends when training does.

The hazards behind this list, each at its line and with the properties that cover it, are in `PROJECT.json`.

## 2. Modules

    ValidatorSets ──┬─ Votes ──┬─ BftState ────┬─ BftNetwork ── MCBftNetwork     FinalityLog (abstract)
                    │          └─ LightClient ─┘
                    └─ VerifyQuorum ──────────────┐
    MaskProfiles ─────────────────────────────────┼─ MCAlgorithms
    Synthesis ────────────────────────────────────┤
    TrainStore ───── TeachPipeline ───────────────┘
    Slots ──┬─ Introductions ─────────────────────┬─ MCNodes
            ├─ XorRouting ──┬─ Relay ─────────────┘
            │               └─ CriticalRouting ─┐
            │  DescriptorStore ─────────────────┴─ Overlay ──┬─ MCOverlay
            └─ PeerTable ────────────────────────────────────┘
    Rpc ────────┬─ MCServices
    HttpProxy ──┘

An MC module runs several specifications side by side, to share a run: a behaviour is about one of them (`checks`), and the
others stutter.  Each proof module extends what it is about: `BftProofs` (BftNetwork), `AlgorithmsProofs` (VerifyQuorum,
MaskProfiles and Synthesis), `TablesProofs` (PeerTable and Introductions), `RelayProofs`, `RpcProofs`, `OverlayProofs`,
`HttpProxyProofs`, `TeachProofs` (TeachPipeline).

Definitions carry the names of the functions they model.  A call that returns an error or `false` without a change
is a stuttering step.  Operators that begin with the comment `Mutant:` are plausible bugs; no specification uses
them; each makes the property that `PROJECT.json` pairs it with fail.

**ValidatorSets, VerifyQuorum.**  A digest is the value that was digested (there are no collisions), a signature list is the
set of its signers.  The `set_hash` of a validator set is a field of its own: `ValidatorSet::new` (`NewSet`) computes it, a
deserialised set carries what its sender wrote, and `verify_next_set` compares it without computing it again; `WellHashed`
says that it is the digest of the contents.  That the second abstraction is right is itself checked and proved:
`VerifyQuorum` runs the loop of `verify_quorum` over lists with duplicates, unknown signers, bad signatures and sums that
wrap, then adds up the entries one by one as `total_weight` does (`AddWeight`), and `LoopDecidesQuorum` says it decides the
set-level rule when validators are listed once and twice the total fits the integer (`Fits`; the code has no such check).

**Votes** is external: the consensus rounds are not in the repository (`lib.rs`, "What this crate does NOT
include").  A correct validator signs one block per height in its epoch; a Byzantine one has signed everything.

**BftState, LightClient, BftNetwork.**  One action per method, for any number of nodes and clients.  `finalised`,
`accepted`, `diverged`, `provided`, `lone`, `misled` and `lc_misled` are histories that only properties read.
`CandidateSets` are the sets that callers hand to `advance_epoch`: sets of any epoch, and one of other validators that
carries the digest of the next epoch's set.  It is adopted (run `bft_other_set`); its reader joins `misled` and has left
what `EpochFollowsChain`, `Agreement` and the refinement speak of, with the guarantees of all other readers unimpaired.  **FinalityLog** is the
abstract specification: a log with one block per height and readers whose heads move up; `BftNetwork` implements
it with "decided" as "has a quorum of signatures" and "head" as the node's finalised or the client's best header; a
reader that is misled leaves the log.

**Slots, PeerTable.**  A table is a set of slots and the replacement counter; XOR distances are a constant matrix.
The EWMA loss is one of three levels that the thresholds separate.  `PeerTable` exposes the whole interface.

**Introductions.**  `call[n]` is the one HTTP call a starting node has open; the callee registers the caller in one
step and the caller reads the answer in another, so an answer may be lost in between.  In round 1 an attempt that yields no
neighbour, by failure or by its answer, is repeated up to `MaxAttempts` times (`RetryOrProceed`).  A caller that asks with
`register_peer = false` changes nothing at the callee and is not a separate action.  `crash` restarts a node with
the same identity and an empty table.

**XorRouting, Relay.**  A message is a tree of open calls named by their routes; `path` is the visited list in the
request.  The three originators are values of `Origins`: a client (`relay_sync`), a server (`send_and_wait`, which does not
read the answer: `Report`) and a node (`POST /api/send`).  A broken connection lets the caller and the callee both go on.  An
exchange may also hang (`Stall`), which shows when its answer is due; nodes and servers then wait, as their requests have no
time-out (`reqwest::Client::new()`), and a client goes on to its next peer when its own time-out strikes (`TimesOut`).  Tables are arbitrary and fixed while one message travels.

**DescriptorStore, CriticalRouting, Overlay.**  The two first are operators: the merge of descriptors, the choice of two
first hops and the quorum tracker.  `Overlay` is a network of `Node`s over the simulator's queue: one action per kind of
message that `handle_envelope` takes (`hello` ... `invite`), each with the whole of its effect on `table`, `store`,
`quorum`, `limits` and the messages it returns; `discard` (a receiver that is gone, a signed message of an unknown sender),
`lose` (a drop or a partition) and the calls that put messages into the queue (`introduce`, `enqueue`, `relay_user_data`,
`send_critical`, `repair_tick`), fill a slot (`insert_long_jump`), confirm a descriptor or remove a node.  Content hashes
are numbers, so that the tie-break of the merge is decided by data; the signature of a descriptor verifies or does not;
`Vec` positions in the table are not kept, so "the first slot" is any slot.  A rate window may be over whenever it is
looked at.  `heard`, `introduced`, `delivered`, `copied_by` and `accepted` are histories.  `dest` in user data is
where its sender wants it; the code has no such field, which is one of the findings below.

**HttpProxy.**  zona-curl, zona-dns and proxy-server around the relay.  `args` is one of several command lines, `zones` any
table that `load_zones` may build (a `HashMap` decides between two spellings of a domain), `thread[r]` the blocking task
of request `r`: its leg (`dns`, `proxy`), the peer it tries and the state of that call.  `fetch` is `serve` with one request.
`deliver` is the dispatch at the destination, `do_upstream_request` the handler of the proxy, `return` the reading of the
answer.  `client_gives_up` (a time-out or a broken connection) and `hop_breaks` (a broken connection further on) leave a copy
in `orphans`, which `orphan_ends` delivers or drops.  `stops` removes a node for good: a server that starts again has a new
key pair.  Command lines that are refused for their scheme, URL or TLS files end like those with a malformed identifier.
`upstream` and `faults` are histories.  How a message finds its way is module Relay's; here a peer reaches a node or not.

**MaskProfiles, Synthesis.**  `routes` is the store as the two endpoints read it, under one lock per call, and a sample its
measurements, each with its position: sorting is given by the place of each position (`Rank`), the number of measurements
that come before it, which is what a stable sort computes.  Floating point numbers are exact fractions, so rounding is that of the code up to the last binary digit; the
score keeps the argument of its exponential, which decides the order.  Entropies, ratios and the histograms of requests go
through the same functions as the measurements that are kept.  `Synthesis` counts ones while `adjust_ones_ratio` draws bits,
then classes bytes by their role in UTF-8 sequences of two; `from_utf8_lossy` is the standard library's and external.

**Rpc.**  Calls of several servers, with correlation ids per process.  The network may lose requests and responses
and repeat requests (the relay's duplicates); the timer may fire before or after a response; a process may restart;
an HTTP client may hang up, which drops the handler at its await.

**TrainStore, TeachPipeline.**  A sample is the request it was measured on.  A teach call is `InvokeAsync` (gate read),
`TryEnqueue` (after the body statistics), `ReadSignal` (gate read again), `PostAsJson`, `teach` and `PostEnds`; a
status is read by zona in three steps because `training_status` takes a lock per field; the fields of which no
property speaks are read in the same order and left out.  `save_to_disk` is atomic (temporary file and rename) and
may fail; an unreadable file counts as empty, as `from_env` treats it.  When zona is the host's child it dies with
the host.  For a host that crashes this is true on Windows only (the job object of `ZonaWinJob`; on Linux
`src/README.md:185` relies on an explicit stop): a child left over by a crash, beside which the next one resets the file in
`from_env` before it fails to bind, is not modelled, nor is a hand-started zona beside a host that starts its own.  The
file that `Init` finds was written under thresholds at most as low as now: the completion flag is never lowered,
so thresholds that are raised between two runs separate it from the samples by design.

## 3. Runs

| run | checks | bounds | shows |
|---|---|---|---|
| `bft_network` | TypeOK, Agreement, EpochFollowsChain, EpochsOrdered, DivergencePauses, CheckpointsSpentOnce, PendingIsLive, ImplementsFinalityLog | 1 node, 1 client, 3 weighted validators of which 1 Byzantine, 3 heights (two of epoch 0), 2 epochs, 2 blocks, at most 2 votes of correct validators, candidate sets of 3 epochs and one with a foreign `set_hash`, by which the node or the client is misled, not both, 2 channels, 1 checkpoint, counter modulo 2 | a node and a client, in any order of certificates, rotations and pauses, implement one log |
| `algorithms_and_teaching` | LoopDecidesQuorum, ProfilesAreQuantiles, ExampleFitsVariant; RecordedOnce, CompleteMeansReady, StatusNeverOverclaims, AtMostOneLate, HaltMeansComplete, GateCloses | lists of 4 signatures, integers modulo 16; 4 samples of 4 kinds on 2 routes; lengths around that of the marker, shares of ones from none to all; teaching: 4 requests on 2 routes, both modes, both ways to start zona, a file of an earlier run, 1 restart, 1 exit, 1 failed exchange, 1 disk error | the loop decides the rule at each residue modulo 3; profiles have their ranks; examples have their ones and their marker; counting, persistence, and the end of teaching |
| `overlay` | QuotasHold, OneReplacementPerTick, ClosestSurvives; TypeOK, StoreIsBest, IntroductionSurvivesLoss | one table: 4 ids, 3 G-slots, 2 referrers; or 3 nodes that talk and one that does not, strangers or all acquainted, 2 calls from outside and everything that follows from them, 1 loss, 3 announced descriptors (newer, lower hash, invalid), windows of 1 | the quotas of a table by kind and referrer, and its total up to 3 G-slots; stores do not depend on order, a lost Hello is made good |
| `nodes` | KeepsClosest, EverySlotHasUrl, EveryNodeListens; ReportIsTrue, OncePerFault, EveryMessageAnswered | 4 nodes, 2 G-slots, 2 attempts, 1 crash; or a message of a client, a server or a node among 4 nodes with every knowledge of each (of a client: the third node knows at most the destination), 1 broken or hanging connection | tables after start-up; nobody waits for ever for a seed; truthful, ending search |
| `services` | OneCallerAnswersMatch, FinishedLeavesNothing, WaitsNoLongerThanTimer; OncePerBreak, PagesAreReported, RightProxy, EveryRequestAnswered | 3 calls of one server, 1 repeated request, 1 hang-up, 1 restart; or 2 requests at a time, 2 bootstrap nodes, a zona-dns node, 2 proxies, a node with a catch-all handler, 8 command lines, 1 break or time-out, 1 node that stops | each call gets its own answer, cleans up and does not outwait its timer; each request is answered, by the proxy of its own host, and repeated at the web server only after a break |

Two of everything that is compared (blocks, readers, channels, epochs, servers, routes) is where the disagreements
live; counters that wrap have a modulus small enough to wrap; the candidates for G-slots exceed the slots; one fault of
each kind at any point is what the code handles one at a time.  The symmetry in the BFT runs permutes blocks, which
the specification treats alike; no liveness is checked there.

Deadlock is checked where the system runs for ever (the BFT network); a node that listens, a message that was answered, a
call that returned, a list that was processed or an overlay whose queue is empty has nothing left to do.

### Findings (runs that must fail)

| run | property | what the code does |
|---|---|---|
| `bft_other_set` | NeverFedAnotherSet | `verify_next_set` compares a deserialised `set_hash` that nothing computes again, so a set of other validators with the committed digest is adopted |
| `table_health` | HealthyHasTwoReferrers | health counts the referrers of dead slots |
| `table_diversity` | DiversityStaysDiverse | a G-slot that comes after the D-slot may share its referrer |
| `overlay_delivery` | DeliveredAtDestination | each hop overwrites the address of a relayed message, so the first hop takes it for its own |
| `overlay_copies` | AcceptedFromOneSender | copies are matched by a number that every sender counts for itself, so messages of two senders are accepted as two copies of one |
| `rpc_mutual` | AnswersMatch | a request of another server with the same number is taken for the response |
| `rpc_max_wait` | CallReturns | the timeout starts after the first hop's answer, for which there is none |

Each quotes the contradicted line in `PROJECT.json`.

Observations from modelling that have no run of their own:

* `try_insert_greedy` does not look at `MAX_TOTAL` ("Maximum 5 permanent slots", `slots.rs:66`).  Nodes and servers set
  `max_greedy = 5` (`main.rs:70`, `server.rs:145`): an L-slot, a D-slot and then five G-slots make seven.  `QuotasHold` bounds
  the total for up to three G-slots, where the limits of the kinds imply it.
* `do_introduce` registers every neighbour it is told of, the node itself included; a node with one real peer can so
  count two G-slots and be Healthy.
* Correlation ids start at 1 in every process: after a restart a late response of the old process answers a new call
  (`OneCallerAnswersMatch` excludes restarts for this reason).
* A handler dropped because its client hung up leaves its pending entry for ever (`FinishedLeavesNothing` speaks of calls
  that returned, and holds), so the entries of such calls accumulate.
* The path of a relayed message contains its originator and the nodes that relay it, but clients and `send_and_wait` do not
  add the first hop, so the message can come back to it, though `admin.rs:394` says "so they won't relay back to us".  No
  property claims that a message visits no node twice.
* Every Hello is answered by a Hello, so two overlay nodes that were introduced greet each other for ever.  The answer to a
  FIND_NODE may name the node that asked, which then inserts itself into its own table.
* No handler of the overlay fills the L-slot: FoundNodes inserts G-slots only, though the comment of `repair_tick` says the
  answer "will fill the slot".  A peer exchange stores no descriptors, so its peers' signed messages are dropped.  `Node`
  never calls `reset_tick`, `evict_dead`, `check_ping` or `clear`.
* Critical copies go to two nodes, each addressed by its copy, so no node gets two copies of one message; a quorum is only
  reached when message ids of two senders coincide (`overlay_copies`).  An accepted message is forgotten, so a further copy
  opens a new entry: the receiver does not deduplicate by id (`messages.rs:26`).
* The invite quota is "per rolling 24 h" in `limits.rs`; its window is fixed and starts with the first invitation.
* With both `--proxy` and `--dns-node`, zona-curl asks zona-dns first and fails the request when the look-up fails, though it
  would not use the answer ("If set, overrides DNS for every request", `serve.rs:53`).
* Any answer of a peer ends `relay_sync`, "not delivered" included, so a peer without a way to the proxy fails a request that
  the next peer could deliver; a peer that is down does not.
* The queue of the teach pipeline is unbounded while zona answers slowly; the code promises no bound.
* The gate of the teach pipeline never opens again.  A zona that was run by hand without `ZONA_DATA_DIR` and restarts has
  learned nothing and is taught nothing (`HaltMeansComplete` is checked with a data directory and a disk that works).

### Fairness

* `Overlay!FairSpec`: weak fairness of `step`: the simulator takes what is queued, in order.  Losses are bounded, calls from
  outside are not assumed.
* `Introductions!IntroFairSpec`: weak fairness of each node's own start-up steps.  `main` is a sequential program; a refused
  connection fails at once, a call ends within its time-out of five seconds, and every loop in it is bounded.
* `Relay!RelayFairSpec`: weak fairness of `Progress`: a handler that holds a message goes on, an answer arrives unless its
  exchange hangs, and a client's time-out strikes when it waits on one.  That a connection breaks is never assumed, and nothing
  ends the wait of a node or a server on an exchange that hangs: `EventuallyAnswered` promises them no answer then.
* `Rpc!RpcFairSpec`: a task's own steps and its timer.  That a post ends is not assumed, as the code does not enforce it (its
  client has no time-out): `WaitsNoLongerThanTimer` speaks of calls whose post has ended, and `rpc_max_wait` shows that
  others may wait for ever.
* `HttpProxy!FairSpec`: weak fairness of each request's own steps.  Each has a thread of the blocking pool, and every call in it
  ends within the client's time-out, the request to the web server within `upstream_timeout_secs`.  Breaks and stops are bounded
  and never assumed; a call whose peer or destination has stopped ends without using up the bound.
* The `MCSpec` of an MC module has the fairness of the specifications that it runs, each for its own behaviours.
* `TeachPipeline!FairSpec`: weak fairness of the poller's steps.  It is a loop with a delay, and every request ends
  within the client's three seconds.  Nothing is assumed of requests, worker, crashes or restarts.

## 4. Proofs

Every safety property that a passing run checks is proved for every value of the constants, about the component's own
specification.  The `ASSUME`s say what the code takes for granted: identities are finitely many and `Distance` is a matrix of
naturals with a zero diagonal and no two equal entries in a row (what XOR gives); weights are naturals, at most a third of each
epoch's weight is Byzantine, and the log's sets have the right epoch numbers and their own digests; tables, seeds, callers, descriptors and lists are made of
identities; thresholds, windows and slot counts are positive (`from_env` of zona takes no other `min_samples`); weights and measurements are
naturals, shares of ones are hundredths, and an absent value is not a number.  Bounds of the runs (faults, restarts, messages) are any naturals.

| module | theorems | inductive invariant, and why it is needed |
|---|---|---|
| `BftProofs` | QuorumIntersection | Weights are counts of units, so they are additive over disjoint sets; two sets of signers that reach the threshold share a correct validator.  The `+ 1` of `quorum_threshold` is used here |
| | TypeCorrect, EpochsFollowChain | `TInv`: neither is inductive alone; the type of `epoch` after `advance_epoch` needs that the next set is one of the log's or a foreign one of its epochs, which needs the type.  Two sets that carry their own digests and agree on them are equal (`DigestsTell`); readers that took another set are left out |
| | AgreementHolds | `AInv` adds one vote per height of a correct validator and that all that readers who are not misled ever settled is backed by a quorum; backing survives later signatures |
| | PausedUntilResumed | `PInv` adds that the counter of an active node is zero: at a counter about to wrap a divergence would not pause |
| | EpochsStayOrdered | `OInv` adds that what a node finalised lies at or below its head |
| | CheckpointsAreSpent, PendingStaysLive | `CInv` on top of `AInv`: pending sets are finite, so that the set of single-channel headers can be counted |
| | RefinesFinalityLog | every signature is a decision or a stutter, every certificate that is applied moves one reader up, a foreign set makes its reader leave; "decided" is "backed", and unique by `AInv` |
| `AlgorithmsProofs` | LoopDecides | `LoopInv`: the loop has seen the signers of a prefix, all of them known and genuine, and accumulated the weight of that set; the sum of a prefix of the entries is the number of its weight units (`Listed`).  The steps of the two loops are the induction |
| | ProfilesHold | `ProfileInv`: an answer that is still the last was made of the samples that the store has now, and a route that is served has some.  The rest is about the operators: the positions of a list are totally ordered by value and position, so a place has exactly one position (`PlacedRank`), the sorted list rises and as many measurements lie at or below a place as its number (`SortedCounts`); a percentile lies between two neighbouring places (`PercentileBetween`) and rises with its rank (`PercentileRises`); rounding keeps whole numbers on their side (`Rounding`), so a rounded percentile still has its rank (`RoundedRank`) |
| | ExampleFits | `SynthInv`: the count of ones stays in range and the search stops only at the wanted count or out of draws; the text is numbered by the bytes that are not swallowed, and none of the marker is (`MarkerStays`) |
| `TablesProofs` | QuotasKept, DisplacedOnce, ClosestIsKept | `TInv`.  A peer exchange inserts three candidates in one step, so each insertion is a relation `Effect(t, u)` between tables that composes.  The total follows from the limits of the kinds for up to three G-slots (`TotalBounded`) |
| | ClosestAreKept, SlotsHaveUrls | `IInv`: `TableOf(n, t, known)` says what a table is worth relative to the peers it was told of; an answered call carries at most three peers |
| `RelayProofs` | DeliveredOncePerFault, ReportsTrue | `RInv`: deliveries cannot be bounded by following the originator, as a break leaves a subtree that goes on.  Every tree that goes on has one live route; a step moves it, a break or a client's time-out adds one, a delivery ends one (`Ledger`); an exchange that hangs moves nothing |
| `RpcProofs` | NothingLeftBehind | `EInv`: a pending entry belongs to a call that waits and whose channel is empty |
| | AnswersMatchForOneCaller | `MInv` adds that the ids of a server that has not restarted differ, that a packet carries the id of its own call, and that a response was handled |
| `OverlayProofs` | OverlayTyped, StoreIsMerge | `OInv`.  Messages are made from tables and stores and change them, so the three types are proved together.  Stores: `MergeOf(S, H)`, each identity has one entry, preferred to all that was heard of it; it rests on the merge rules being a strict total order on valid descriptors (`PreferOrder`), which equal content hashes of different contents would break.  Trackers: an entry that waits has at most one copy |
| `HttpProxyProofs` | AskedOncePerBreak, PagesReported, ProxyIsRight | `HInv`: an account per request of how many requests to the web server have happened or can still happen without a further break |
| `TeachProofs` | CompleteIsReady, SampleRecordedOnce | `SInv`: flag and samples agree in memory and on disk; `RInv` adds that a sample is in one place only: queued, in the worker's hand, posted or stored |
| | StatusTrue, OneLatePost, ClosedGateIsRight | `GInv` adds what each step of the poller has already read, relative to the store that may have grown since |

`ClosestIsKept` and `RefinesFinalityLog` are about steps (`[][A]_v`, or an abstract specification), the others about states.

Sorting, filtering and reading text are functions of whole lists, and induction over lists is outside the prover's reach.
`AlgorithmsProofs` does without: a finite set with a total order is numbered by how many elements lie at or below each
(`Below`), that numbering is injective and, by counting, onto (`BelowInjective`, `BelowOnto`), and sorted lists, filtered
lists and texts are all given by such a numbering.

Model-checked only:

* liveness, which is outside the prover's reach: GateCloses, EveryMessageAnswered, EveryRequestAnswered,
  WaitsNoLongerThanTimer, EveryNodeListens, IntroductionSurvivesLoss.

## 5. Not modelled

* Cryptography, framing, gossip placeholders: hashes and signatures are perfect, connections deliver, break or hang.
* `verify_current_set` and `verify_epoch_chain`: read-only checks that nothing calls but tests.
* The simulator's sandbox and Docker backends (process control), its route tracing (read-only) and nodes that join later:
  a node without acquaintances is one that has just joined.
* The histogram by which bytes are drawn (any byte may come) and query canonicalisation: text without state.
* TLS, headers and output of zona-curl, hello-server, the interactive client, installer, scripts: I/O.
* Overflow of `u64` weights beyond `VerifyQuorum`'s `Fits`, and of correlation ids (`u64`).

## 6. Plan

1. *Done:* BFT with agreement proved; table; start-up; relay; rpc; overlay; teaching;
   pages through the overlay; profiles and examples; the safety of all of these proved.
2. *Composition* of the table under ticks with introductions and relay: routes while tables change.
3. *Proofs:* `next_hop` brings a message strictly closer, so that the simulator's `trace_route` and `can_route` end before their
   limits.
