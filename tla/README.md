# A TLA+ model of deps.cloud

deps.cloud indexes source repositories, extracts the dependencies their manifest files
declare and answers queries about the resulting graph. This directory holds TLA+ models
of the parts of the system that carry its logic, the TLC configurations that check them
on small instances, and TLAPS proofs of the most important properties for all instances.

## 1. Inventory

| part | state | operations | talks to | what is hard | what makes it correct |
|---|---|---|---|---|---|
| v1alpha graph store (`tracker/internal/graphstore/v1alpha`) | one SQL table, soft deletion | Put, Delete, List, FindUpstream, FindDownstream | database (rw and read-only) | statements that fail alone in a transaction that commits, re-insertion of deleted rows, three dialects | it is a map from keys to data; what was put is visible |
| v1alpha source, module, dependency services (`services/v1alpha`) | none of their own | Track; ListSources, ListManaged, ListDependencies, ListDependents | graph store, over gRPC with retries | Track is several calls, interleaved with those of other sources; failures between them | the graph holds what each source last reported, and nobody removes a dependency another reported |
| v1alpha search service | one call: queue, seen set, channel, goroutine | Search, BreadthFirstSearch, DepthFirstSearch | the services above, a client stream | two goroutines, cancellation, cycles, a graph that changes | every module once, in order, nothing missing; both goroutines end |
| v1beta graph store and manifest storage (`graphstore/v1beta`, `services/v1beta`) | one SQL table; a Traverse stream per call | Put, Delete, List, Neighbors, Traverse; Store | database; each other, over a bidirectional stream | three parties on one stream with finite buffers; Put and Delete in two transactions | the stored edges are those last proposed, nothing of another source is removed, and no call waits for ever |
| indexer process (`indexer/main.go`, `consumer`) | channel, WaitGroup, scratch directories | feed, consume | remotes, git, extractor, tracker | worker pool, failure at every stage | the process leaves after all work, and leaves |
| indexer remotes (`indexer/internal/remotes`) | listings under way | FetchRepositories of five kinds of account | code hosting APIs | paging, errors in the middle of a listing, discovered organizations | everything configured is fetched, nothing else, and the fetch returns |
| deps CLI (`deps`) | one command, a page number | get modules, sources, dependencies, dependents, topology | gateway | topological sort of a cyclic graph; paging through a table that changes | tiers in order, modules complete; a listing has what was there, and ends |
| gateway (`gateway`) | one stream pair per search | unary and streaming proxies | tracker, extractor | two goroutines on two streams, cancellation and lost connections racing with responses | responses pass unchanged and in full, no failure looks like the end, goroutines of both processes end |
| server runtime (`internal/mux`) | signal channel, listeners, health | Serve | everything | graceful and forced shutdown, signals during the start, two servers that share handlers | requests under way finish, a second signal stops, backends outlive their callers, the health status follows the checks |
| extractor (`extractor`) | none | match, extract | indexer | parsers | each manifest goes to its extractor |
| configuration, client connections, checks | none | load, dial | | pure I/O | |

The indexer fetches the list of repositories, clones each, asks the extractor for its
manifests and calls Track on the tracker. The tracker's services use its graph store
through a gRPC connection with itself. Users query through the gateway; the topology
command runs a breadth-first search and sorts what it returns.

## 2. Modules

| module | models | composed of |
|---|---|---|
| `ItemStore` | abstract: a map from keys to data with calls that may fail partly | |
| `GraphStore` | the v1alpha store | implements `ItemStore` |
| `SourceService` | Track and the list queries | instantiates `GraphStore` for statements and joins |
| `Listing` | List of both stores and the paging of the CLI | extends `GraphStore`, whose calls run beside it |
| `Search` | the three searches with goroutines and client | |
| `GatewaySearch` | the gateway's streaming proxy | extends `Search`, the tracker's end of the stream |
| `Topology` | the topology command | takes what `Search` promises as its input |
| `Indexer` | main goroutine, workers, Consume | |
| `IndexerTracker` | indexer and tracker together | extends `Indexer`, instantiates `SourceService` with one handler per call |
| `Remotes` | FetchRepositories | |
| `ManifestStorage` | v1beta Store over Traverse and the v1beta store | |
| `ServerRuntime` | a tracker or gateway process | |
| `GraphStoreProofs` | theorems about the v1alpha store and the listings | extends `Listing` |
| `SourceServiceProofs` | theorems about Track | extends `SourceService` |
| `IndexerProofs`, `SearchProofs` | theorems about the indexer and the searches, alone and composed | extend `IndexerTracker`, `GatewaySearch` |
| `TopologyProofs`, `RemotesProofs`, `ManifestStorageProofs`, `ServerRuntimeProofs` | theorems about these components | each extends its module |
| `MC*` | instances for TLC | |

Definitions named "a mutant" in a comment are deliberately wrong variants of the
definition after them. They are used by nothing; `PROJECT.json` lists which property each
of them must violate.

### GraphStore

`table` maps the primary key `(graph_item_type, k1, k2, k3)` to the data and a flag for
`date_deleted`. `Put` and `Delete` are one transaction each: all statements take effect, or
(sqlite, mysql) any part with an error answer, because the code collects errors and
commits. On postgres the first error aborts the transaction. A tracker without a
storage-address answers with an error. `call` remembers the last call and its answer, as a
client sees it. The joins are `FindUpstream` and `FindDownstream`.

### Listing

One client pages through the items of a type, by page number as `deps get modules` and
`deps get sources` do (v1alpha) or by token (v1beta), while all calls of `GraphStore` go on.
Limits are clamped and offsets computed in integers of `Bits` bits as in the code. The
statements have no ORDER BY; the model takes the order in which the database reads the rows
(`order`, the pairs of keys of which the first comes first): on sqlite and mysql that of the
primary key in v1alpha, and in v1beta the order of insertion, which REPLACE changes. On
postgres it is the heap, where an update moves a row, and any order may follow a write
(`Orders`). A page is the set of rows whose number in that order, the count of those before
it, is in a window. `rows.Err` is asked nowhere, so a page can be cut short without an error
(`cut`). A v1beta tracker without a storage-address wraps a nil `*sql.DB`, which the code's
nil check does not notice; the model has an error answer for the panic that follows, which
changes no row either.
`begun`, `shrunk`, `grown` and `moved` remember what List could see at the beginning and
what happened to it since.

### SourceService

A handler goes through `readManages`, `readDepends` (one read per managed module, in any
order), `delete`, `put` and answers. Each read or transaction is one step, and the steps of
all handlers interleave. A transaction's answer can be lost, in which case it has or has
not taken effect, and Track returns an error or the retry interceptor repeats the call.
Two constants choose the environment: `Overlap` lets two Track calls for the same source
run at a time, and `PartialFailures` lets single statements fail. The manages edges that
leave a source count as that source's own, whoever put them: a file's `sourceUrl` makes
another source's Track put one, and the source's own Track finds it and takes it away when
it does not propose it. `OnlyOwnEdgesRemoved` is stated with this. An attempt takes effect
before it is answered or not at all (see section 5). Keys are digests in the code; the model takes them as collision free. Errors of `Encode` are not modelled.

### Search

One call with its handler, the goroutine of `consumeStream` (which reads one message and
ends, as in the code), the client and its context, and a graph from which Track removes
and to which it adds edges. `stable` and `ever` record the edges that were always and at
some time there. Queue, stack and next are sets because the store orders nothing.

### GatewaySearch

The handler of the gateway relays responses, a goroutine forwards requests, and `Search` is
the tracker's end: its client is the goroutine, its context ends with the handler's
(`CancelTracker`). The user may send, close, or be gone at any moment, and the connection
between the processes may break. `path` lets the same run check a direct client on larger
graphs. gRPC's flow control is left out here: both ends read all the time.

### Topology

Every response adds the module to the counters of the modules it lists; then tiers are
peeled off from the root. The input is every search over at most four modules.

### Indexer

Positions in the fetched list stand for repositories, so that one URL may occur twice.
`Consume` is tempdir, clone (with options, keys and walk), match, extract, track, cleanup;
every stage may fail.

### IndexerTracker

A worker's Track call becomes a handler of `SourceService`, known by the run and the
position of the repository. The connection may be lost during the call (`TrackLost`; the
handler goes on by itself), the indexer may be killed and run again (`Restart`), and the
tracker may be unreachable throughout, which lets the longer lists be checked without the
tracker's interleavings. The handlers make one call per source at a time only as far as
the indexer does: `Overlap` is TRUE, and `overlapped` records where it did not.
`PartialFailures` is a constant here too; `IndexedExactly` is about transactions that take
effect as a whole, and its run and theorem say so.

### Remotes

Listings are tasks done page by page. The kinds of account differ in the end of a listing
(told by the provider, or a page that is not full), in what a failed call does (ends the
listing, skips the page, fails the account) and in the discovery of organizations. Calls
fail now and then (at most `MaxFailures` of them), and always for the owners in `Unknown`,
which the provider does not have or does not show. Bitbucket then asks for one page after
the other without end (its pages are counted round `MaxPage`, so that the states stay
finite); a 404 is the end of the data to the generic remote (`GenericNotFound`). An
organization that is skipped is passed over when its turn comes (`SkipOrganization`). A
bitbucket repository is taken to have one clone link of the chosen strategy: the code
compares the number of links with the page size.

### ManifestStorage

`Handlers` are the Store calls that may be under way at a time; two of them may be for one
source if it is in `Overlapping`, which nothing in the service prevents for any source. GetStored sends the
requests of a tier over Traverse, receives the answers, goes one tier deeper, cancels; then
Put, then Delete. The stream can be lost or cancelled at any moment (`StreamLost`), which
ends the reader in Recv and the handler in its select, in a query or in a Send. On the
server's side a goroutine receives and passes requests to the handler through a
channel of capacity one. `Window` is the number of messages a stream takes in one
direction before Send blocks; with no window a Send completes when the receiver waits.
The table keeps live rows only, which is all the sqlite statements can tell apart.

### ServerRuntime

`main` walks through Action and Serve: backends, signal.Notify, listeners, the two servers,
and back through the defers. `stopper` is the goroutine for signals, `graceful` the one of
GracefulStop. Calls come in on the gRPC port (unary ones, whose handlers answer, and
streams, which need not end), as gRPC on the HTTP port (h2c), or as plain HTTP. The gRPC
server (grpc-go 1.33, the version in go.mod) is external: GracefulStop closes the
listener, drains and waits for its connections and panics on the connection of an h2c
call, for which draining is not implemented; Stop cuts everything off. A signal for the
unbuffered channel is dropped unless the goroutine is receiving. The health monitor is
reduced to its reports: on one check, or on all.

## 3. Runs

| run | checks | instance and why it is enough |
|---|---|---|
| `listing` | type; PutVisible; refinement of ItemStore; ListingExact; ListingEnds | sqlite, three nodes in pages of two, one edge under two k3, a writer and a reader: upsert, re-insertion and partial failure of every request, insertions and deletions between pages, integers just wide enough |
| `graph_store_postgres` | PutVisible, **violated** | two nodes and one edge under two k3 on postgres |
| `track` | type; NoOrphans; TrackedExactly; EndpointsLive; QueriesAgree | two handlers, two sources, two modules, five requests that overlap in modules, drop modules and dependencies, name the other source, depend on themselves; a new and an old (k3-less) database |
| `track_partial` | OnlyOwnEdgesRemoved | overlapping calls, of one source too, with transactions that commit in part and retries; a file of one source names the other |
| `search` | type; DiscoveryOrder; BreadthFirstComplete; TierOrder; RelayExact; SearchReturns; GatewayEnds | directly: three graphs of up to four modules with diamonds, cycles and short cuts, any root, one change of the graph, two client messages; through the gateway: one of them, two messages, every loss and cancellation |
| `search_depth_first` | DepthFirstComplete, **violated** | a root with two neighbours suffices |
| `topology` | TierSorted; OmittedOnlyBehindCycles; SortEnds | all searches over up to four modules |
| `topology_cycles` | EveryModuleListed, **violated** | a cycle of two modules behind the root |
| `indexer` | WaitGroupExact; ReturnsAfterAllWork; OneTrackPerSource; IndexedExactly; Terminates | two workers; with the tracker a run on two repositories that declare the same module and one on one, over what an earlier run left, with one lost connection or restart; without it lists from empty to longer than channel and workers together, with duplicates |
| `remotes` | FetchExact; FetchReturns | pairs of accounts of the five kinds, pages of two, listings of 0 to 4 entries (empty, partial, full, full then full), two failures; each kind with an owner that is always refused, as a user or as an organization |
| `manifest_storage` | type; ResponsesMatch; StoredExactly; NothingUnreachable; NoReaderLeft; CallGoesOn; ForeignRowsKept | two handlers, two sources, one of them with overlapping Stores, four modules, no window: tiers of three, which exactly fill goroutine, channel and handler, and of four, after a Store that failed between Put and Delete; lost streams and failures of every call |
| `server_runtime` | type; AbortedOnlyByForce; BackendsThereWhileServing; ShutdownEnds; HealthFollows | both programs, a call of each kind, failures of every start step, three signals (one more than the goroutine takes) at any time |

What the violated runs show:

* on postgres an item that was deleted and put again stays deleted, because the upsert
  does not reset `date_deleted`; a dependency that a repository drops and adds again is
  gone for good;
* a depth-first search loses the siblings of each node it pops (`stack = next`);
* the topology command leaves out modules on cycles that do not go through the root, and
  everything behind them. `OmittedOnlyBehindCycles` shows that nothing else is left out.

Two more ways to wait for ever are in the models as named exceptions of what is checked, and
TLC reaches both:

* a bitbucket account with a user or team that the provider refuses to list asks for the
  next page for ever, so that the fetch never returns and the accounts after it are not
  asked. `FetchReturns` shows that this is the only way not to return;
* a Store whose source has more modules than a Traverse call takes in before the client
  receives is stuck: client, goroutine and handler wait for each other. `CallGoesOn` excepts
  the sending of a tier of more than `2 * Window + 3` requests (both windows, the goroutine,
  the channel and the handler), and nothing else. The windows of gRPC are counted in bytes
  and are large, but the code has no other protection.

NoOrphans and TrackedExactly do not hold with `Overlap` or `PartialFailures`: two
overlapping calls for one source, or a Delete that removes a manages edge and fails on the
dependencies, leave dependencies that `getCurrent` cannot find again. `OneTrackPerSource`
shows when the indexer keeps its side of the bargain: if the list of repositories holds no
URL twice. Gitlab groups are deduplicated (a part of `FetchExact`); github organizations that
are both configured and discovered are not, and two accounts may return the same URL.
`IndexedExactly` shows what that is worth in the composed system: at the end of a run the
graph is what the tracker acknowledged, unless a call for the same repository was still at
work, left behind by a lost connection or by a run that was killed. Without that exception
TLC finds the graph wrong. `OnlyOwnEdgesRemoved` is what is left with overlaps and partial
failures; that EndpointsLive and QueriesAgree survive overlaps too is proved.

`ListingExact` has exceptions as well, and each is needed: v1beta loses items when a row is
deleted or put again between two pages, and in both versions an item can come twice
(v1alpha after an insertion, v1beta when it was put again). v1alpha lists deleted items. On
postgres, where a write can reorder the rows, TLC finds `ListingExact` violated; no doc
promises an order there, so that it is an assumption of the theorem and not a finding.

`AbortedOnlyByForce` names the panic of a graceful stop that meets a gRPC call on the HTTP
port: all other calls are then cut off after one signal. `SearchReturns` and `GatewayEnds`
except a tracker handler whose root never came: it waits outside any select.

StoredExactly and NothingUnreachable are about sources whose Stores do not overlap, whatever
the others do. Without that restriction TLC finds a Store that deletes the module another
one of the source has just put, and leaves dependencies behind that no traversal reaches.
`ForeignRowsKept` confines the damage to the rows of that source.

### Fairness

Goroutines are scheduled (weak fairness of the steps of a goroutine), nobody has to call,
send or cancel anything, and failures never have to happen. `SourceService` and
`ManifestStorage` are checked without fairness; that a Store can always go on is the
invariant `CallGoesOn`, which counts an error on a lost stream as a step, as gRPC and the
context see to it, and other failures not. A retried call is not repeated for ever (the
interceptor stops after five attempts). In `Indexer` and `Remotes` this includes that clone,
match, extract and track calls return: the code uses contexts without a deadline, so that is
an assumption about git and the servers, not something the indexer enforces. Calls of the
remotes return with a page or an error; those that can be answered fail `MaxFailures` times
at most, those of an owner in `Unknown` always. `Listing` assumes that the client goes on
with a listing. `GatewaySearch` assumes in addition that a cancellation
reaches the tracker, which gRPC sees to; nobody has to send, close or go away.
`ServerRuntime` assumes that unary handlers answer; streams, HTTP requests, signals and
monitor reports are under no obligation.

Deadlock is checked where the system is a server that goes on; searches, the topology
command, the indexer, the remotes and a process that has been stopped end.

## 4. Proofs

The theorems hold for any sets of keys, sources, modules, requests, handlers and calls and
for any bounds, under the ASSUMEs of the modules: shapes of the constants, and

* `WorkersAssumption` (`Indexer`): there are workers, finitely many;
* `FetchesAssumption` (`Indexer`): what a fetch returns is a finite list;
* `KeyAssumption` (`ManifestStorage`): digests keep sources, modules and the empty URL
  apart, and a node is not the cancel message (they are different fields of the request);
* `WindowAssumption` (`ManifestStorage`): there are finitely many modules, and windows of
  any size, none included;
* `KeyOrderAssumption`, `LimitsAssumption` (`Listing`): the keys of the items listed are
  finitely many and in a total order, the client asks for pages within the limits of the
  server (as `deps` does), and the table is shorter than the integers are wide;
* `ListsAssumption`, `PageSizeAssumption` (`Remotes`): providers hold finite lists (which
  they need not show), and a page has room for an entry.

Each invariant below was checked by TLC on the run's instance before it was proved.

| theorem | says | invariant, and why the property alone is not inductive |
|---|---|---|
| `GraphStoreProofs`: TypeCorrect, PutIsVisible, StoreImplementsMap | types in all dialects; without postgres, PutVisible and the refinement of `ItemStore` | the table seen through its live rows is the abstract map; a failed transaction is the partial step over the same keys |
| ListsExactly | ListingExact on sqlite and mysql, for every number of items and page size in the limits | `LInv`: what of the beginning has a number below the next offset is written out, and what is written out has one; see below |
| `SourceServiceProofs`: TypeCorrect, OnlyOwnEdges | no Track removes a node, a dependency of another source or a manages edge that leaves another source, whatever overlaps and fails; its own manages edges include those that other sources put | `FoundOwn`: what a handler has collected is its source, modules, its own manages edges and dependencies with its own or no k3 |
| EndpointsStayLive, DirectionsAgree | edges join live nodes, both joins agree, if statements do not fail alone and the initial tables are sound | `NodesKept`: no node is ever deleted |
| NeverOrphaned, TrackIsExact | NoOrphans, TrackedExactly, in orderly environments (one Track per source at a time, transactions that fail as a whole, not postgres, sound initial tables) | what a handler knows at each place: the manages edges it has found, the dependencies it has read, that nothing stale is left after its Delete, what it has stored after its Put |
| `IndexerProofs`: IndexerCorrect, EveryRunCorrect | WaitGroupExact, ReturnsAfterAllWork, OneTrackPerSource, of the indexer alone and of the composed system | a position is in the list, the channel or one worker's hands: `ChannelInOrder`, `JobsTaken`, `ScratchOwned` |
| RunsIndexExactly | IndexedExactly of the composed system, not on postgres, over sound initial tables and with transactions that take effect as a whole (`SoundDatabase`) | `SystemInv`: the facts of TrackIsExact for the sources without overlapping calls, and which handler belongs to which run and position |
| `SearchProofs`: SearchCorrect | types, DiscoveryOrder, BreadthFirstComplete | `Frontier` and `NothingDropped`: the modules seen are split into those sent, held back, queued and for the next tier, and stable edges out of the first two lead into them |
| GatewaySearchCorrect | the same through the gateway, with GatewayTypeOK and RelayExact | `RelayPhase`: what the gateway has received and not delivered is the one response in its hands |
| SearchInTiers, GatewaySearchInTiers | TierOrder, of the search alone and behind the gateway | `Tiers`: the queue is at one distance from the root, what is for the next tier one further, and everything nearer was seen |
| `RemotesProofs`: FetchesExactly | FetchExact | `FInv`: what an account wants is fetched, among the tasks left or, for the first task, on the pages still to come (`NothingMissed`); what is fetched is wanted (`Collected`); `GroupsOnce` |
| `TopologyProofs`: TopologyCorrect | TierSorted, OmittedOnlyBehindCycles | `Sorting`: a counter holds exactly the predecessors not visited yet, tiers have all theirs in earlier tiers |
| `ManifestStorageProofs`: ManifestStorageCorrect | types, ResponsesMatch, NoReaderLeft; StoredExactly and NothingUnreachable for the sources whose Stores do not overlap | see below |
| OnlyOwnRows | ForeignRowsKept | `OwnResults`: what a Store has collected is edges of its own source |
| `ServerRuntimeProofs`: ServerRuntimeCorrect | types, AbortedOnlyByForce, BackendsThereWhileServing | which places of main, the signal goroutine and the graceful stop go together, and what each means for listeners, backends and calls |

Track. The facts a handler knows survive the steps of the others because they concern edges
only this source's Track calls write, with one exception the proof has to treat: another
source may name this one in a file and add a manages edge between the reads. The chain is:
type invariant, then FoundOwn, then NodesKept and EndpointsLive (so that the joins see every
live edge), then NoOrphans and what the handlers know.

Listings. The number of a row (`Rank`) is the count of the rows before it; a window of
numbers within the table has exactly as many rows as numbers, because numbering is a
bijection, so that a page that is not full is the last one. In v1alpha the order is fixed
and rows only come into sight: numbers grow, and a row put off is still to come. Page
numbers never run ahead of the table, so that no offset wraps around. In v1beta nothing is
ever inserted before a row of the beginning; as long as none of them goes out of sight or is
put again, their numbers stay the same. That ListingExact has just these exceptions is what
the invariant needs in each step.

The composed indexer. Every step of `IndexerTracker` is a step of `Indexer`, leaves its
variables alone (a step of a handler in the tracker, a lost connection), or starts it over
(`Restart`), so that the invariant of the indexer is one of the whole. For what a run
leaves in the graph the argument of Track is repeated source by source: a source no two calls
of which have been at work at a time keeps the facts a handler knows, whatever happens to the
others, and the answer of its call in this run is the last one.

Tiers. `Ball` is a recursive function over the naturals. That it is the least family of sets
closed under the edges (`BallExists`, `BallSteps`) is proved by well-founded induction in the
form of least elements of sets of naturals, which needs no operator as a parameter.

The topology. The input of the command is a finished search of a graph that did not change
meanwhile (`WellFormed`): the modules the responses list have responses, all are reachable
from the root, and none lists itself (the joins leave such edges out). From that the proof
gets that a module other than the root has a predecessor, without which its counter could
be empty from the beginning.

Store. Calls of a source that is not in `Overlapping` come one after the other (`Apart`), and
three arguments meet in one invariant. *Count* (`Counted`, `Quiet`): while the server
is there, the responses awaited are the requests unsent plus the messages in flight, and
once it has left they are at least as many, so that a tier whose last response is received
has left nothing in any buffer; afterwards only the cancel is under way. A call whose
server has left may wait for a response that never comes, and cannot end its tier; as long
as the two numbers agree no answer is missing (`Complete`). *Search* (`Collected`,
`FoundAll`), for complete calls and sources without overlaps: at the first tier the source is still to be answered for or the
answer has every module that a dependency of the source leaves; at the second, each
dependency leaves a node not answered for, is in an answer, or is in the result. The step
from an answer to its completeness is where `NothingUnreachable` and `NodesThere` (Neighbors
is a join with the node an edge leads to) are needed. *Ownership* (`OwnResults`, `RowsKept`):
the Store of another source, and without overlaps no other is under way, writes and deletes
no row of this one's, apart from putting one of its modules. Together: what the Delete leaves of the source's dependencies is proposed,
and a module row goes only with all its dependencies, which is `NothingUnreachable` again.

Checked by TLC only:

* liveness: SearchReturns, GatewayEnds, SortEnds, Terminates, FetchReturns, ShutdownEnds,
  HealthFollows, ListingEnds (fairness is out of the prover's reach);
* CallGoesOn, which is stated with ENABLED; with the liveness properties, these are the
  properties of the passing runs that no theorem states;
* PutVisible on postgres, DepthFirstComplete and EveryModuleListed, which are violated.

## 5. Not modelled

* read replicas that lag behind: with a storage-readonly-address Track reads from the
  replica and can miss what the previous Track wrote;
* attempts that take effect late: the store begins its transactions without the context of
  the call (`server.go:108`, `:156` of v1alpha), so that an attempt the client has given up
  may still commit after its retry. In the models a lost answer is lost before or after the
  effect, and the retry comes after both;
* queries of Track that break off without an error (`rows.Err`): in `SourceService` a read
  succeeds or fails as a whole;
* the v1beta inserts of mysql and postgres: they name a table and columns that the
  migrated schema does not have and cannot succeed; List of v1beta with a page size of 0,
  whose token never moves (the caller sets the size);
* Neighbors of v1beta against the direction of the edges, which nothing calls;
* gRPC's flow control outside `ManifestStorage`; the unary proxies of the gateway, which
  forward one call each; the HTTP server, which nothing stops but the end of the process;
* the extractor: matching of paths and parsers of manifest files, stateless text
  processing; TLS and configuration files, flags and generated code.

## 6. Plan

Every safety property a passing run checks is a theorem, apart from CallGoesOn. What could
come next is a model of late commits, of the replica behind a storage-readonly-address, once the code says what Track may
expect of it, and of queries in Track that break off without an error.
