--------------------------- MODULE IndexerTracker ---------------------------
(***************************************************************************)
(* The indexer and the tracker together: a worker that comes to its Track  *)
(* call becomes a client of SourceService, whose handlers work on the      *)
(* graph store, and waits for the answer.  The connection can be lost      *)
(* while the handler works: the worker goes on with an error and the       *)
(* handler finishes, or fails, by itself.  A tracker that cannot be        *)
(* reached answers every call with an error.                               *)
(*                                                                         *)
(* The indexer runs again and again (it is deployed as a cron job): a run  *)
(* starts when the one before has ended or was killed, while handlers of   *)
(* that one may still be at work.                                          *)
(***************************************************************************)
EXTENDS Indexer

CONSTANTS Sources, Modules, Refs, NoRef, NoKey, Driver, PartialFailures,  \* as in SourceService
          Requests,        \* what Extract may find in the repositories
          InitialTables,   \* what earlier runs of the indexer have left
          TrackedFetches,  \* the lists each run may get if the tracker is reachable
          MaxTracked,      \* the length of the longest of them
          MaxFaults        \* how many connections are lost and runs repeated

VARIABLES run,             \* the number of this run
          reachable,       \* whether the tracker is there
          table, pc, req, currentSet, unread,   \* as in SourceService
          lost,            \* the calls whose client is gone
          faults,          \* how many there were
          overlapped,      \* the sources two calls were at work on at a time
          answered         \* what Track answered

MaxRuns == Len(TrackedFetches)

\* A call is known by the run and the position in its list.
TrackCalls == (1..MaxRuns) \X (1..MaxTracked)

\* Each call has a handler of its own.
T == INSTANCE SourceService WITH
       Handlers <- TrackCalls, Overlap <- TRUE

trackerVars == <<table, pc, req, currentSet, unread>>
callVars == <<run, reachable, lost, faults, overlapped, answered>>
allVars == <<vars, trackerVars, callVars>>

ASSUME TrackedAssumption ==
  /\ MaxTracked \in Nat /\ MaxFaults \in Nat
  /\ TrackedFetches \in Seq(SUBSET Fetches) /\ TrackedFetches # <<>>
  /\ \A n \in 1..MaxRuns : \A f \in TrackedFetches[n] :
       Len(f) <= MaxTracked /\ \A i \in 1..Len(f) : f[i] \in Sources

\* The tracker's keys, requests and tables, as SourceService assumes them.
ASSUME TrackerAssumption ==
  /\ PartialFailures \in BOOLEAN
  /\ Sources \cap Modules = {} /\ NoKey \notin Sources \cup Modules
  /\ Requests \subseteq T!SourceRequests
  /\ \A t \in InitialTables :
       /\ DOMAIN t \subseteq T!ItemKeys /\ T!NodesKept(t)
       /\ \A k \in DOMAIN t : t[k] \in T!Store!Rows

NoAnswer == [status |-> "none", request |-> T!NoRequest]

SystemInit ==
  /\ Init
  /\ T!Init
  /\ reachable \in BOOLEAN /\ (reachable => repos \in TrackedFetches[1])
  /\ run = 1 /\ lost = {} /\ faults = 0 /\ overlapped = {}
  /\ answered = [c \in TrackCalls |-> NoAnswer]

\* The call worker w makes.
CallOf(w) == <<run, job[w]>>

\* The worker calls Track with what Extract found and the URL it cloned.
CallTrack(w) ==
  /\ reachable /\ worker[w] = "track"
  /\ \E r \in Requests : r.source = repos[job[w]] /\ T!Track(CallOf(w), r)
  /\ overlapped' = IF \E c \in TrackCalls : T!Busy(c) /\ req[c].source = repos[job[w]]
                   THEN overlapped \cup {repos[job[w]]} ELSE overlapped
  /\ UNCHANGED <<vars, run, reachable, lost, faults, answered>>

\* Track answers, and the worker is done with the repository.
TrackReturns(w) ==
  LET c == CallOf(w)
  IN /\ reachable /\ worker[w] = "track"
     /\ answered' = [answered EXCEPT ![c] = [status |-> pc[c], request |-> req[c]]]
     /\ T!Finish(c)
     /\ TrackSource(w)
     /\ UNCHANGED <<run, reachable, lost, faults, overlapped>>

\* The connection is lost while the handler works, or the answer with it.
TrackLost(w) ==
  /\ reachable /\ worker[w] = "track" /\ T!Busy(CallOf(w))
  /\ faults < MaxFaults
  /\ lost' = lost \cup {CallOf(w)}
  /\ faults' = faults + 1
  /\ TrackSource(w)
  /\ UNCHANGED <<trackerVars, run, reachable, overlapped, answered>>

\* A handler whose client is gone.
LostFinishes(c) ==
  /\ c \in lost
  /\ T!Finish(c)
  /\ UNCHANGED <<vars, callVars>>

\* The next run starts, after the last one or in place of one that was killed.
Restart ==
  /\ reachable /\ run < MaxRuns /\ faults < MaxFaults
  /\ run' = run + 1
  /\ faults' = faults + 1
  /\ lost' = lost \cup {c \in TrackCalls : T!Busy(c)}
  /\ repos' \in TrackedFetches[run + 1]
  /\ main' = "feed" /\ fed' = 0 /\ channel' = <<>> /\ wg' = Len(repos')
  /\ worker' = [w \in Workers |-> "range"] /\ job' = [w \in Workers |-> 0]
  /\ scratch' = {} /\ tracked' = {}
  /\ UNCHANGED <<trackerVars, reachable, overlapped, answered>>

TrackUnavailable(w) ==
  /\ ~reachable
  /\ TrackSource(w)
  /\ UNCHANGED <<trackerVars, callVars>>

\* The steps of a handler between the call and its answer.
HandlerStep(c) ==
  /\ \/ T!ReadManages(c) \/ \E m \in Modules : T!ReadDepends(c, m)
     \/ T!DeleteStale(c) \/ T!PutProposed(c)
  /\ UNCHANGED <<vars, callVars>>

HandlerFails(c) ==
  /\ T!ReadFails(c) \/ T!DeleteFails(c) \/ T!PutFails(c)
  /\ UNCHANGED <<vars, callVars>>

\* The steps of a worker that do not concern the tracker.
LocalStep(w) ==
  /\ \/ Take(w) \/ RangeEnds(w) \/ TempDir(w) \/ Stage(w)
     \/ StageFails(w) \/ Cleanup(w) \/ Done(w)
  /\ UNCHANGED <<trackerVars, callVars>>

Worker(w) == LocalStep(w) \/ CallTrack(w) \/ TrackReturns(w) \/ TrackUnavailable(w)

Main == MainStep /\ UNCHANGED <<trackerVars, callVars>>

SystemNext ==
  \/ Main
  \/ \E w \in Workers : Worker(w) \/ TrackLost(w)
  \/ \E c \in TrackCalls : HandlerStep(c) \/ HandlerFails(c) \/ LostFinishes(c)
  \/ Restart

\* Both processes schedule their goroutines; no connection has to be lost and no
\* call has to fail.
SystemFairness ==
  /\ WF_allVars(Main)
  /\ \A w \in Workers : WF_allVars(Worker(w))
  /\ \A c \in TrackCalls : WF_allVars(HandlerStep(c))

SystemSpec == SystemInit /\ [][SystemNext]_allVars /\ SystemFairness

-----------------------------------------------------------------------------
(* Properties.                                                             *)

Injective == \A i, j \in Positions : repos[i] = repos[j] => i = j

\* If no URL was fetched twice, the graph at the end of a run is what the tracker
\* acknowledged: the dependencies of every repository it answered "tracking" for are
\* exactly those extracted, at the revision cloned, and its modules are managed,
\* whatever the workers on other repositories, lost calls and runs that were killed
\* have done.  A call of an earlier run for the same URL must not be at work still.
\* (The transactions of the store take effect as a whole or not at all: one that goes on
\* after a statement failed may leave a dependency that no later Track finds.)
IndexedExactly ==
  (main = "returned" /\ Injective) =>
    \A i \in Positions \cap (1..MaxTracked) :
      (answered[<<run, i>>].status = "ok" /\ repos[i] \notin overlapped) =>
        LET r == answered[<<run, i>>].request
            proposed == T!ProposedKeys(r)
        IN /\ r.source = repos[i]
           /\ \A m, d \in Modules : m # d =>
                LET k == T!DependsItem(m, d, r.source)
                IN /\ T!Live(k) <=> k \in proposed
                   /\ k \in proposed => table[k].data = r.ref
           /\ \A f \in r.managementFiles : T!Live(T!ManagesItem(r.source, f.module))
=============================================================================
