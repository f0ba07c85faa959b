------------------------------- MODULE Indexer -------------------------------
(***************************************************************************)
(* The indexer process (indexer/main.go and internal/consumer): the main   *)
(* goroutine feeds the repositories the remotes returned into a channel    *)
(* and waits on a WaitGroup; a fixed number of workers take repositories   *)
(* off the channel and consume them: a scratch directory, a clone, the     *)
(* match and extract calls to the extractor, and Track on the tracker.     *)
(* A step that fails is logged and ends the consumption of its repository. *)
(***************************************************************************)
EXTENDS Integers, Sequences, FiniteSets

CONSTANTS Workers,       \* the worker goroutines
          Fetches        \* the lists of URLs FetchRepositories can return

VARIABLES repos,         \* the URLs fetched
          main,          \* where the main goroutine is
          fed,           \* how many of them it has put in the channel
          channel,       \* positions in repos of the repositories in the channel
          wg,            \* the WaitGroup's counter
          worker,        \* where each worker is
          job,           \* the position in repos it works on, 0 for none
          scratch,       \* positions whose scratch directory nobody has tried to remove yet
          tracked        \* positions whose manifests the tracker was sent

vars == <<repos, main, fed, channel, wg, worker, job, scratch, tracked>>

ASSUME WorkersAssumption == IsFiniteSet(Workers) /\ Workers # {}

ASSUME FetchesAssumption == \A f \in Fetches : f \in Seq({f[i] : i \in DOMAIN f})

Stages == {"clone", "match", "extract", "track"}

Init ==
  /\ repos \in Fetches
  /\ main = "feed" /\ fed = 0 /\ channel = <<>>
  /\ wg = Len(repos)
  /\ worker = [w \in Workers |-> "range"]
  /\ job = [w \in Workers |-> 0]
  /\ scratch = {} /\ tracked = {}

-----------------------------------------------------------------------------
(* The main goroutine.                                                     *)

Capacity == Cardinality(Workers)

\* repositories <- repository
Feed ==
  /\ main = "feed" /\ fed < Len(repos) /\ Len(channel) < Capacity
  /\ fed' = fed + 1
  /\ channel' = Append(channel, fed + 1)
  /\ UNCHANGED <<repos, main, wg, worker, job, scratch, tracked>>

FeedDone ==
  /\ main = "feed" /\ fed = Len(repos)
  /\ main' = "wait"
  /\ UNCHANGED <<repos, fed, channel, wg, worker, job, scratch, tracked>>

WaitedForFeed == TRUE  \* a mutant: the end of the feed is enough

Waited == wg = 0

\* wg.Wait() returns, and the deferred close ends the workers' range loops.
Return ==
  /\ main = "wait" /\ Waited
  /\ main' = "returned"
  /\ UNCHANGED <<repos, fed, channel, wg, worker, job, scratch, tracked>>

-----------------------------------------------------------------------------
(* A worker.                                                               *)

\* A mutant: the repository stays in the channel.
TakeCopy(w) ==
  /\ worker[w] = "range" /\ channel # <<>>
  /\ job' = [job EXCEPT ![w] = Head(channel)]
  /\ worker' = [worker EXCEPT ![w] = "tempdir"]
  /\ UNCHANGED <<repos, main, fed, channel, wg, scratch, tracked>>

\* for repository := range repositories
Take(w) ==
  /\ worker[w] = "range" /\ channel # <<>>
  /\ job' = [job EXCEPT ![w] = Head(channel)]
  /\ channel' = Tail(channel)
  /\ worker' = [worker EXCEPT ![w] = "tempdir"]
  /\ UNCHANGED <<repos, main, fed, wg, scratch, tracked>>

\* The channel is closed and empty: the goroutine ends.
RangeEnds(w) ==
  /\ worker[w] = "range" /\ channel = <<>> /\ main = "returned"
  /\ worker' = [worker EXCEPT ![w] = "ended"]
  /\ UNCHANGED <<repos, main, fed, channel, wg, job, scratch, tracked>>

\* ioutil.TempDir; without a directory there is nothing to clean up.
TempDir(w) ==
  /\ worker[w] = "tempdir"
  /\ \/ /\ worker' = [worker EXCEPT ![w] = "clone"]
        /\ scratch' = scratch \cup {job[w]}
     \/ /\ worker' = [worker EXCEPT ![w] = "done"]
        /\ UNCHANGED scratch
  /\ UNCHANGED <<repos, main, fed, channel, wg, job, tracked>>

After(stage) == CASE stage = "clone" -> "match"
                  [] stage = "match" -> "extract"
                  [] stage = "extract" -> "track"
                  [] stage = "track" -> "cleanup"

\* A stage succeeds: options, keys, clone and walk; Match and the reads of the
\* matched files (a file that cannot be read is skipped); Extract.
Stage(w) ==
  /\ worker[w] \in Stages \ {"track"}
  /\ worker' = [worker EXCEPT ![w] = After(worker[w])]
  /\ UNCHANGED <<repos, main, fed, channel, wg, job, scratch, tracked>>

\* Track is called; whether it fails makes no difference to the indexer.
TrackSource(w) ==
  /\ worker[w] = "track"
  /\ tracked' = tracked \cup {job[w]}
  /\ worker' = [worker EXCEPT ![w] = After("track")]
  /\ UNCHANGED <<repos, main, fed, channel, wg, job, scratch>>

OnFailureForget == "range"  \* a mutant: an early return without wg.Done

\* Where a failed stage leads: the deferred cleanup.
OnFailure == "cleanup"

StageFails(w) ==
  /\ worker[w] \in Stages \ {"track"}
  /\ worker' = [worker EXCEPT ![w] = OnFailure]
  /\ UNCHANGED <<repos, main, fed, channel, wg, job, scratch, tracked>>

\* os.RemoveAll in the deferred function; if it fails the directory stays for good.
Cleanup(w) ==
  /\ worker[w] = "cleanup"
  /\ scratch' = scratch \ {job[w]}
  /\ worker' = [worker EXCEPT ![w] = "done"]
  /\ UNCHANGED <<repos, main, fed, channel, wg, job, tracked>>

DoneTwice(w) ==  \* a mutant
  /\ worker[w] = "done"
  /\ wg' = wg - 2
  /\ job' = [job EXCEPT ![w] = 0]
  /\ worker' = [worker EXCEPT ![w] = "range"]
  /\ UNCHANGED <<repos, main, fed, channel, scratch, tracked>>

\* wg.Done(), back to the range loop.
Done(w) ==
  /\ worker[w] = "done"
  /\ wg' = wg - 1
  /\ job' = [job EXCEPT ![w] = 0]
  /\ worker' = [worker EXCEPT ![w] = "range"]
  /\ UNCHANGED <<repos, main, fed, channel, scratch, tracked>>

MainStep == Feed \/ FeedDone \/ Return

WorkerStep(w) == \/ Take(w) \/ RangeEnds(w) \/ TempDir(w) \/ Stage(w)
                 \/ TrackSource(w) \/ StageFails(w) \/ Cleanup(w) \/ Done(w)

Next == MainStep \/ \E w \in Workers : WorkerStep(w)

\* Goroutines are scheduled and the calls they make return, with an error at worst.
Fairness == WF_vars(MainStep) /\ \A w \in Workers : WF_vars(WorkerStep(w))

Spec == Init /\ [][Next]_vars

FairSpec == Spec /\ Fairness

-----------------------------------------------------------------------------
(* Properties.                                                             *)

Positions == 1..Len(repos)

Working(w) == worker[w] \notin {"range", "ended"}

\* The WaitGroup never goes below zero (which panics) and counts exactly the
\* repositories that are not fed yet, wait in the channel or are being consumed.
WaitGroupExact ==
  wg = (Len(repos) - fed) + Len(channel) + Cardinality({w \in Workers : Working(w)})

\* The process does not leave before its work is done: when main returns, every
\* repository has been taken off the channel, no worker is inside Consume and no
\* scratch directory was forgotten.
ReturnsAfterAllWork ==
  main = "returned" =>
    /\ fed = Len(repos) /\ channel = <<>> /\ scratch = {}
    /\ \A w \in Workers : ~Working(w)

\* Two workers call Track for one source at a time only if the list holds its URL
\* twice: what SourceService's serial runs assume of its callers.
OneTrackPerSource ==
  (\A i, j \in Positions : repos[i] = repos[j] => i = j) =>
    \A v, w \in Workers :
      (v # w /\ worker[v] = "track" /\ worker[w] = "track") => repos[job[v]] # repos[job[w]]

\* The indexer terminates and all its workers with it.
Terminates == <>[](main = "returned" /\ \A w \in Workers : worker[w] = "ended")
=============================================================================
