--------------------------- MODULE IndexerProofs ---------------------------
(***************************************************************************)
(* The indexer's bookkeeping, for every number of workers and every list   *)
(* of repositories: the WaitGroup counts exactly the work that is left, so *)
(* that wg.Wait() returns no earlier than all of it is done, and no two    *)
(* workers hold the same position of the list.  The results hold of the    *)
(* indexer alone and of every run of it against a tracker that answers,    *)
(* fails, is lost or is not there.  And what such a run leaves in the      *)
(* graph: the dependencies of every repository the tracker acknowledged.   *)
(*                                                                         *)
(* The invariant follows a position on its way: the positions up to the    *)
(* head of the channel have been taken, the channel holds those from there *)
(* to fed in order, and the main goroutine has the rest.                   *)
(***************************************************************************)
EXTENDS IndexerTracker, FiniteSetTheorems, SequenceTheorems, TLAPS

\* The last position that was taken off the channel.
Taken == fed - Len(channel)

IndexerTypeOK ==
  /\ repos \in Fetches /\ Len(repos) \in Nat
  /\ main \in {"feed", "wait", "returned"}
  /\ fed \in Nat /\ wg \in Int
  /\ channel \in Seq(Nat)
  /\ worker \in [Workers -> Stages \cup {"range", "ended", "tempdir", "cleanup", "done"}]
  /\ job \in [Workers -> Nat]

\* The channel holds the positions after the last one taken, in their order.
ChannelInOrder ==
  /\ Taken \in Nat /\ fed <= Len(repos)
  /\ \A i \in 1..Len(channel) : channel[i] = Taken + i

\* A worker in Consume holds a position that was taken, and no other worker holds it.
JobsTaken ==
  \A w \in Workers : Working(w) =>
    /\ job[w] \in 1..Taken
    /\ \A v \in Workers : (v # w /\ Working(v)) => job[v] # job[w]

\* A scratch directory belongs to a worker that has still to clean it up.
ScratchOwned ==
  \A i \in scratch : \E w \in Workers : worker[w] \in Stages \cup {"cleanup"} /\ job[w] = i

\* The main goroutine waits after the last Send and returns at zero.
MainInOrder == /\ main # "feed" => fed = Len(repos)
               /\ main = "returned" => wg = 0

\* The inductive invariant.
IInv == /\ IndexerTypeOK /\ ChannelInOrder /\ JobsTaken /\ ScratchOwned /\ MainInOrder
        /\ WaitGroupExact

-----------------------------------------------------------------------------
(* The number of workers in Consume.                                       *)

AtWork == {w \in Workers : Working(w)}

\* There are finitely many workers in Consume, and none exactly if there are zero.
LEMMA AtWorkFinite ==
  /\ IsFiniteSet(AtWork) /\ Cardinality(AtWork) \in Nat
  /\ Cardinality(AtWork) = 0 <=> AtWork = {}
<1>1. IsFiniteSet(AtWork)
  BY WorkersAssumption, FS_Subset DEF AtWork
<1>2. QED
  BY <1>1, FS_CardinalityType, FS_EmptySet

\* The range loop hands a repository to a worker: one more is in Consume.
LEMMA OneMoreAtWork ==
  ASSUME NEW w \in Workers, ~Working(w), Working(w)',
         \A v \in Workers \ {w} : Working(v)' <=> Working(v)
  PROVE  Cardinality(AtWork)' = Cardinality(AtWork) + 1
<1>1. AtWork' = AtWork \cup {w} /\ w \notin AtWork
  BY DEF AtWork
<1>2. QED
  BY <1>1, AtWorkFinite, FS_AddElement

\* A worker comes back from Consume: one less.
LEMMA OneLessAtWork ==
  ASSUME NEW w \in Workers, Working(w), ~Working(w)',
         \A v \in Workers \ {w} : Working(v)' <=> Working(v)
  PROVE  Cardinality(AtWork)' = Cardinality(AtWork) - 1
<1>1. AtWork' = AtWork \ {w} /\ w \in AtWork
  BY DEF AtWork
<1>2. QED
  BY <1>1, AtWorkFinite, FS_RemoveElement

\* The same workers are in Consume: so is their number.
LEMMA SameAtWork ==
  ASSUME \A w \in Workers : Working(w)' <=> Working(w)
  PROVE  Cardinality(AtWork)' = Cardinality(AtWork)
<1>1. AtWork' = AtWork
  BY DEF AtWork
<1>2. QED
  BY <1>1

\* A fetched list has a length.
LEMMA FetchLength == \A f \in Fetches : Len(f) \in Nat
  BY FetchesAssumption, LenProperties

-----------------------------------------------------------------------------
(* The invariant holds at the start and is kept by every step.             *)

\* Before the first step nothing is taken and the WaitGroup counts the whole list.
LEMMA IndexerStarts == Init => IInv
<1> SUFFICES ASSUME Init PROVE IInv
  OBVIOUS
<1>1. IndexerTypeOK /\ ChannelInOrder /\ JobsTaken /\ ScratchOwned /\ MainInOrder
  BY FetchLength, EmptySeq DEF Init, IndexerTypeOK, ChannelInOrder, JobsTaken, ScratchOwned,
     MainInOrder, Taken, Working
<1>2. AtWork = {}
  BY DEF AtWork, Init, Working
<1>3. WaitGroupExact
  BY <1>2, FetchLength, AtWorkFinite DEF WaitGroupExact, AtWork, Init
<1>4. QED
  BY <1>1, <1>3 DEF IInv

\* The main goroutine: Feed appends the next position, Return needs the zero.
LEMMA MainKeeps == ASSUME IInv, MainStep PROVE IInv'
<1> USE DEF IInv
<1>1. CASE Feed
  <2>1. /\ Len(channel') = Len(channel) + 1
        /\ \A i \in 1..Len(channel) : channel'[i] = channel[i]
        /\ channel'[Len(channel) + 1] = fed + 1 /\ channel' \in Seq(Nat)
    BY <1>1, AppendProperties DEF Feed, IndexerTypeOK
  <2>2. Taken' = Taken
    BY <1>1, <2>1 DEF Feed, Taken, IndexerTypeOK
  <2>3. IndexerTypeOK' /\ ScratchOwned' /\ MainInOrder'
    BY <1>1, <2>1 DEF Feed, IndexerTypeOK, ScratchOwned, MainInOrder
  <2>4. ChannelInOrder'
    <3>1. fed' = fed + 1 /\ fed' <= Len(repos') /\ Taken \in Nat /\ Len(channel) \in Nat
      BY <1>1, LenProperties DEF Feed, ChannelInOrder, IndexerTypeOK
    <3>2. ASSUME NEW i \in 1..Len(channel') PROVE channel'[i] = Taken + i
      <4>1. i \in 1..Len(channel) \/ i = Len(channel) + 1
        BY <2>1, <3>1
      <4>2. Taken + (Len(channel) + 1) = fed + 1
        BY <3>1 DEF Taken, IndexerTypeOK
      <4>3. QED
        BY <2>1, <4>1, <4>2 DEF ChannelInOrder
    <3>3. QED
      BY <2>2, <3>1, <3>2 DEF ChannelInOrder
  <2>5. JobsTaken'
    BY <1>1, <2>2 DEF Feed, JobsTaken, Working
  <2>6. WaitGroupExact'
    <3>1. Cardinality(AtWork)' = Cardinality(AtWork)
      BY <1>1, SameAtWork DEF Feed, Working
    <3>2. QED
      BY <1>1, <2>1, <3>1, AtWorkFinite DEF Feed, WaitGroupExact, AtWork, IndexerTypeOK
  <2>7. QED
    BY <2>3, <2>4, <2>5, <2>6
<1>2. CASE FeedDone \/ Return
  <2>1. UNCHANGED <<repos, fed, channel, wg, worker, job, scratch>>
    BY <1>2 DEF FeedDone, Return
  <2>2. IndexerTypeOK' /\ MainInOrder'
    BY <1>2 DEF FeedDone, Return, Waited, IndexerTypeOK, MainInOrder
  <2>3. ChannelInOrder' /\ JobsTaken' /\ ScratchOwned' /\ WaitGroupExact'
    BY <2>1 DEF ChannelInOrder, JobsTaken, ScratchOwned, WaitGroupExact, Taken, Working
  <2>4. QED
    BY <2>2, <2>3
<1>3. QED
  BY <1>1, <1>2 DEF MainStep

\* At zero nothing is left: what wg.Wait() promises the main goroutine.
LEMMA ZeroMeansDone ==
  ASSUME IInv, wg = 0
  PROVE  fed = Len(repos) /\ channel = <<>> /\ scratch = {} /\ \A w \in Workers : ~Working(w)
<1> USE DEF IInv
<1>1. fed = Len(repos) /\ Len(channel) = 0 /\ Cardinality(AtWork) = 0
  <2>1. /\ Len(repos) - fed \in Nat /\ Len(channel) \in Nat /\ Cardinality(AtWork) \in Nat
        /\ Len(repos) \in Nat /\ fed \in Nat
    BY AtWorkFinite, LenProperties DEF IndexerTypeOK, ChannelInOrder
  <2>2. (Len(repos) - fed) + Len(channel) + Cardinality(AtWork) = 0
    BY DEF WaitGroupExact, AtWork
  <2>3. QED
    BY <2>1, <2>2
<1>2. \A w \in Workers : ~Working(w)
  BY <1>1, AtWorkFinite DEF AtWork
<1>3. scratch = {}
  BY <1>2 DEF ScratchOwned, Working, Stages
<1>4. QED
  BY <1>1, <1>2, <1>3, EmptySeq DEF IndexerTypeOK

\* The range loop takes the head of the channel, a position nobody has taken before.
LEMMA TakeKeeps == ASSUME IInv, NEW w \in Workers, Take(w) PROVE IInv'
<1> USE DEF IInv
<1>1. /\ Len(channel') = Len(channel) - 1 /\ Len(channel) \in Nat \ {0}
      /\ \A i \in 1..Len(channel') : channel'[i] = channel[i + 1]
      /\ Head(channel) = channel[1] /\ channel' \in Seq(Nat)
  BY HeadTailProperties, LenProperties DEF Take, IndexerTypeOK
<1>2. Taken' = Taken + 1 /\ Head(channel) = Taken + 1
  BY <1>1 DEF Take, Taken, IndexerTypeOK, ChannelInOrder
<1>3. IndexerTypeOK' /\ ScratchOwned'
  <2>1. IndexerTypeOK'
    BY <1>1, <1>2 DEF Take, IndexerTypeOK, ChannelInOrder
  <2>2. ScratchOwned'
    BY DEF Take, ScratchOwned, IndexerTypeOK, Stages
  <2>3. QED
    BY <2>1, <2>2
<1>4. ChannelInOrder'
  BY <1>1, <1>2 DEF Take, ChannelInOrder, IndexerTypeOK
<1>5. \A v \in Workers \ {w} : (Working(v)' <=> Working(v)) /\ job'[v] = job[v]
  BY DEF Take, Working, IndexerTypeOK
<1>6. ~Working(w) /\ Working(w)' /\ job'[w] = Taken + 1
  BY <1>2 DEF Take, Working, IndexerTypeOK
<1>7. JobsTaken'
  BY <1>2, <1>5, <1>6 DEF JobsTaken, ChannelInOrder
<1>8. WaitGroupExact'
  <2>1. Cardinality(AtWork)' = Cardinality(AtWork) + 1 /\ Cardinality(AtWork) \in Nat
    BY <1>5, <1>6, OneMoreAtWork, AtWorkFinite
  <2>2. wg = (Len(repos) - fed) + Len(channel) + Cardinality(AtWork)
    BY DEF WaitGroupExact, AtWork
  <2>3. wg' = (Len(repos') - fed') + Len(channel') + Cardinality(AtWork)'
    BY <1>1, <2>1, <2>2 DEF Take, IndexerTypeOK
  <2>4. QED
    BY <2>3 DEF WaitGroupExact, AtWork
<1>9. MainInOrder'
  BY DEF Take, MainInOrder
<1>10. QED
  BY <1>3, <1>4, <1>7, <1>8, <1>9

\* wg.Done() comes with the end of a Consume that has cleaned up.
LEMMA DoneKeeps == ASSUME IInv, NEW w \in Workers, Done(w) PROVE IInv'
<1> USE DEF IInv
<1>1. \A v \in Workers \ {w} : (Working(v)' <=> Working(v)) /\ job'[v] = job[v] /\ worker'[v] = worker[v]
  BY DEF Done, Working, IndexerTypeOK
<1>2. Working(w) /\ ~Working(w)' /\ worker[w] = "done"
  BY DEF Done, Working, IndexerTypeOK
<1>3. IndexerTypeOK' /\ ChannelInOrder'
  BY DEF Done, IndexerTypeOK, ChannelInOrder, Taken
<1>4. JobsTaken'
  BY <1>1, <1>2 DEF Done, JobsTaken, Taken
<1>5. ScratchOwned'
  BY <1>1, <1>2 DEF Done, ScratchOwned, Stages
<1>6. main # "returned"
  BY <1>2, ZeroMeansDone DEF MainInOrder
<1>7. MainInOrder'
  BY <1>6 DEF Done, MainInOrder
<1>8. WaitGroupExact'
  BY <1>1, <1>2, OneLessAtWork, AtWorkFinite DEF Done, WaitGroupExact, AtWork, IndexerTypeOK
<1>9. QED
  BY <1>3, <1>4, <1>5, <1>7, <1>8

\* The stages of Consume leave the counter, the channel and the jobs alone; the
\* deferred cleanup gives up the directory of its own job only.
LEMMA ConsumeKeeps ==
  ASSUME IInv, NEW w \in Workers,
         \/ RangeEnds(w) \/ TempDir(w) \/ Stage(w)
         \/ TrackSource(w) \/ StageFails(w) \/ Cleanup(w)
  PROVE  IInv'
<1> USE DEF IInv
<1> DEFINE Directories == Stages \cup {"cleanup"}
<1>1. UNCHANGED <<repos, main, fed, channel, wg, job>>
  BY DEF RangeEnds, TempDir, Stage, TrackSource, StageFails, Cleanup
<1>2. \A v \in Workers \ {w} : worker'[v] = worker[v]
  BY DEF RangeEnds, TempDir, Stage, TrackSource, StageFails, Cleanup, IndexerTypeOK
<1>3. worker' \in [Workers -> Stages \cup {"range", "ended", "tempdir", "cleanup", "done"}]
  BY DEF RangeEnds, TempDir, Stage, TrackSource, StageFails, Cleanup, IndexerTypeOK, Stages,
     After, OnFailure
<1>4. Working(w)' <=> Working(w)
  BY DEF RangeEnds, TempDir, Stage, TrackSource, StageFails, Cleanup, IndexerTypeOK, Stages,
     After, OnFailure, Working
<1>5. \A v \in Workers : Working(v)' <=> Working(v)
  BY <1>2, <1>4 DEF Working
<1>6. IndexerTypeOK' /\ ChannelInOrder' /\ JobsTaken' /\ MainInOrder'
  BY <1>1, <1>3, <1>5 DEF IndexerTypeOK, ChannelInOrder, JobsTaken, MainInOrder, Taken
<1>7. WaitGroupExact'
  BY <1>1, <1>5, SameAtWork DEF WaitGroupExact, AtWork
<1>8. ScratchOwned'
  <2>1. CASE TempDir(w) \/ Cleanup(w)
    <3>1. \A i \in scratch' : \/ i = job[w] /\ worker'[w] = "clone"
                              \/ i \in scratch /\ (worker[w] \in Directories => i # job[w])
      BY <2>1 DEF TempDir, Cleanup, IndexerTypeOK, Stages
    <3>2. QED
      BY <1>1, <1>2, <3>1 DEF ScratchOwned, Stages
  <2>2. CASE RangeEnds(w) \/ Stage(w) \/ TrackSource(w) \/ StageFails(w)
    <3>1. scratch' = scratch /\ (worker[w] \in Directories => worker'[w] \in Directories)
      BY <2>2 DEF RangeEnds, Stage, TrackSource, StageFails, IndexerTypeOK, Stages, After, OnFailure
    <3>2. QED
      BY <1>1, <1>2, <3>1 DEF ScratchOwned
  <2>3. QED
    BY <2>1, <2>2
<1>9. QED
  BY <1>6, <1>7, <1>8

\* Every step of the indexer keeps the invariant.
LEMMA IndexerKeeps == IInv /\ [Next]_vars => IInv'
<1> SUFFICES ASSUME IInv, [Next]_vars PROVE IInv'
  OBVIOUS
<1>1. CASE MainStep
  BY <1>1, MainKeeps
<1>2. ASSUME NEW w \in Workers, WorkerStep(w) PROVE IInv'
  BY <1>2, TakeKeeps, DoneKeeps, ConsumeKeeps DEF WorkerStep
<1>3. CASE UNCHANGED vars
  BY <1>3 DEF vars, IInv, IndexerTypeOK, ChannelInOrder, JobsTaken, ScratchOwned, MainInOrder,
     WaitGroupExact, Taken, Working
<1>4. QED
  BY <1>1, <1>2, <1>3 DEF Next

-----------------------------------------------------------------------------
(* The indexer alone, and with the tracker.                                *)

\* The invariant makes the return of main safe.
LEMMA ReturnsSafely == IInv => ReturnsAfterAllWork
  BY ZeroMeansDone DEF IInv, MainInOrder, ReturnsAfterAllWork

\* Positions held are distinct, and so are the URLs at them if the list has no URL
\* twice.
LEMMA TracksApart == IInv => OneTrackPerSource
<1> SUFFICES ASSUME IInv, \A i, j \in Positions : repos[i] = repos[j] => i = j,
                    NEW v \in Workers, NEW w \in Workers,
                    v # w, worker[v] = "track", worker[w] = "track"
             PROVE  repos[job[v]] # repos[job[w]]
  BY DEF OneTrackPerSource
<1>1. Working(v) /\ Working(w)
  BY DEF Working
<1>2. job[v] # job[w] /\ job[v] \in 1..Taken /\ job[w] \in 1..Taken
  BY <1>1 DEF IInv, JobsTaken
<1>3. Taken <= Len(repos)
  BY LenProperties DEF IInv, ChannelInOrder, IndexerTypeOK, Taken
<1>4. job[v] \in Positions /\ job[w] \in Positions
  BY <1>2, <1>3 DEF Positions, IInv, IndexerTypeOK, ChannelInOrder
<1>5. QED
  BY <1>2, <1>4

\* The process alone: the WaitGroup is exact, main returns after all the work, and a
\* repository is with one worker at a time.
THEOREM IndexerCorrect ==
  Spec => [](WaitGroupExact /\ ReturnsAfterAllWork /\ OneTrackPerSource)
<1>1. IInv => WaitGroupExact /\ ReturnsAfterAllWork /\ OneTrackPerSource
  BY ReturnsSafely, TracksApart DEF IInv
<1>2. QED
  BY <1>1, IndexerStarts, IndexerKeeps, PTL DEF Spec

\* A step of the whole system is a step of the indexer, leaves it alone or starts it
\* afresh on another list.
LEMMA SystemSteps ==
  ASSUME run \in Nat \ {0}, [SystemNext]_allVars
  PROVE  [Next]_vars \/ Init'
<1>1. CASE Main
  BY <1>1 DEF Main, Next
<1>2. ASSUME NEW w \in Workers, Worker(w) \/ TrackLost(w) PROVE [Next]_vars
  <2>1. CASE LocalStep(w)
    BY <2>1 DEF LocalStep, Next, WorkerStep
  <2>2. CASE CallTrack(w)
    BY <2>2 DEF CallTrack
  <2>3. CASE TrackReturns(w) \/ TrackUnavailable(w) \/ TrackLost(w)
    BY <2>3 DEF TrackReturns, TrackUnavailable, TrackLost, Next, WorkerStep
  <2>4. QED
    BY <1>2, <2>1, <2>2, <2>3 DEF Worker
<1>3. ASSUME NEW c \in TrackCalls, HandlerStep(c) \/ HandlerFails(c) \/ LostFinishes(c)
      PROVE  UNCHANGED vars
  BY <1>3 DEF HandlerStep, HandlerFails, LostFinishes
<1>4. CASE Restart
  <2>1. run + 1 \in 1..Len(TrackedFetches)
    BY <1>4, TrackedAssumption, LenProperties DEF Restart, MaxRuns
  <2>2. TrackedFetches[run + 1] \in SUBSET Fetches
    BY <2>1, TrackedAssumption, ElementOfSeq
  <2>3. QED
    BY <1>4, <2>2 DEF Restart, Init
<1>5. CASE UNCHANGED allVars
  BY <1>5 DEF allVars
<1>6. QED
  BY <1>1, <1>2, <1>3, <1>4, <1>5 DEF SystemNext

\* The runs are numbered from one.
LEMMA RunNumber ==
  ASSUME run \in Nat \ {0}, [SystemNext]_allVars
  PROVE  run' \in Nat \ {0}
<1>1. CASE Restart
  BY <1>1 DEF Restart
<1>2. CASE \E w \in Workers : Worker(w) \/ TrackLost(w)
  BY <1>2 DEF Worker, LocalStep, CallTrack, TrackReturns, TrackUnavailable, TrackLost, callVars
<1>3. CASE Main \/ \E c \in TrackCalls : HandlerStep(c) \/ HandlerFails(c) \/ LostFinishes(c)
  BY <1>3 DEF Main, HandlerStep, HandlerFails, LostFinishes, callVars
<1>4. CASE UNCHANGED allVars
  BY <1>4 DEF allVars, callVars
<1>5. QED
  BY <1>1, <1>2, <1>3, <1>4 DEF SystemNext

\* The same in every run of the indexer against a tracker: whatever calls fail or are
\* lost, and whichever run was killed, no run leaves early, panics on its WaitGroup or
\* tracks one source from two workers at a time.
THEOREM EveryRunCorrect ==
  SystemSpec => [](WaitGroupExact /\ ReturnsAfterAllWork /\ OneTrackPerSource)
<1> DEFINE SysInv == IInv /\ run \in Nat \ {0}
<1>1. SystemInit => SysInv
  BY IndexerStarts DEF SystemInit
<1>2. SysInv /\ [SystemNext]_allVars => SysInv'
  <2> SUFFICES ASSUME SysInv, [SystemNext]_allVars PROVE SysInv'
    OBVIOUS
  <2>1. [Next]_vars \/ Init'
    BY SystemSteps
  <2>2. Init' => IInv'
    BY IndexerStarts, PTL
  <2>3. QED
    BY <2>1, <2>2, IndexerKeeps, RunNumber
<1>3. SysInv => WaitGroupExact /\ ReturnsAfterAllWork /\ OneTrackPerSource
  BY ReturnsSafely, TracksApart DEF IInv
<1>4. QED
  BY <1>1, <1>2, <1>3, PTL DEF SystemSpec

-----------------------------------------------------------------------------
(***************************************************************************)
(* What a run leaves in the graph.  The proofs about Track are taken from  *)
(* SourceServiceProofs, one handler per call; here calls for one source    *)
(* may overlap (a handler outlives the run that called it), and what is    *)
(* known of a source holds as long as that has not happened to it.         *)
(***************************************************************************)

P == INSTANCE SourceServiceProofs WITH
       Handlers <- TrackCalls, Overlap <- TRUE

Before == {"tempdir", "clone", "match", "extract", "track"}

\* A position whose Track is still to come has not been tracked.
TrackedOnce ==
  \A i \in tracked : /\ i \in 1..Taken
                     /\ \A w \in Workers : worker[w] \in Before => job[w] # i

\* With a tracker, a run works on one of the lists for it.  The calls of later runs
\* have not been made, and one of this run that is under way or has been answered
\* belongs to its position.
CallsOfRun ==
  /\ run \in 1..MaxRuns /\ reachable \in BOOLEAN
  /\ reachable => repos \in TrackedFetches[run]
  /\ answered \in [TrackCalls -> [status : P!States \cup {"none"}, request : Requests \cup {P!NoRequest}]]
  /\ \A c \in TrackCalls : c[1] > run => pc[c] = "idle" /\ answered[c].status = "none"
  /\ \A i \in 1..MaxTracked : <<run, i>> \in TrackCalls =>
       /\ pc[<<run, i>>] # "idle" => req[<<run, i>>].source = repos[i]
       /\ answered[<<run, i>>].status # "none" => i \in tracked

\* What holds of the tracker whatever overlaps, where no statement fails alone.
TrackerKnown ==
  ~PartialFailures /\ P!TypeOK /\ P!FoundOwn /\ P!NodesKept(table) /\ P!EndpointsLive

\* What holds of the sources whose calls did not overlap, and of their handlers.
UndisturbedKnown ==
  /\ \A s \in Sources \ overlapped : P!NoOrphansOf(s)
  /\ \A c \in TrackCalls : (pc[c] # "idle" /\ req[c].source \notin overlapped) =>
       /\ P!Knows(c)
       /\ \A g \in TrackCalls \ {c} : pc[g] # "idle" => req[g].source # req[c].source

\* What was answered in this run is in the graph, and nobody is at work on it.
AnswersStored ==
  Injective => \A i \in 1..MaxTracked :
    (<<run, i>> \in TrackCalls /\ answered[<<run, i>>].status = "ok" /\ repos[i] \notin overlapped) =>
      /\ answered[<<run, i>>].request.source = repos[i]
      /\ repos[i] \in Sources
      /\ P!StoredExactly(answered[<<run, i>>].request)
      /\ \A c \in TrackCalls : pc[c] # "idle" => req[c].source # repos[i]

\* The inductive invariant of the system.
SystemInv ==
  /\ IInv /\ run \in Nat \ {0}
  /\ TrackedOnce /\ CallsOfRun /\ TrackerKnown /\ UndisturbedKnown /\ AnswersStored

-----------------------------------------------------------------------------
(* P speaks of what T is made of.                                          *)

\* The operators of the handlers.
LEMMA SameOperators ==
  /\ \A r : T!ProposedKeys(r) = P!ProposedKeys(r) /\ T!getProposed(r) = P!getProposed(r)
  /\ \A t, s : T!ManagedBy(t, s) = P!ManagedBy(t, s)
  /\ \A t, m, s : T!OwnDependencies(t, m, s) = P!OwnDependencies(t, m, s)
  /\ \A found, r : T!ToDelete(found, r) = P!ToDelete(found, r)
  /\ \A K : T!Effects(K) = P!Effects(K)
  /\ \A t, K : T!Store!Deleted(t, K) = P!Store!Deleted(t, K)
  /\ \A t, new : T!Store!Inserted(t, new) = P!Store!Inserted(t, new)
  /\ \A f, K : T!Store!Restricted(f, K) = P!Store!Restricted(f, K)
<1> USE DEF T!Item, P!Item, T!SourceItem, P!SourceItem, T!ModuleItem, P!ModuleItem,
            T!ManagesItem, P!ManagesItem, T!DependsItem, P!DependsItem
<1>1. \A r : T!ProposedKeys(r) = P!ProposedKeys(r)
  BY DEF T!ProposedKeys, P!ProposedKeys
<1>2. \A r : T!getProposed(r) = P!getProposed(r)
  BY <1>1 DEF T!getProposed, P!getProposed
<1>3. \A t, keys, E, N : T!Store!FindUpstream(t, keys, E, N) = P!Store!FindUpstream(t, keys, E, N)
  BY DEF T!Store!FindUpstream, P!Store!FindUpstream, T!Store!SelectUpstream, P!Store!SelectUpstream,
         T!Store!LiveKeys, P!Store!LiveKeys
<1>4. \A t, s : T!ManagedBy(t, s) = P!ManagedBy(t, s)
  BY <1>3 DEF T!ManagedBy, P!ManagedBy
<1>5. \A t, m, s : T!OwnDependencies(t, m, s) = P!OwnDependencies(t, m, s)
  BY <1>3 DEF T!OwnDependencies, P!OwnDependencies, T!DependedOnBy, P!DependedOnBy
<1>6. \A found, r : T!ToDelete(found, r) = P!ToDelete(found, r)
  BY <1>1 DEF T!ToDelete, P!ToDelete
<1>7. \A K : T!Effects(K) = P!Effects(K)
  BY DEF T!Effects, P!Effects
<1>8. \A t, K : T!Store!Deleted(t, K) = P!Store!Deleted(t, K)
  BY DEF T!Store!Deleted, P!Store!Deleted, T!Store!DeleteGraphData, P!Store!DeleteGraphData
<1>9. \A t, new : T!Store!Inserted(t, new) = P!Store!Inserted(t, new)
  BY DEF T!Store!Inserted, P!Store!Inserted, T!Store!InsertGraphData, P!Store!InsertGraphData
<1>10. \A f, K : T!Store!Restricted(f, K) = P!Store!Restricted(f, K)
  BY DEF T!Store!Restricted, P!Store!Restricted
<1> QED
  BY <1>1, <1>2, <1>4, <1>5, <1>6, <1>7, <1>8, <1>9, <1>10

\* A step of a handler.
LEMMA HandlerSteps ==
  ASSUME NEW c \in TrackCalls, HandlerStep(c) \/ HandlerFails(c) \/ LostFinishes(c)
  PROVE  P!Step(c) /\ pc[c] # "idle"
<1>1. CASE T!ReadManages(c) \/ \E m \in Modules : T!ReadDepends(c, m)
  <2>1. T!ReadManages(c) => P!ReadManages(c) /\ pc[c] # "idle"
    BY SameOperators DEF T!ReadManages, P!ReadManages, T!BothOf, P!BothOf, T!EndsOf, P!EndsOf
  <2>2. \A m \in Modules : T!ReadDepends(c, m) => P!ReadDepends(c, m) /\ pc[c] # "idle"
    BY SameOperators DEF T!ReadDepends, P!ReadDepends, T!BothOf, P!BothOf
  <2> QED
    BY <1>1, <2>1, <2>2 DEF P!Step
<1>2. CASE T!DeleteStale(c) \/ T!DeleteFails(c)
  <2>1. T!DeleteStale(c) => P!DeleteStale(c) /\ pc[c] # "idle"
    BY SameOperators DEF T!DeleteStale, P!DeleteStale
  <2>2. T!DeleteFails(c) => P!DeleteFails(c) /\ pc[c] # "idle"
    BY SameOperators DEF T!DeleteFails, P!DeleteFails
  <2> QED
    BY <1>2, <2>1, <2>2 DEF P!Step
<1>3. CASE T!PutProposed(c) \/ T!PutFails(c)
  <2>1. T!PutProposed(c) => P!PutProposed(c) /\ pc[c] # "idle"
    BY SameOperators DEF T!PutProposed, P!PutProposed
  <2>2. T!PutFails(c) => P!PutFails(c) /\ pc[c] # "idle"
    BY SameOperators DEF T!PutFails, P!PutFails
  <2> QED
    BY <1>3, <2>1, <2>2 DEF P!Step
<1>4. CASE T!ReadFails(c) \/ T!Finish(c)
  <2>1. T!ReadFails(c) => P!ReadFails(c) /\ pc[c] # "idle"
    BY DEF T!ReadFails, P!ReadFails
  <2>2. T!Finish(c) => P!Finish(c) /\ pc[c] # "idle"
    BY DEF T!Finish, P!Finish, T!NoRequest, P!NoRequest
  <2> QED
    BY <1>4, <2>1, <2>2 DEF P!Step
<1> QED
  BY <1>1, <1>2, <1>3, <1>4 DEF HandlerStep, HandlerFails, LostFinishes

\* The call a worker makes, and its return.
LEMMA WorkerCalls ==
  ASSUME NEW w \in Workers
  PROVE  /\ CallTrack(w) => \E r \in Requests : r.source = repos[job[w]] /\ P!Track(CallOf(w), r)
         /\ TrackReturns(w) => P!Finish(CallOf(w))
<1>1. ASSUME NEW r, T!Track(CallOf(w), r) PROVE P!Track(CallOf(w), r)
  BY <1>1 DEF T!Track, P!Track, T!SourceItem, P!SourceItem, T!Item, P!Item
<1>2. T!Finish(CallOf(w)) => P!Finish(CallOf(w))
  BY DEF T!Finish, P!Finish, T!NoRequest, P!NoRequest
<1> QED
  BY <1>1, <1>2 DEF CallTrack, TrackReturns

-----------------------------------------------------------------------------
(* The handlers.                                                           *)

\* What SourceService assumes of its constants.
LEMMA TrackerAssumed ==
  /\ P!ModeAssumption /\ P!KeyAssumption /\ P!RequestsAssumption /\ P!InitialTablesAssumption
<1> USE DEF T!Item, P!Item, T!SourceItem, P!SourceItem, T!ModuleItem, P!ModuleItem,
            T!ManagesItem, P!ManagesItem, T!DependsItem, P!DependsItem
<1>1. T!SourceRequests = P!SourceRequests
  BY DEF T!SourceRequests, P!SourceRequests, T!ManagementFiles, P!ManagementFiles
<1>2. T!ItemKeys = P!ItemKeys
  BY DEF T!ItemKeys, P!ItemKeys
<1>3. T!Store!Rows = P!Store!Rows
  BY DEF T!Store!Rows, P!Store!Rows
<1>4. \A t : T!NodesKept(t) => P!NodesKept(t)
  BY DEF T!NodesKept, P!NodesKept
<1> QED
  BY <1>1, <1>2, <1>3, <1>4, TrackerAssumption
     DEF P!ModeAssumption, P!KeyAssumption, P!RequestsAssumption, P!InitialTablesAssumption

\* Every step of a handler keeps what holds whatever overlaps.
LEMMA TrackerStep ==
  ASSUME TrackerKnown, NEW c \in TrackCalls, P!Step(c)
  PROVE  TrackerKnown'
<1> USE TrackerAssumed
<1>1. P!Next
  BY DEF P!Next
<1>2. P!TypeOK'
  BY <1>1, P!TableType, P!HandlersType DEF TrackerKnown, P!TypeOK, P!HandlersOK
<1>3. P!FoundOwn' /\ P!NodesKept(table')
  BY <1>1, P!FoundOwnStep, P!NodesKeptStep DEF TrackerKnown
<1>4. P!EndpointsLive'
  BY <1>1, P!EndpointsStep DEF TrackerKnown
<1> QED
  BY <1>2, <1>3, <1>4 DEF TrackerKnown

\* What is known of the sources without overlapping calls is kept, if a new call does
\* not meet another one for its source.
LEMMA UndisturbedStep ==
  ASSUME Driver # "postgres", TrackerKnown, UndisturbedKnown,
         NEW c \in TrackCalls, P!Step(c), overlapped \subseteq overlapped',
         (pc[c] = "idle" /\ req'[c].source \notin overlapped') =>
           \A g \in TrackCalls : pc[g] # "idle" => req[g].source # req'[c].source
  PROVE  UndisturbedKnown'
<1> USE TrackerAssumed DEF P!Busy
<1>1. ~PartialFailures /\ P!TypeOK /\ P!FoundOwn /\ P!EndpointsLive
  BY DEF TrackerKnown
<1>2. \A h \in TrackCalls \ {c} : pc'[h] = pc[h] /\ req'[h] = req[h]
  BY <1>1, P!OtherHandler
<1>3. pc[c] # "idle" => pc'[c] = "idle" \/ req'[c] = req[c]
  BY <1>1, P!OwnRequest
<1>4. pc[c] = "idle" => P!Knows(c)
  BY DEF P!Knows
<1>5. ASSUME NEW s \in Sources \ overlapped' PROVE P!NoOrphansOf(s)'
  <2>1. P!NoOrphansOf(s) /\ ((pc[c] # "idle" /\ req[c].source = s) => P!Knows(c))
    BY <1>5 DEF UndisturbedKnown
  <2> QED
    BY <1>1, <2>1, P!NoOrphansStep
<1>6. ASSUME NEW h \in TrackCalls, pc'[h] # "idle", req'[h].source \notin overlapped'
      PROVE  P!Knows(h)' /\ \A g \in TrackCalls \ {h} : pc'[g] # "idle" => req'[g].source # req'[h].source
  <2>1. CASE h # c
    <3>1. P!Knows(h) /\ \A g \in TrackCalls \ {h} : pc[g] # "idle" => req[g].source # req[h].source
      BY <1>2, <1>6, <2>1 DEF UndisturbedKnown
    <3>2. P!Knows(h)'
      BY <1>1, <2>1, <3>1, P!KnowsOther
    <3> QED
      BY <1>2, <1>3, <1>6, <2>1, <3>1, <3>2
  <2>2. CASE h = c
    <3>1. P!Knows(c) /\ (pc[c] # "idle" => P!NoOrphansOf(req[c].source))
      <4>1. CASE pc[c] # "idle"
        <5>1. req[c].source \in Sources \ overlapped
          BY <1>1, <1>3, <1>6, <2>2, <4>1, P!BusySource
        <5> QED
          BY <4>1, <5>1 DEF UndisturbedKnown
      <4> QED
        BY <1>4, <4>1
    <3>2. P!Knows(c)'
      BY <1>1, <3>1, P!KnowsOwn
    <3>3. pc[c] # "idle" =>
            \A g \in TrackCalls \ {c} : pc[g] # "idle" => req[g].source # req[c].source
      BY <1>3, <1>6, <2>2 DEF UndisturbedKnown
    <3> QED
      BY <1>2, <1>3, <1>6, <2>2, <3>2, <3>3
  <2> QED
    BY <2>1, <2>2
<1> QED
  BY <1>5, <1>6 DEF UndisturbedKnown

\* What was stored stays, and nobody comes to work on it, while the calls for other
\* sources go on.
LEMMA StoredStays ==
  ASSUME TrackerKnown, NEW c \in TrackCalls, P!Step(c),
         NEW r, r.source \in Sources, P!StoredExactly(r),
         \A g \in TrackCalls : pc[g] # "idle" => req[g].source # r.source,
         pc[c] = "idle" => req'[c].source # r.source
  PROVE  /\ P!StoredExactly(r)'
         /\ \A g \in TrackCalls : pc'[g] # "idle" => req'[g].source # r.source
<1> USE TrackerAssumed DEF P!Busy
<1>1. P!TypeOK /\ P!FoundOwn
  BY DEF TrackerKnown
<1>2. \A h \in TrackCalls \ {c} : pc'[h] = pc[h] /\ req'[h] = req[h]
  BY <1>1, P!OtherHandler
<1>3. pc[c] # "idle" => pc'[c] = "idle" \/ req'[c] = req[c]
  BY <1>1, P!OwnRequest
<1>4. P!StoredExactly(r)'
  BY <1>1, P!ExactKept
<1> QED
  BY <1>2, <1>3, <1>4

-----------------------------------------------------------------------------
(* The workers and their calls.                                            *)

\* A position is tracked by the worker that holds it, and by no other later.
LEMMA TrackedOnceKept ==
  ASSUME IInv, IInv', TrackedOnce, [Next]_vars
  PROVE  TrackedOnce'
<1> USE DEF IInv
<1>1. ASSUME NEW w \in Workers, Take(w) PROVE TrackedOnce'
  <2>1. Len(channel') = Len(channel) - 1 /\ Len(channel) \in Nat \ {0} /\ Head(channel) = channel[1]
    BY <1>1, HeadTailProperties, LenProperties DEF Take, IndexerTypeOK
  <2>2. Taken' = Taken + 1 /\ Head(channel) = Taken + 1 /\ Taken \in Nat
    BY <1>1, <2>1 DEF Take, Taken, IndexerTypeOK, ChannelInOrder
  <2>3. /\ tracked' = tracked /\ job'[w] = Taken + 1
        /\ \A v \in Workers \ {w} : worker'[v] = worker[v] /\ job'[v] = job[v]
    BY <1>1, <2>2 DEF Take, IndexerTypeOK
  <2> QED
    BY <2>2, <2>3 DEF TrackedOnce
<1>2. ASSUME NEW w \in Workers, TrackSource(w) PROVE TrackedOnce'
  <2>1. /\ tracked' = tracked \cup {job[w]} /\ job' = job /\ Taken' = Taken
        /\ worker'[w] = "cleanup" /\ worker[w] = "track"
        /\ \A v \in Workers \ {w} : worker'[v] = worker[v]
    BY <1>2 DEF TrackSource, IndexerTypeOK, Taken, After
  <2>2. job[w] \in 1..Taken /\ \A v \in Workers \ {w} : worker[v] \in Before => job[v] # job[w]
    BY <2>1 DEF JobsTaken, Working, Before
  <2> QED
    BY <2>1, <2>2 DEF TrackedOnce, Before
<1>3. ASSUME NEW w \in Workers, RangeEnds(w) \/ TempDir(w) \/ Stage(w) \/ StageFails(w) \/ Cleanup(w) \/ Done(w)
      PROVE TrackedOnce'
  <2>1. /\ tracked' = tracked /\ Taken' = Taken
        /\ \A v \in Workers : worker'[v] \in Before => worker[v] \in Before /\ job'[v] = job[v]
    BY <1>3 DEF RangeEnds, TempDir, Stage, StageFails, Cleanup, Done, IndexerTypeOK, Taken, Before,
       Stages, After, OnFailure
  <2> QED
    BY <2>1 DEF TrackedOnce
<1>4. CASE MainStep
  <2>1. Taken' = Taken
    <3>1. CASE Feed
      <4>1. Len(channel') = Len(channel) + 1 /\ Len(channel) \in Nat
        BY <3>1, AppendProperties, LenProperties DEF Feed, IndexerTypeOK
      <4> QED
        BY <3>1, <4>1 DEF Feed, Taken, IndexerTypeOK
    <3> QED
      BY <1>4, <3>1 DEF MainStep, FeedDone, Return, Taken
  <2>2. UNCHANGED <<tracked, worker, job>>
    BY <1>4 DEF MainStep, Feed, FeedDone, Return
  <2> QED
    BY <2>1, <2>2 DEF TrackedOnce
<1>5. CASE UNCHANGED vars
  BY <1>5 DEF vars, TrackedOnce, Taken
<1> QED
  BY <1>1, <1>2, <1>3, <1>4, <1>5 DEF Next, WorkerStep

\* The lists of the runs with a tracker.
LEMMA TrackedLists ==
  ASSUME NEW n \in 1..MaxRuns, NEW f \in TrackedFetches[n]
  PROVE  /\ MaxRuns \in Nat /\ f \in Fetches /\ Len(f) \in Nat /\ Len(f) <= MaxTracked
         /\ \A i \in 1..Len(f) : f[i] \in Sources
<1>1. MaxRuns \in Nat /\ TrackedFetches[n] \in SUBSET Fetches
  BY TrackedAssumption, LenProperties, ElementOfSeq DEF MaxRuns
<1> QED
  BY <1>1, TrackedAssumption, FetchLength

\* The call of a worker that is about to track.
LEMMA CallKnown ==
  ASSUME IInv, TrackedOnce, CallsOfRun, reachable, NEW w \in Workers, worker[w] = "track"
  PROVE  /\ CallOf(w) \in TrackCalls /\ CallOf(w) = <<run, job[w]>>
         /\ job[w] \in Positions /\ job[w] \in 1..MaxTracked /\ job[w] \notin tracked
         /\ repos[job[w]] \in Sources
<1>1. run \in 1..MaxRuns /\ repos \in TrackedFetches[run]
  BY DEF CallsOfRun
<1>2. job[w] \in 1..Taken /\ job[w] \notin tracked
  BY DEF IInv, JobsTaken, Working, TrackedOnce, Before
<1>3. Len(repos) \in Nat /\ Len(repos) <= MaxTracked /\ MaxTracked \in Nat
      /\ \A i \in 1..Len(repos) : repos[i] \in Sources
  BY <1>1, TrackedLists, TrackedAssumption
<1>4. Taken <= Len(repos) /\ Taken \in Nat
  BY LenProperties DEF IInv, ChannelInOrder, IndexerTypeOK, Taken
<1>5. job[w] \in 1..Len(repos) /\ job[w] \in 1..MaxTracked
  BY <1>2, <1>3, <1>4
<1> QED
  BY <1>1, <1>2, <1>3, <1>5 DEF CallOf, TrackCalls, Positions

\* The parts of the invariant that concern the tracker.
TrackerPart == CallsOfRun /\ TrackerKnown /\ UndisturbedKnown /\ AnswersStored

\* The handlers and the table stay as they are.
LEMMA TrackerUnchanged ==
  ASSUME TrackerKnown, UndisturbedKnown, UNCHANGED trackerVars, overlapped' = overlapped
  PROVE  TrackerKnown' /\ UndisturbedKnown' /\ \A r : P!StoredExactly(r) => P!StoredExactly(r)'
<1> USE DEF trackerVars
<1>1. TrackerKnown'
  <2>0. UNCHANGED P!vars
    BY DEF P!vars
  <2>1. P!TypeOK'
    BY DEF TrackerKnown, P!TypeOK, P!Busy
  <2>2. P!FoundOwn' /\ P!NodesKept(table') /\ P!EndpointsLive'
    BY <2>0, TrackerAssumed, P!FoundOwnStep, P!NodesKeptStep, P!EndpointsStep DEF TrackerKnown
  <2> QED
    BY <2>1, <2>2 DEF TrackerKnown
<1>2. \A s : P!NoOrphansOf(s) => P!NoOrphansOf(s)'
  BY DEF P!NoOrphansOf, P!Store!LiveKeys
<1>3. \A c \in TrackCalls : P!Knows(c) => P!Knows(c)'
  BY DEF P!Knows, P!ManagedFound, P!DependsFound, P!NothingStale, P!Stored, P!Store!LiveKeys
<1>4. \A r : P!StoredExactly(r) => P!StoredExactly(r)'
  BY DEF P!StoredExactly, P!Stored, P!Store!LiveKeys
<1> QED
  BY <1>1, <1>2, <1>3, <1>4 DEF UndisturbedKnown

\* Steps of the indexer that do not concern the tracker, and a lost connection.
LEMMA QuietStep ==
  ASSUME TrackerPart, UNCHANGED <<trackerVars, run, reachable, overlapped, answered, repos>>,
         tracked \subseteq tracked'
  PROVE  TrackerPart'
<1>1. CallsOfRun'
  BY DEF TrackerPart, CallsOfRun, trackerVars
<1>2. TrackerKnown' /\ UndisturbedKnown' /\ \A r : P!StoredExactly(r) => P!StoredExactly(r)'
  BY TrackerUnchanged DEF TrackerPart
<1>3. AnswersStored'
  <2>1. ASSUME NEW c, P!StoredExactly(answered[c].request)
        PROVE  P!StoredExactly(answered[c].request)'
    <3>1. PICK r : r = answered[c].request
      OBVIOUS
    <3>2. P!StoredExactly(r)'
      BY <1>2, <2>1, <3>1
    <3> QED
      BY <3>1, <3>2 DEF P!StoredExactly, P!Stored
  <2> QED
    BY <2>1 DEF TrackerPart, AnswersStored, Injective, Positions, trackerVars
<1> QED
  BY <1>1, <1>2, <1>3 DEF TrackerPart

\* A step of a handler that is at work.
LEMMA HandlerKeeps ==
  ASSUME Driver # "postgres", TrackerPart, run \in Nat,
         NEW c \in TrackCalls, HandlerStep(c) \/ HandlerFails(c) \/ LostFinishes(c)
  PROVE  TrackerPart'
<1>0. TrackerKnown /\ UndisturbedKnown /\ CallsOfRun /\ AnswersStored
  BY DEF TrackerPart
<1>1. P!Step(c) /\ pc[c] # "idle" /\ UNCHANGED <<vars, callVars>>
  BY HandlerSteps DEF HandlerStep, HandlerFails, LostFinishes
<1>2. UNCHANGED <<repos, tracked, run, reachable, overlapped, answered>>
  BY <1>1 DEF vars, callVars
<1>3. TrackerKnown'
  BY <1>0, <1>1, TrackerStep
<1>4. UndisturbedKnown'
  BY <1>0, <1>1, <1>2, UndisturbedStep
<1>5. \A h \in TrackCalls \ {c} : pc'[h] = pc[h] /\ req'[h] = req[h]
  BY <1>0, <1>1, TrackerAssumed, P!OtherHandler DEF TrackerKnown
<1>6. pc'[c] = "idle" \/ req'[c] = req[c]
  BY <1>0, <1>1, TrackerAssumed, P!OwnRequest DEF TrackerKnown, P!Busy
<1>7. CallsOfRun'
  <2>1. ~(c[1] > run)
    BY <1>0, <1>1 DEF CallsOfRun
  <2>2. /\ run' \in 1..MaxRuns
        /\ reachable' \in BOOLEAN /\ (reachable' => repos' \in TrackedFetches[run'])
        /\ answered' \in [TrackCalls -> [status : P!States \cup {"none"}, request : Requests \cup {P!NoRequest}]]
    BY <1>0, <1>2 DEF CallsOfRun, NoAnswer
  <2>3. \A g \in TrackCalls : g[1] > run' => pc'[g] = "idle" /\ answered'[g].status = "none"
    BY <1>0, <1>2, <1>5, <2>1 DEF CallsOfRun
  <2>4. \A i \in 1..MaxTracked : <<run', i>> \in TrackCalls =>
          /\ pc'[<<run', i>>] # "idle" => req'[<<run', i>>].source = repos'[i]
          /\ answered'[<<run', i>>].status # "none" => i \in tracked'
    BY <1>0, <1>1, <1>2, <1>5, <1>6 DEF CallsOfRun
  <2> QED
    BY <2>2, <2>3, <2>4 DEF CallsOfRun
<1>8. AnswersStored'
  <2> SUFFICES ASSUME Injective, NEW i \in 1..MaxTracked, <<run, i>> \in TrackCalls,
                      answered[<<run, i>>].status = "ok", repos[i] \notin overlapped
               PROVE  /\ answered[<<run, i>>].request.source = repos[i] /\ repos[i] \in Sources
                      /\ P!StoredExactly(answered[<<run, i>>].request)'
                      /\ \A g \in TrackCalls : pc'[g] # "idle" => req'[g].source # repos[i]
    BY <1>2 DEF AnswersStored, Injective, Positions
  <2>1. PICK r : r = answered[<<run, i>>].request
    OBVIOUS
  <2>2. /\ r.source = repos[i] /\ repos[i] \in Sources /\ P!StoredExactly(r)
        /\ \A g \in TrackCalls : pc[g] # "idle" => req[g].source # repos[i]
    BY <1>0, <2>1 DEF AnswersStored
  <2>3. P!StoredExactly(r)' /\ \A g \in TrackCalls : pc'[g] # "idle" => req'[g].source # repos[i]
    BY <1>0, <1>1, <2>2, StoredStays
  <2>4. P!StoredExactly(answered[<<run, i>>].request)'
    BY <1>2, <2>1, <2>3 DEF P!StoredExactly, P!Stored
  <2> QED
    BY <2>1, <2>2, <2>3, <2>4
<1> QED
  BY <1>3, <1>4, <1>7, <1>8 DEF TrackerPart

\* A worker calls Track: for a source nobody is at work on, or that counts as
\* overlapped from now on; and not for one that was answered in this run.
LEMMA CallKeeps ==
  ASSUME Driver # "postgres", IInv, TrackedOnce, TrackerPart, run \in Nat,
         NEW w \in Workers, CallTrack(w)
  PROVE  TrackerPart'
<1> DEFINE c == CallOf(w)
<1>0. TrackerKnown /\ UndisturbedKnown /\ CallsOfRun /\ AnswersStored
  BY DEF TrackerPart
<1>1. reachable /\ worker[w] = "track"
  BY DEF CallTrack
<1>2. /\ c \in TrackCalls /\ c = <<run, job[w]>> /\ job[w] \in Positions /\ job[w] \in 1..MaxTracked
      /\ job[w] \notin tracked /\ repos[job[w]] \in Sources
  BY <1>0, <1>1, CallKnown
<1> HIDE DEF c
<1>3. PICK r \in Requests : r.source = repos[job[w]] /\ P!Track(c, r)
  BY WorkerCalls DEF c
<1>4. P!Step(c) /\ pc[c] = "idle" /\ pc' = [pc EXCEPT ![c] = "readManages"] /\ req' = [req EXCEPT ![c] = r]
  BY <1>3 DEF P!Step, P!Track
<1>5. /\ pc'[c] # "idle" /\ req'[c] = r
      /\ \A h \in TrackCalls \ {c} : pc'[h] = pc[h] /\ req'[h] = req[h]
  BY <1>0, <1>2, <1>4 DEF TrackerKnown, P!TypeOK
<1>6. UNCHANGED <<repos, tracked, run, reachable, answered>>
  BY DEF CallTrack, vars
<1>7. /\ overlapped \subseteq overlapped'
      /\ repos[job[w]] \notin overlapped' => \A g \in TrackCalls : pc[g] # "idle" => req[g].source # repos[job[w]]
  BY DEF CallTrack, T!Busy
<1>8. TrackerKnown'
  BY <1>0, <1>2, <1>4, TrackerStep
<1>9. UndisturbedKnown'
  BY <1>0, <1>2, <1>3, <1>4, <1>5, <1>7, UndisturbedStep
<1>10. CallsOfRun'
  <2>1. /\ run' \in 1..MaxRuns
        /\ reachable' \in BOOLEAN /\ (reachable' => repos' \in TrackedFetches[run'])
        /\ answered' \in [TrackCalls -> [status : P!States \cup {"none"}, request : Requests \cup {P!NoRequest}]]
    BY <1>0, <1>6 DEF CallsOfRun, NoAnswer
  <2>2. ASSUME NEW g \in TrackCalls, g[1] > run' PROVE pc'[g] = "idle" /\ answered'[g].status = "none"
    <3>1. g # c
      BY <1>2, <1>6, <2>2
    <3> QED
      BY <1>0, <1>5, <1>6, <2>2, <3>1 DEF CallsOfRun
  <2>3. ASSUME NEW i \in 1..MaxTracked, <<run', i>> \in TrackCalls
        PROVE  /\ pc'[<<run', i>>] # "idle" => req'[<<run', i>>].source = repos'[i]
               /\ answered'[<<run', i>>].status # "none" => i \in tracked'
    <3>1. <<run, i>> = c => i = job[w]
      BY <1>2
    <3> QED
      BY <1>0, <1>3, <1>5, <1>6, <2>3, <3>1 DEF CallsOfRun
  <2> QED
    BY <2>1, <2>2, <2>3 DEF CallsOfRun
<1>11. AnswersStored'
  <2> SUFFICES ASSUME Injective, NEW i \in 1..MaxTracked, <<run, i>> \in TrackCalls,
                      answered[<<run, i>>].status = "ok", repos[i] \notin overlapped'
               PROVE  /\ answered[<<run, i>>].request.source = repos[i] /\ repos[i] \in Sources
                      /\ P!StoredExactly(answered[<<run, i>>].request)'
                      /\ \A g \in TrackCalls : pc'[g] # "idle" => req'[g].source # repos[i]
    BY <1>6 DEF AnswersStored, Injective, Positions
  <2>1. PICK a : a = answered[<<run, i>>].request
    OBVIOUS
  <2>2. /\ a.source = repos[i] /\ repos[i] \in Sources /\ P!StoredExactly(a)
        /\ \A g \in TrackCalls : pc[g] # "idle" => req[g].source # repos[i]
    BY <1>0, <1>7, <2>1 DEF AnswersStored
  <2>3. i \in tracked
    BY <1>0 DEF CallsOfRun
  <2>4. i \in Positions
    <3>1. Taken <= Len(repos) /\ Taken \in Nat /\ Len(repos) \in Nat
      BY LenProperties DEF IInv, ChannelInOrder, IndexerTypeOK, Taken
    <3>2. i \in 1..Taken
      BY <2>3 DEF TrackedOnce
    <3> QED
      BY <3>1, <3>2 DEF Positions
  <2>5. repos[i] # repos[job[w]]
    BY <1>2, <2>3, <2>4 DEF Injective
  <2>6. P!StoredExactly(a)' /\ \A g \in TrackCalls : pc'[g] # "idle" => req'[g].source # repos[i]
    BY <1>0, <1>2, <1>3, <1>4, <1>5, <2>2, <2>5, StoredStays
  <2>7. P!StoredExactly(answered[<<run, i>>].request)'
    BY <1>6, <2>1, <2>6 DEF P!StoredExactly, P!Stored
  <2> QED
    BY <2>1, <2>2, <2>6, <2>7
<1> QED
  BY <1>8, <1>9, <1>10, <1>11 DEF TrackerPart

\* Track answers: what the handler knows at its end is what the answer says.
LEMMA ReturnKeeps ==
  ASSUME Driver # "postgres", IInv, TrackedOnce, TrackerPart, run \in Nat,
         NEW w \in Workers, TrackReturns(w)
  PROVE  TrackerPart'
<1> DEFINE c == CallOf(w)
<1>0. TrackerKnown /\ UndisturbedKnown /\ CallsOfRun /\ AnswersStored
  BY DEF TrackerPart
<1>1. reachable /\ worker[w] = "track"
  BY DEF TrackReturns
<1>2. /\ c \in TrackCalls /\ c = <<run, job[w]>> /\ job[w] \in Positions /\ job[w] \in 1..MaxTracked
      /\ job[w] \notin tracked /\ repos[job[w]] \in Sources
  BY <1>0, <1>1, CallKnown
<1>3. /\ P!Finish(c) /\ answered' = [answered EXCEPT ![c] = [status |-> pc[c], request |-> req[c]]]
      /\ tracked' = tracked \cup {job[w]} /\ UNCHANGED <<repos, run, reachable, overlapped>>
  BY WorkerCalls DEF TrackReturns, TrackSource
<1> HIDE DEF c
<1>4. P!Step(c) /\ pc[c] \in {"ok", "error"} /\ table' = table
  BY <1>3 DEF P!Step, P!Finish
<1>5. pc'[c] = "idle" /\ \A h \in TrackCalls \ {c} : pc'[h] = pc[h] /\ req'[h] = req[h]
  BY <1>0, <1>2, <1>3 DEF TrackerKnown, P!TypeOK, P!Finish
<1>6. /\ answered'[c].status = pc[c] /\ answered'[c].request = req[c]
      /\ \A h \in TrackCalls \ {c} : answered'[h] = answered[h]
  BY <1>0, <1>2, <1>3 DEF CallsOfRun
<1>7. TrackerKnown'
  BY <1>0, <1>2, <1>4, TrackerStep
<1>8. UndisturbedKnown'
  BY <1>0, <1>2, <1>3, <1>4, UndisturbedStep
<1>9. CallsOfRun'
  <2>1. /\ run' \in 1..MaxRuns
        /\ reachable' \in BOOLEAN /\ (reachable' => repos' \in TrackedFetches[run'])
    BY <1>0, <1>1, <1>3 DEF CallsOfRun
  <2>2. answered' \in [TrackCalls -> [status : P!States \cup {"none"}, request : Requests \cup {P!NoRequest}]]
    BY <1>0, <1>2, <1>3 DEF CallsOfRun, TrackerKnown, P!TypeOK
  <2>3. ASSUME NEW g \in TrackCalls, g[1] > run' PROVE pc'[g] = "idle" /\ answered'[g].status = "none"
    <3>1. g # c
      BY <1>2, <1>3, <2>3
    <3> QED
      BY <1>0, <1>3, <1>5, <1>6, <2>3, <3>1 DEF CallsOfRun
  <2>4. ASSUME NEW i \in 1..MaxTracked, <<run', i>> \in TrackCalls
        PROVE  /\ pc'[<<run', i>>] # "idle" => req'[<<run', i>>].source = repos'[i]
               /\ answered'[<<run', i>>].status # "none" => i \in tracked'
    <3>1. <<run, i>> = c => i = job[w]
      BY <1>2
    <3> QED
      BY <1>0, <1>3, <1>5, <1>6, <2>4, <3>1 DEF CallsOfRun
  <2> QED
    BY <2>1, <2>2, <2>3, <2>4 DEF CallsOfRun
<1>10. AnswersStored'
  <2> SUFFICES ASSUME Injective, NEW i \in 1..MaxTracked, <<run, i>> \in TrackCalls,
                      answered'[<<run, i>>].status = "ok", repos[i] \notin overlapped
               PROVE  /\ answered'[<<run, i>>].request.source = repos[i] /\ repos[i] \in Sources
                      /\ P!StoredExactly(answered[<<run, i>>].request)'
                      /\ \A g \in TrackCalls : pc'[g] # "idle" => req'[g].source # repos[i]
    BY <1>3 DEF AnswersStored, Injective, Positions
  <2>1. PICK a : a = answered'[<<run, i>>].request
    OBVIOUS
  <2>2. /\ a.source = repos[i] /\ repos[i] \in Sources /\ P!StoredExactly(a)
        /\ \A g \in TrackCalls \ {c} : pc[g] # "idle" => req[g].source # repos[i]
    <3>1. CASE i = job[w]
      <4>1. pc[c] = "ok" /\ a = req[c] /\ req[c].source = repos[i]
        BY <1>0, <1>2, <1>4, <1>6, <2>1, <3>1 DEF CallsOfRun
      <4>2. P!Knows(c) /\ \A g \in TrackCalls \ {c} : pc[g] # "idle" => req[g].source # req[c].source
        BY <1>0, <1>2, <4>1 DEF UndisturbedKnown
      <4>3. P!StoredExactly(req[c])
        BY <4>1, <4>2 DEF P!Knows, P!StoredExactly, P!NothingStale
      <4> QED
        BY <1>2, <3>1, <4>1, <4>2, <4>3
    <3>2. CASE i # job[w]
      <4>1. <<run, i>> # c
        BY <1>2, <3>2
      <4> QED
        BY <1>0, <1>6, <2>1, <4>1 DEF AnswersStored
    <3> QED
      BY <3>1, <3>2
  <2>3. P!StoredExactly(a)'
    BY <1>4, <2>2 DEF P!StoredExactly, P!Stored, P!Store!LiveKeys
  <2>4. P!StoredExactly(answered[<<run, i>>].request)'
    BY <1>3, <2>1, <2>3 DEF P!StoredExactly, P!Stored
  <2> QED
    BY <1>5, <2>1, <2>2, <2>4
<1> QED
  BY <1>7, <1>8, <1>9, <1>10 DEF TrackerPart

\* The next run: none of its calls has been made, and the handlers of earlier runs go
\* on with what they know.
LEMMA RestartKeeps ==
  ASSUME TrackerPart, run \in Nat, Restart
  PROVE  TrackerPart' /\ TrackedOnce'
<1>0. TrackerKnown /\ UndisturbedKnown /\ CallsOfRun
  BY DEF TrackerPart
<1>1. /\ UNCHANGED <<trackerVars, reachable, overlapped, answered>>
      /\ run' = run + 1 /\ reachable /\ run < MaxRuns /\ repos' \in TrackedFetches[run + 1] /\ tracked' = {}
  BY DEF Restart
<1>2. TrackerKnown' /\ UndisturbedKnown'
  BY <1>0, <1>1, TrackerUnchanged
<1>3. \A c \in TrackCalls : c[1] > run => pc'[c] = "idle" /\ answered'[c].status = "none"
  BY <1>0, <1>1 DEF CallsOfRun, trackerVars
<1>4. \A i : <<run', i>>[1] > run
  BY <1>1
<1>5. CallsOfRun'
  <2>1. run' \in 1..MaxRuns
    BY <1>1, TrackedAssumption, LenProperties DEF MaxRuns
  <2>2. \A c \in TrackCalls : c[1] > run' => c[1] > run
    BY <1>1, TrackedAssumption, LenProperties DEF TrackCalls, MaxRuns
  <2>3. /\ reachable' \in BOOLEAN /\ (reachable' => repos' \in TrackedFetches[run'])
        /\ answered' \in [TrackCalls -> [status : P!States \cup {"none"}, request : Requests \cup {P!NoRequest}]]
    BY <1>0, <1>1 DEF CallsOfRun
  <2> QED
    BY <1>3, <1>4, <2>1, <2>2, <2>3 DEF CallsOfRun
<1>6. AnswersStored'
  BY <1>3, <1>4 DEF AnswersStored
<1> QED
  BY <1>1, <1>2, <1>5, <1>6 DEF TrackerPart, TrackedOnce

\* What the last theorem assumes of the tracker's database: the upsert clears
\* date_deleted, no statement of a transaction fails while the others are committed
\* (the store collects the errors of its statements and commits what went through), and
\* what earlier releases left joins nodes and is managed.
SoundDatabase ==
  /\ Driver # "postgres" /\ ~PartialFailures
  /\ \A t \in InitialTables : P!EdgesJoinNodes(t) /\ P!EdgesManaged(t)

\* Before the first call there is nothing to know.
LEMMA SystemStarts ==
  ASSUME SoundDatabase, SystemInit
  PROVE  SystemInv
<1> USE TrackerAssumed DEF SoundDatabase
<1>1. IInv /\ run = 1 /\ tracked = {}
  BY IndexerStarts DEF SystemInit, Init
<1>2. \A c \in TrackCalls : pc[c] = "idle" /\ answered[c] = NoAnswer
  BY DEF SystemInit, T!Init
<1>3. P!Init
  BY DEF SystemInit, T!Init, P!Init, T!NoRequest, P!NoRequest
<1>4. TrackerKnown
  <2>1. P!TypeOK
    BY <1>3 DEF P!Init, P!TypeOK, P!States, P!Busy, P!InitialTablesAssumption
  <2>2. P!FoundOwn /\ P!NodesKept(table) /\ P!EndpointsLive
    BY <1>3 DEF P!Init, P!FoundOwn, P!EndpointsLive, P!InitialTablesAssumption
  <2> QED
    BY <2>1, <2>2 DEF TrackerKnown
<1>5. UndisturbedKnown
  <2>1. P!NoOrphans
    BY <1>3 DEF P!Init, P!NoOrphans
  <2>2. \A s \in Sources : P!NoOrphansOf(s)
    BY <2>1, P!NoOrphansParts
  <2> QED
    BY <1>2, <2>2 DEF UndisturbedKnown
<1>6. CallsOfRun
  <2>1. MaxRuns \in Nat /\ MaxRuns # 0
    BY TrackedAssumption, LenProperties, EmptySeq DEF MaxRuns
  <2>2. answered \in [TrackCalls -> [status : P!States \cup {"none"}, request : Requests \cup {P!NoRequest}]]
    BY DEF SystemInit, NoAnswer, T!NoRequest, P!NoRequest
  <2>3. NoAnswer.status = "none"
    BY DEF NoAnswer
  <2> QED
    BY <1>1, <1>2, <2>1, <2>2, <2>3 DEF CallsOfRun, SystemInit
<1>7. AnswersStored /\ TrackedOnce
  BY <1>1, <1>2 DEF AnswersStored, TrackedOnce, NoAnswer
<1> QED
  BY <1>1, <1>4, <1>5, <1>6, <1>7 DEF SystemInv

\* Every step of the system keeps its invariant.
LEMMA SystemKeeps ==
  ASSUME SoundDatabase, SystemInv, [SystemNext]_allVars
  PROVE  SystemInv'
<1>0. Driver # "postgres" /\ IInv /\ TrackedOnce /\ TrackerPart /\ run \in Nat \ {0}
  BY DEF SoundDatabase, SystemInv, TrackerPart
<1>1. IInv' /\ run' \in Nat \ {0} /\ ([Next]_vars \/ Init')
  <2>1. [Next]_vars \/ Init'
    BY <1>0, SystemSteps
  <2>2. Init' => IInv'
    BY IndexerStarts, PTL
  <2> QED
    BY <1>0, <2>1, <2>2, IndexerKeeps, RunNumber
<1>2. Init' => TrackedOnce'
  BY DEF Init, TrackedOnce
<1>3. TrackedOnce'
  BY <1>0, <1>1, <1>2, TrackedOnceKept
<1>4. TrackerPart'
  <2>1. CASE Main
    BY <1>0, <2>1, QuietStep DEF Main, MainStep, Feed, FeedDone, Return, callVars
  <2>2. ASSUME NEW w \in Workers, Worker(w) \/ TrackLost(w) PROVE TrackerPart'
    <3>1. CASE LocalStep(w)
      BY <1>0, <3>1, QuietStep DEF LocalStep, Take, RangeEnds, TempDir, Stage, StageFails, Cleanup, Done, callVars
    <3>2. CASE TrackUnavailable(w) \/ TrackLost(w)
      BY <1>0, <3>2, QuietStep DEF TrackUnavailable, TrackLost, TrackSource, callVars
    <3>3. CASE CallTrack(w)
      BY <1>0, <3>3, CallKeeps
    <3>4. CASE TrackReturns(w)
      BY <1>0, <3>4, ReturnKeeps
    <3> QED
      BY <2>2, <3>1, <3>2, <3>3, <3>4 DEF Worker
  <2>3. ASSUME NEW c \in TrackCalls, HandlerStep(c) \/ HandlerFails(c) \/ LostFinishes(c)
        PROVE  TrackerPart'
    BY <1>0, <2>3, HandlerKeeps
  <2>4. CASE Restart
    BY <1>0, <2>4, RestartKeeps
  <2>5. CASE UNCHANGED allVars
    BY <1>0, <2>5, QuietStep DEF allVars, vars, callVars
  <2> QED
    BY <2>1, <2>2, <2>3, <2>4, <2>5 DEF SystemNext
<1> QED
  BY <1>1, <1>3, <1>4 DEF SystemInv, TrackerPart

\* Whatever calls are lost, fail or outlive their run, and whichever run was killed:
\* after a run on a list without repetitions, the graph holds exactly the dependencies
\* of every repository the tracker acknowledged, unless calls for it overlapped.  The
\* calls fail as a whole: nothing is said of a database on which a statement of a
\* transaction fails alone.
THEOREM RunsIndexExactly ==
  ASSUME SoundDatabase
  PROVE  SystemSpec => []IndexedExactly
<1>1. SystemInv => IndexedExactly
  <2> SUFFICES ASSUME SystemInv, Injective, NEW i \in Positions \cap (1..MaxTracked),
                      answered[<<run, i>>].status = "ok", repos[i] \notin overlapped
               PROVE  LET r == answered[<<run, i>>].request
                          proposed == T!ProposedKeys(r)
                      IN /\ r.source = repos[i]
                         /\ \A m, d \in Modules : m # d =>
                              LET k == T!DependsItem(m, d, r.source)
                              IN /\ T!Live(k) <=> k \in proposed
                                 /\ k \in proposed => table[k].data = r.ref
                         /\ \A f \in r.managementFiles : T!Live(T!ManagesItem(r.source, f.module))
    BY DEF IndexedExactly
  <2> DEFINE r == answered[<<run, i>>].request
             L == P!Store!LiveKeys(table)
  <2>1. run \in 1..MaxRuns
    BY DEF SystemInv, CallsOfRun
  <2>2. <<run, i>> \in TrackCalls
    BY <2>1 DEF TrackCalls
  <2>3. r.source = repos[i] /\ P!StoredExactly(r)
    BY <2>2 DEF SystemInv, AnswersStored
  <2>4. T!ProposedKeys(r) = P!ProposedKeys(r)
    BY SameOperators
  <2>5. \A k : T!Live(k) <=> k \in L
    BY DEF T!Live, T!Store!Live, P!Store!LiveKeys
  <2>6. ASSUME NEW m \in Modules, NEW d \in Modules, m # d
        PROVE  LET k == T!DependsItem(m, d, r.source)
               IN /\ T!Live(k) <=> k \in P!ProposedKeys(r)
                  /\ k \in P!ProposedKeys(r) => table[k].data = r.ref
    <3> DEFINE k == T!DependsItem(m, d, r.source)
    <3>1. P!Reported(k, r.source) /\ k.k3 = r.source
      BY <2>6 DEF P!Reported, T!DependsItem, T!Item
    <3> HIDE DEF k
    <3>2. (k \in L <=> k \in P!ProposedKeys(r)) /\ (k \in P!ProposedKeys(r) => table[k].data = r.ref)
      BY <2>3, <3>1 DEF P!StoredExactly, P!Stored
    <3> QED
      BY <2>5, <3>2 DEF k
  <2>7. ASSUME NEW f \in r.managementFiles PROVE T!Live(T!ManagesItem(r.source, f.module))
    <3> DEFINE k == P!ManagesItem(r.source, f.module)
    <3>1. k \in P!ProposedKeys(r) /\ T!ManagesItem(r.source, f.module) = k
      BY DEF P!ProposedKeys, P!ManagesItem, T!ManagesItem, P!Item, T!Item
    <3>2. k.type = "manages" /\ k.k1 = r.source
      BY DEF P!ManagesItem, P!Item
    <3> HIDE DEF k
    <3> QED
      BY <2>3, <2>5, <3>1, <3>2 DEF P!StoredExactly, P!Stored
  <2> HIDE DEF r
  <2> QED
    BY <2>3, <2>4, <2>6, <2>7 DEF r
<1> QED
  BY <1>1, SystemStarts, SystemKeeps, PTL DEF SystemSpec
=============================================================================
