------------------------ MODULE ServerRuntimeProofs ------------------------
(***************************************************************************)
(* The start and the end of a tracker or gateway process, for every set of *)
(* calls and every number of signals: a call on the gRPC port is cut off   *)
(* only by force, and the backends are there while a port accepts calls.   *)
(*                                                                         *)
(* Three goroutines decide about that: main, the one that waits for        *)
(* signals and the one of GracefulStop.  The invariant says which of their *)
(* places go together, and what each place means for the listeners, the    *)
(* backends and the calls.                                                 *)
(***************************************************************************)
EXTENDS ServerRuntime, FiniteSetTheorems, SequenceTheorems, TLAPS

Reports == [ofCheck : BOOLEAN, state : {"ok", "outage"}]

\* The backends are opened one after the other before anything is served, and are
\* there until the listeners are closed.
MainPhase ==
  /\ Running <=> main # "exited"
  /\ main = "backends" => \/ backends = {}
                          \/ program = "gateway" /\ backends = {"extractor"}
  /\ main \in {"notify", "listen", "http", "grpc", "serving", "close"} => backends = AllBackends

\* The signal goroutine starts with Serve, and without it only a failure ends Action.
SignalPhase ==
  /\ main \in {"backends", "notify"} => stopper = "none"
  /\ stopper = "none" => \/ main \in {"backends", "notify", "exited"}
                         \/ main = "unwind" /\ failed
  /\ notified <=> stopper \notin {"none", "over"}

\* The graceful stop starts with the first signal, and whoever stops the server sets
\* quit before the server has stopped; Serve returns without an error only then.
StopPhase ==
  /\ graceful = "none" <=> stopper \in {"none", "start", "wait1", "first"}
  /\ quit <=> graceful \in {"draining", "done"}
  /\ stopper = "over" => graceful = "done"
  /\ (main \in {"close", "unwind"} /\ ~failed) => graceful = "done"
  /\ exit = "ok" => graceful = "done"

\* The HTTP port is served between the listening and the closing of the listeners.
PortPhase ==
  /\ main \in {"http", "grpc", "serving", "close"} => httpL = "open" /\ grpcL # "none"
  /\ httpServing => /\ main \in {"grpc", "serving", "close", "unwind", "exited"}
                    /\ httpL # "none" /\ grpcL # "none"
                    /\ httpL = "open" => main \in {"grpc", "serving", "close"}

\* The gRPC port has calls from Serve on, and none is open when the server has been
\* stopped or the process has ended.
CallPhase ==
  /\ \A c \in GrpcCalls : calls[c] # "idle" =>
       main \in {"serving", "close", "unwind", "exited"} /\ stopper # "none"
  /\ graceful = "done" => \A c \in GrpcCalls : calls[c] # "open"
  /\ ~Running => \A c \in Calls : calls[c] # "open"

\* The inductive invariant.
IInv == /\ TypeOK /\ reports \in Seq(Reports)
        /\ MainPhase /\ SignalPhase /\ StopPhase /\ PortPhase /\ CallPhase
        /\ AbortedOnlyByForce
USE DEF Running, signalVars, portVars, shutdownVars, endVars, healthVars

-----------------------------------------------------------------------------
(* Facts about backends and calls.                                         *)

\* The first backend of a program, and the gateway's second.
LEMMA BackendsInOrder ==
  /\ Backends[1] = IF program = "tracker" THEN "graphstore" ELSE "extractor"
  /\ program # "tracker" => Backends[2] = "tracker"
  /\ AllBackends = IF program = "tracker" THEN {"graphstore"} ELSE {"extractor", "tracker"}
<1>1. CASE program = "tracker"
  <2>1. Backends = <<"graphstore">> /\ Len(Backends) = 1 /\ Backends[1] = "graphstore"
    BY <1>1 DEF Backends
  <2>2. AllBackends = {"graphstore"}
    BY <2>1 DEF AllBackends
  <2>3. QED
    BY <1>1, <2>1, <2>2
<1>2. CASE program # "tracker"
  <2>1. Backends = <<"extractor", "tracker">>
    BY <1>2 DEF Backends
  <2>2. Len(Backends) = 2 /\ Backends[1] = "extractor" /\ Backends[2] = "tracker"
    BY <2>1
  <2>3. AllBackends = {"extractor", "tracker"}
    BY <2>2 DEF AllBackends
  <2>4. QED
    BY <1>2, <2>2, <2>3
<1>3. QED
  BY <1>1, <1>2

\* What is cut off is no longer open; nothing else happens to a call.
LEMMA CutOffCalls ==
  ASSUME TypeOK, NEW C \in SUBSET Calls
  PROVE  /\ CutOff(C) \in [Calls -> {"idle", "open", "answered", "aborted"}]
         /\ \A c \in Calls : /\ CutOff(C)[c] = "open" => calls[c] = "open" /\ c \notin C
                             /\ CutOff(C)[c] = "aborted" =>
                                  calls[c] = "aborted" \/ (calls[c] = "open" /\ c \in C)
                             /\ CutOff(C)[c] # "idle" <=> calls[c] # "idle"
  BY DEF CutOff, TypeOK

\* The invariant without the parts that calls and reports matter to.
Control == MainPhase /\ SignalPhase /\ StopPhase /\ PortPhase

USE DEF IInv

-----------------------------------------------------------------------------
(* Action and Serve, up to the servers.                                    *)

\* The process starts with nothing open and nobody waiting.
LEMMA ProcessStarts == Init => IInv
<1> SUFFICES ASSUME Init PROVE IInv
  OBVIOUS
<1>1. TypeOK /\ reports \in Seq(Reports)
  <2>1. reports \in Seq(Reports) /\ Len(reports) = 0
    BY EmptySeq DEF Init
  <2>2. calls \in [Calls -> {"idle", "open", "answered", "aborted"}]
    BY DEF Init
  <2>3. signals \in 0..MaxSignals
    BY MaxSignalsAssumption DEF Init
  <2>4. ~Running => \A c \in Calls : calls[c] # "open"
    BY DEF Init
  <2>5. backends \subseteq AllBackends
    BY DEF Init
  <2>6. Len(reports) <= 1
    BY <2>1
  <2>7. QED
    BY <2>1, <2>2, <2>3, <2>4, <2>5, <2>6 DEF Init, TypeOK
<1>2. QED
  BY <1>1 DEF Init, MainPhase, SignalPhase, StopPhase, PortPhase, CallPhase,
     AbortedOnlyByForce, Calls, GrpcCalls

\* The next backend is one of the program's own, and after the last one Serve begins.
LEMMA OpenBackendKeeps == ASSUME IInv, OpenBackend PROVE IInv'
<1> DEFINE new == Backends[Cardinality(backends) + 1]
<1>1. /\ backends' = backends \cup {new} /\ main = "backends"
      /\ main' = IF backends' = AllBackends THEN "notify" ELSE "backends"
      /\ UNCHANGED <<program, signalVars, portVars, shutdownVars, calls, endVars, healthVars>>
  BY DEF OpenBackend
<1>2. CASE backends = {}
  <2>1. new = Backends[1]
    BY <1>2, FS_EmptySet
  <2>2. backends' = {Backends[1]}
    BY <1>1, <1>2, <2>1
  <2>3. QED
    BY <1>1, <2>2, BackendsInOrder, ProgramsAssumption
    DEF TypeOK, MainPhase, SignalPhase, StopPhase, PortPhase, CallPhase, AbortedOnlyByForce,
        AllBackends, Backends
<1>3. CASE program = "gateway" /\ backends = {"extractor"}
  <2>1. new = "tracker"
    <3>1. Cardinality({"extractor"}) = 1
      BY FS_Singleton
    <3>2. new = Backends[2] /\ program # "tracker"
      BY <1>3, <3>1
    <3>3. QED
      BY <3>2, BackendsInOrder
  <2>2. backends' = AllBackends /\ AllBackends' = AllBackends
    BY <1>1, <1>3, <2>1, BackendsInOrder DEF AllBackends, Backends
  <2>3. QED
    BY <1>1, <2>2
    DEF TypeOK, MainPhase, SignalPhase, StopPhase, PortPhase, CallPhase, AbortedOnlyByForce
<1>4. QED
  BY <1>1, <1>2, <1>3 DEF MainPhase

\* The rest of the way to the servers, and the failures on it.
LEMMA StartKeeps ==
  ASSUME IInv, \/ BackendFails \/ Notify \/ TLSFails \/ Listen \/ ServeHTTP \/ ServeGRPC
  PROVE  IInv'
<1>1. AllBackends' = AllBackends /\ UNCHANGED <<program, backends, calls, exit, healthVars>>
  BY DEF BackendFails, Notify, TLSFails, Listen, ServeHTTP, ServeGRPC, AllBackends, Backends
<1>2. TypeOK' /\ reports' \in Seq(Reports)
  <2>1. CASE BackendFails
    BY <1>1, <2>1 DEF TypeOK, BackendFails
  <2>2. CASE TLSFails
    BY <1>1, <2>2 DEF TypeOK, TLSFails
  <2>3. CASE ServeGRPC
    <3>1. main' \in {"close", "serving"} /\ UNCHANGED <<signalVars, portVars, shutdownVars>>
      BY <2>3 DEF ServeGRPC
    <3>2. failed' \in BOOLEAN
      BY <2>3 DEF ServeGRPC, TypeOK
    <3>3. QED
      BY <1>1, <3>1, <3>2 DEF TypeOK
  <2>4. CASE Notify
    BY <1>1, <2>4 DEF TypeOK, Notify
  <2>5. CASE Listen
    <3>1. /\ main' \in {"http", "unwind"} /\ ~httpServing
          /\ httpL' \in {"open", "none"} /\ grpcL' \in {"open", "none"}
          /\ UNCHANGED <<signalVars, httpServing, shutdownVars>>
      BY <2>5 DEF Listen, PortPhase
    <3>2. failed' \in BOOLEAN
      BY <2>5 DEF Listen, TypeOK
    <3>3. QED
      BY <1>1, <3>1, <3>2 DEF TypeOK
  <2>6. CASE ServeHTTP
    BY <1>1, <2>6 DEF TypeOK, ServeHTTP, PortPhase
  <2>7. QED
    BY <2>1, <2>2, <2>3, <2>4, <2>5, <2>6
<1>3. MainPhase'
  BY <1>1 DEF MainPhase, BackendFails, Notify, TLSFails, Listen, ServeHTTP, ServeGRPC
<1>4. SignalPhase' /\ StopPhase'
  BY <1>1 DEF MainPhase, SignalPhase, StopPhase, TypeOK,
     BackendFails, Notify, TLSFails, Listen, ServeHTTP, ServeGRPC
<1>5. PortPhase'
  BY DEF PortPhase, BackendFails, Notify, TLSFails, Listen, ServeHTTP, ServeGRPC
<1>6. CallPhase' /\ AbortedOnlyByForce'
  BY <1>1 DEF MainPhase, CallPhase, AbortedOnlyByForce,
     BackendFails, Notify, TLSFails, Listen, ServeHTTP, ServeGRPC
<1>7. QED
  BY <1>2, <1>3, <1>4, <1>5, <1>6

-----------------------------------------------------------------------------
(* Calls and reports.                                                      *)

\* A call comes in only where its port accepts it, and an answer ends it.
LEMMA CallKeeps == ASSUME IInv, NEW c \in Calls, Arrive(c) \/ Answer(c) PROVE IInv'
<1>1. /\ UNCHANGED <<program, main, backends, signalVars, portVars, shutdownVars, endVars, healthVars>>
      /\ exit = "none" /\ \A d \in Calls \ {c} : calls'[d] = calls[d]
      /\ calls' \in [Calls -> {"idle", "open", "answered", "aborted"}]
      /\ calls'[c] \in {"open", "answered"}
  BY DEF Arrive, Answer, TypeOK
<1>2. (c \in GrpcCalls /\ calls'[c] = "open") => main = "serving" /\ ~quit
  BY DEF Arrive, Answer, Accepting, TypeOK
<1>3. (c \in GrpcCalls /\ calls'[c] = "answered") => calls[c] = "open"
  BY DEF Arrive, Answer, TypeOK
<1>4. TypeOK' /\ reports' \in Seq(Reports)
  BY <1>1 DEF TypeOK, AllBackends, Backends
<1>5. Control'
  BY <1>1 DEF Control, MainPhase, SignalPhase, StopPhase, PortPhase, AllBackends, Backends
<1>6. GrpcCalls \subseteq Calls
  BY DEF GrpcCalls, Calls
<1>7. main = "serving" => stopper # "none"
  BY DEF SignalPhase
<1>8. CallPhase'
  BY <1>1, <1>2, <1>3, <1>6, <1>7 DEF CallPhase, StopPhase
<1>9. AbortedOnlyByForce'
  BY <1>1, <1>6 DEF AbortedOnlyByForce
<1>10. QED
  BY <1>4, <1>5, <1>8, <1>9 DEF Control

\* Reports and the health status touch nothing else.
LEMMA HealthKeeps == ASSUME IInv, Monitor \/ SetServingStatus PROVE IInv'
<1>1. /\ UNCHANGED <<program, main, backends, signalVars, portVars, shutdownVars, calls, endVars>>
      /\ AllBackends' = AllBackends
  BY DEF Monitor, MonitorReports, SetServingStatus, AllBackends, Backends
<1>2. /\ reports' \in Seq(Reports) /\ Len(reports') <= 1
      /\ health' \in {"SERVING", "NOT_SERVING"} /\ overall' \in {"unknown", "ok", "outage"}
  <2>1. CASE Monitor
    <3>1. PICK state \in {"ok", "outage"}, ofCheck \in BOOLEAN : MonitorReports(state, ofCheck)
      BY <2>1 DEF Monitor
    <3>2. [ofCheck |-> ofCheck, state |-> state] \in Reports
      BY DEF Reports
    <3>3. QED
      BY <3>1, <3>2 DEF MonitorReports, TypeOK
  <2>2. CASE SetServingStatus
    <3>1. reports' \in Seq(Reports) /\ Len(reports') = Len(reports) - 1 /\ Len(reports) \in Nat
      BY <2>2, HeadTailProperties, LenProperties DEF SetServingStatus
    <3>2. QED
      BY <2>2, <3>1 DEF SetServingStatus, StatusOf, TypeOK
  <2>3. QED
    BY <2>1, <2>2
<1>3. TypeOK'
  BY <1>1, <1>2 DEF TypeOK
<1>4. QED
  BY <1>1, <1>2, <1>3
  DEF MainPhase, SignalPhase, StopPhase, PortPhase, CallPhase, AbortedOnlyByForce

-----------------------------------------------------------------------------
(* The end of the process.                                                 *)

\* The process ends: a call on the gRPC port that is cut off had a reason to be.
LEMMA ExitKeeps ==
  ASSUME IInv, Running, NEW status \in {"ok", "error", "killed", "panic"}, Exit(status),
         UNCHANGED <<program, notified, stopper, httpServing, failed, healthVars>>,
         signals' \in 0..MaxSignals,
         UNCHANGED shutdownVars \/ (quit' = TRUE /\ graceful' = "draining" /\ graceful = "start"),
         status = "ok" => graceful = "done" /\ UNCHANGED shutdownVars,
         \/ status = "panic" \/ failed \/ stopper = "over"
         \/ \A c \in GrpcCalls : calls[c] # "open"
  PROVE  IInv'
<1>1. /\ calls' = CutOff(Calls) /\ exit' = status /\ main' = "exited"
      /\ backends' = {} /\ httpL' = "closed" /\ grpcL' = "closed"
  BY DEF Exit
<1>2. /\ calls' \in [Calls -> {"idle", "open", "answered", "aborted"}]
      /\ \A c \in Calls : /\ calls'[c] # "open"
                          /\ calls'[c] = "aborted" => calls[c] \in {"aborted", "open"}
                          /\ calls'[c] # "idle" <=> calls[c] # "idle"
  BY <1>1, CutOffCalls
<1>3. GrpcCalls \subseteq Calls
  BY DEF GrpcCalls, Calls
<1>4. quit' \in BOOLEAN /\ graceful' \in {"none", "start", "draining", "done"}
  BY DEF TypeOK
<1>5. TypeOK' /\ reports' \in Seq(Reports)
  BY <1>1, <1>2, <1>4 DEF TypeOK
<1>6. MainPhase' /\ SignalPhase' /\ PortPhase'
  BY <1>1 DEF MainPhase, SignalPhase, PortPhase, TypeOK
<1>7. StopPhase'
  BY <1>1 DEF StopPhase
<1>8. CallPhase'
  BY <1>1, <1>2, <1>3 DEF CallPhase
<1>9. AbortedOnlyByForce'
  <2>1. ASSUME NEW c \in GrpcCalls, calls'[c] = "aborted"
        PROVE  stopper' = "over" \/ failed' \/ exit' = "panic"
    <3>1. calls[c] = "aborted" => stopper = "over" \/ failed
      BY DEF AbortedOnlyByForce
    <3>2. QED
      BY <1>1, <1>2, <1>3, <2>1, <3>1
  <2>2. exit' = "ok" => stopper' \in {"wait2", "second", "over"}
    BY <1>1 DEF StopPhase, TypeOK
  <2>3. QED
    BY <2>1, <2>2 DEF AbortedOnlyByForce
<1>10. QED
  BY <1>5, <1>6, <1>7, <1>8, <1>9

\* app.Run returns: without an error only when the server was stopped, and then no
\* call on the gRPC port is open.
LEMMA LeaveKeeps == ASSUME IInv, Leave PROVE IInv'
<1> DEFINE status == IF failed THEN "error" ELSE "ok"
<1>1. /\ main = "unwind" /\ Exit(status)
      /\ UNCHANGED <<program, signalVars, httpServing, shutdownVars, failed, healthVars>>
  BY DEF Leave
<1>2. Running
  BY <1>1 DEF MainPhase
<1>3. ~failed => graceful = "done" /\ \A c \in GrpcCalls : calls[c] # "open"
  BY <1>1 DEF StopPhase, CallPhase
<1>4. signals' \in 0..MaxSignals
  BY <1>1 DEF TypeOK
<1>5. status \in {"ok", "error", "killed", "panic"} /\ (status = "ok" => ~failed)
  OBVIOUS
<1> HIDE DEF status
<1>6. QED
  BY <1>1, <1>2, <1>3, <1>4, <1>5, ExitKeeps

\* A signal is taken, dropped or fatal; it is fatal before Serve, when there are no
\* calls, after a failure, or after the second one was taken.
LEMMA SignalKeeps == ASSUME IInv, Signal PROVE IInv'
<1>1. /\ Running /\ signals' = signals + 1 /\ signals < MaxSignals
      /\ UNCHANGED <<program, notified, httpServing, shutdownVars, failed, healthVars>>
  BY DEF Signal
<1>2. signals' \in 0..MaxSignals
  BY <1>1, MaxSignalsAssumption DEF TypeOK
<1>3. CASE ~notified
  <2>1. Exit("killed") /\ UNCHANGED stopper
    BY <1>3 DEF Signal
  <2>2. stopper = "over" \/ \A c \in GrpcCalls : calls[c] # "open"
    BY <1>3 DEF SignalPhase, CallPhase, TypeOK
  <2>3. QED
    BY <1>1, <1>2, <2>1, <2>2, ExitKeeps
<1>4. CASE notified
  <2>1. /\ stopper' = CASE stopper = "wait1" -> "first" [] stopper = "wait2" -> "second"
                        [] OTHER -> stopper
        /\ UNCHANGED <<exit, main, backends, httpL, grpcL, calls>>
        /\ AllBackends' = AllBackends
    BY <1>4 DEF Signal, AllBackends, Backends
  <2>2. /\ stopper' \in {"start", "wait1", "first", "wait2", "second"}
        /\ stopper \notin {"none", "over"}
        /\ stopper \in {"wait2", "second"} <=> stopper' \in {"wait2", "second"}
    BY <1>4, <2>1 DEF TypeOK, SignalPhase
  <2>3. TypeOK' /\ reports' \in Seq(Reports)
    BY <1>1, <1>2, <2>1, <2>2 DEF TypeOK
  <2>4. MainPhase' /\ PortPhase'
    BY <1>1, <2>1 DEF MainPhase, PortPhase
  <2>5. SignalPhase' /\ StopPhase'
    BY <1>1, <2>1, <2>2 DEF SignalPhase, StopPhase, TypeOK
  <2>6. CallPhase' /\ AbortedOnlyByForce'
    BY <1>1, <2>1, <2>2 DEF CallPhase, AbortedOnlyByForce
  <2>7. QED
    BY <2>3, <2>4, <2>5, <2>6
<1>5. QED
  BY <1>3, <1>4

\* The signal goroutine starts the graceful stop after the first signal; after the
\* second one it cuts off the calls itself.
LEMMA StopperKeeps ==
  ASSUME IInv, \/ StopperWaits \/ StopGracefully \/ StopNow \/ Drained
  PROVE  IInv'
<1>1. /\ UNCHANGED <<program, main, backends, signals, httpL, httpServing, endVars, healthVars>>
      /\ AllBackends' = AllBackends /\ Running
  BY DEF StopperWaits, StopGracefully, StopNow, Drained, AllBackends, Backends
<1>2. GrpcCalls \cup H2cCalls \subseteq Calls
  BY DEF GrpcCalls, Calls
<1>3. /\ calls' \in [Calls -> {"idle", "open", "answered", "aborted"}]
      /\ \A c \in Calls : /\ calls'[c] = "open" => calls[c] = "open"
                          /\ calls'[c] # "idle" <=> calls[c] # "idle"
                          /\ calls'[c] = "aborted" => calls[c] = "aborted" \/ stopper' = "over"
  BY <1>2, CutOffCalls DEF StopperWaits, StopGracefully, StopNow, Drained, TypeOK
<1>4. graceful' = "done" => graceful = "done" \/ \A c \in GrpcCalls : calls'[c] # "open"
  BY <1>2, CutOffCalls DEF StopperWaits, StopGracefully, StopNow, Drained
<1>5. /\ stopper' \in {"wait1", "wait2", "over", stopper}
      /\ graceful' \in {"start", "done", graceful}
      /\ grpcL' \in {grpcL, "closed"} /\ (grpcL' # grpcL => main = "serving")
      /\ quit' \in BOOLEAN /\ notified' \in BOOLEAN
  BY DEF StopperWaits, StopGracefully, StopNow, Drained, TypeOK
<1>6. TypeOK' /\ reports' \in Seq(Reports)
  BY <1>1, <1>3, <1>5 DEF TypeOK
<1>7. MainPhase' /\ PortPhase'
  BY <1>1, <1>5 DEF MainPhase, PortPhase
<1>8. SignalPhase' /\ StopPhase'
  BY <1>1 DEF StopperWaits, StopGracefully, StopNow, Drained, SignalPhase, StopPhase, TypeOK
<1>9. stopper' # "none" /\ (stopper = "over" => stopper' = "over")
  BY DEF StopperWaits, StopGracefully, StopNow, Drained, StopPhase
<1>10. CallPhase' /\ AbortedOnlyByForce'
  BY <1>1, <1>2, <1>3, <1>4, <1>9 DEF CallPhase, AbortedOnlyByForce
<1>11. QED
  BY <1>6, <1>7, <1>8, <1>10

\* The graceful stop closes the listener and cuts off nothing, or panics.
LEMMA DrainKeeps == ASSUME IInv, Drain PROVE IInv'
<1>1. /\ Running /\ graceful = "start" /\ quit' = TRUE /\ graceful' = "draining"
      /\ UNCHANGED <<program, signalVars, httpServing, failed, healthVars>>
  BY DEF Drain
<1>2. CASE \E c \in H2cCalls : calls[c] = "open"
  <2>1. Exit("panic")
    BY <1>2 DEF Drain
  <2>2. signals' \in 0..MaxSignals
    BY <1>1 DEF TypeOK
  <2>3. QED
    BY <1>1, <2>1, <2>2, ExitKeeps
<1>3. CASE ~ \E c \in H2cCalls : calls[c] = "open"
  <2>1. /\ UNCHANGED <<main, backends, httpL, calls, exit>> /\ AllBackends' = AllBackends
        /\ grpcL' \in {grpcL, "closed"} /\ (grpcL' # grpcL => main = "serving")
    BY <1>1, <1>3 DEF Drain, AllBackends, Backends
  <2>2. TypeOK' /\ reports' \in Seq(Reports)
    BY <1>1, <2>1 DEF TypeOK
  <2>3. MainPhase' /\ PortPhase' /\ SignalPhase' /\ StopPhase'
    BY <1>1, <2>1 DEF MainPhase, PortPhase, SignalPhase, StopPhase
  <2>4. CallPhase' /\ AbortedOnlyByForce'
    BY <1>1, <2>1 DEF CallPhase, AbortedOnlyByForce
  <2>5. QED
    BY <2>2, <2>3, <2>4
<1>4. QED
  BY <1>2, <1>3

\* Serve returns, the listeners are closed and then the backends.
LEMMA UnwindKeeps ==
  ASSUME IInv, \/ ServeReturns \/ ServeFails \/ CloseListeners \/ CloseBackend
  PROVE  IInv'
<1>1. /\ UNCHANGED <<program, signalVars, httpServing, shutdownVars, calls, exit, healthVars>>
      /\ AllBackends' = AllBackends
  BY DEF ServeReturns, ServeFails, CloseListeners, CloseBackend, AllBackends, Backends
<1>2. TypeOK' /\ reports' \in Seq(Reports)
  <2>1. /\ main' \in {"close", "unwind"} /\ failed' \in BOOLEAN
        /\ httpL' \in {httpL, "closed"} /\ grpcL' \in {grpcL, "closed"}
    BY DEF ServeReturns, ServeFails, CloseListeners, CloseBackend, TypeOK
  <2>2. backends' \subseteq backends
    BY DEF ServeReturns, ServeFails, CloseListeners, CloseBackend
  <2>3. QED
    BY <1>1, <2>1, <2>2 DEF TypeOK
<1>3. MainPhase' /\ PortPhase'
  BY <1>1 DEF ServeReturns, ServeFails, CloseListeners, CloseBackend, MainPhase, PortPhase
<1>4. SignalPhase' /\ StopPhase'
  BY <1>1 DEF ServeReturns, ServeFails, CloseListeners, CloseBackend, SignalPhase, StopPhase
<1>5. CallPhase' /\ AbortedOnlyByForce'
  BY <1>1 DEF ServeReturns, ServeFails, CloseListeners, CloseBackend, CallPhase, AbortedOnlyByForce
<1>6. QED
  BY <1>2, <1>3, <1>4, <1>5

-----------------------------------------------------------------------------

\* Every step of the process, its clients and its monitor keeps the invariant.
LEMMA ProcessKeeps == IInv /\ [Next]_vars => IInv'
<1> SUFFICES ASSUME IInv, [Next]_vars PROVE IInv'
  OBVIOUS
<1>1. CASE Start \/ BackendFails \/ TLSFails
  BY <1>1, OpenBackendKeeps, StartKeeps DEF Start
<1>2. CASE Stopper \/ Signal
  BY <1>2, StopperKeeps, DrainKeeps, SignalKeeps DEF Stopper
<1>3. CASE End \/ ServeFails
  BY <1>3, UnwindKeeps, LeaveKeeps DEF End
<1>4. CASE Clients
  BY <1>4, CallKeeps DEF Clients
<1>5. CASE Monitor \/ SetServingStatus
  BY <1>5, HealthKeeps
<1>6. CASE UNCHANGED vars
  BY <1>6 DEF vars, TypeOK, MainPhase, SignalPhase, StopPhase, PortPhase, CallPhase,
     AbortedOnlyByForce, AllBackends, Backends
<1>7. QED
  BY <1>1, <1>2, <1>3, <1>4, <1>5, <1>6 DEF Next

\* Ports accept calls, and keep those on the gRPC port open, only before the defers.
LEMMA BackendsThere == IInv => BackendsThereWhileServing
<1> SUFFICES ASSUME IInv,
                    \/ \E c \in Calls : Accepting(c)
                    \/ ~failed /\ \E c \in GrpcCalls : calls[c] = "open"
             PROVE  backends = AllBackends
  BY DEF BackendsThereWhileServing
<1>1. GrpcCalls \subseteq Calls
  BY DEF GrpcCalls, Calls
<1>2. main \in {"grpc", "serving", "close"}
  <2>1. CASE \E c \in Calls : Accepting(c)
    BY <2>1 DEF Accepting, PortPhase
  <2>2. CASE ~failed /\ \E c \in GrpcCalls : calls[c] = "open"
    BY <1>1, <2>2 DEF CallPhase, StopPhase, MainPhase
  <2>3. QED
    BY <2>1, <2>2
<1>3. QED
  BY <1>2 DEF MainPhase

\* From its start to its exit, however signals, calls and failures fall, a process
\* cuts off a call on its gRPC port only by force and serves with all its backends.
THEOREM ServerRuntimeCorrect ==
  Spec => [](TypeOK /\ AbortedOnlyByForce /\ BackendsThereWhileServing)
<1>1. IInv => TypeOK /\ AbortedOnlyByForce /\ BackendsThereWhileServing
  BY BackendsThere
<1>2. QED
  BY <1>1, ProcessStarts, ProcessKeeps, PTL DEF Spec
=============================================================================
