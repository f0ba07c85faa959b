--------------------------- MODULE ServerRuntime ---------------------------
(***************************************************************************)
(* A tracker or gateway process from its start to its exit: Action of      *)
(* tracker/main.go and gateway/main.go, Serve and registerHealth of        *)
(* internal/mux/server.go, with the goroutine that waits for signals, the  *)
(* gRPC server it stops, the HTTP server nobody stops, and the calls that  *)
(* are under way meanwhile.                                                *)
(*                                                                         *)
(* The gRPC server (grpc-go 1.33) and os/signal are external: GracefulStop *)
(* closes the listeners and waits for the calls, Stop cuts them off, Serve *)
(* returns after either; a signal for a channel nobody is receiving from   *)
(* is dropped, and kills the process while nobody has asked for it.        *)
(***************************************************************************)
EXTENDS Naturals, Sequences, FiniteSets

CONSTANTS Programs,     \* the programs that may be started
          UnaryCalls,   \* calls on the gRPC port whose handlers answer
          Streams,      \* calls on the gRPC port that may stay open for ever
          H2cCalls,     \* gRPC calls on the HTTP port
          HttpCalls,    \* REST requests, metrics, health, version
          MaxSignals    \* how many signals are sent

VARIABLES program,      \* the program that runs
          main,         \* where its main goroutine is
          backends,     \* the backends it has connected to (or started)
          notified,     \* signal.Notify is in force
          stopper,      \* the goroutine that waits for signals
          signals,      \* how many signals have been sent
          httpL,        \* the listener of the HTTP port
          grpcL,        \* the listener of the gRPC port
          httpServing,  \* go http.Serve
          quit,         \* the gRPC server is stopping
          graceful,     \* the goroutine of GracefulStop
          calls,        \* the calls of the clients
          failed,       \* Action returns an error
          exit,         \* how the process ended
          overall,      \* the overall state the health monitor has come to
          reports,      \* reports on their way to registerHealth's goroutine
          health        \* the status the gRPC health service gives

signalVars == <<notified, stopper, signals>>
portVars == <<httpL, grpcL, httpServing>>
shutdownVars == <<quit, graceful>>
endVars == <<failed, exit>>
healthVars == <<overall, reports, health>>
vars == <<program, main, backends, signalVars, portVars, shutdownVars, calls, endVars, healthVars>>

ASSUME ProgramsAssumption == Programs \subseteq {"tracker", "gateway"}

ASSUME MaxSignalsAssumption == MaxSignals \in Nat

Calls == UnaryCalls \cup Streams \cup H2cCalls \cup HttpCalls

\* The calls the gRPC server has connections of its own for.
GrpcCalls == UnaryCalls \cup Streams

\* In the order Action opens them.
Backends == IF program = "tracker" THEN <<"graphstore">> ELSE <<"extractor", "tracker">>

AllBackends == {Backends[i] : i \in 1..Len(Backends)}

Init ==
  /\ program \in Programs
  /\ main = "backends" /\ backends = {} /\ notified = FALSE /\ stopper = "none" /\ signals = 0
  /\ httpL = "none" /\ grpcL = "none" /\ httpServing = FALSE
  /\ quit = FALSE /\ graceful = "none"
  /\ calls = [c \in Calls |-> "idle"]
  /\ failed = FALSE /\ exit = "none"
  /\ overall = "unknown" /\ reports = <<>> /\ health = "SERVING"

Running == exit = "none"

\* What the end of the process, or of the connections, does to the calls in C.
CutOff(C) == [c \in Calls |-> IF c \in C /\ calls[c] = "open" THEN "aborted" ELSE calls[c]]

\* The process ends, whatever its goroutines are doing.
Exit(status) ==
  /\ exit' = status
  /\ main' = "exited"
  /\ backends' = {} /\ httpL' = "closed" /\ grpcL' = "closed"
  /\ calls' = CutOff(Calls)

-----------------------------------------------------------------------------
(* Action and Serve, up to the servers.                                    *)

\* startGraphStore, or client.Connect of the next backend.
OpenBackend ==
  /\ main = "backends"
  /\ LET next == Backends[Cardinality(backends) + 1]
     IN backends' = backends \cup {next}
  /\ main' = IF backends' = AllBackends THEN "notify" ELSE "backends"
  /\ UNCHANGED <<program, signalVars, portVars, shutdownVars, calls, endVars, healthVars>>

\* It fails, and Action returns through the defers it has come to.
BackendFails ==
  /\ main = "backends"
  /\ main' = "unwind"
  /\ failed' = TRUE
  /\ UNCHANGED <<program, backends, signalVars, portVars, shutdownVars, calls, exit, healthVars>>

\* Serve: signal.Notify and the goroutine, then the registrations.
Notify ==
  /\ main = "notify"
  /\ notified' = TRUE
  /\ stopper' = "start"
  /\ main' = "listen"
  /\ UNCHANGED <<program, backends, signals, portVars, shutdownVars, calls, endVars, healthVars>>

\* LoadTLSConfig fails: no listener is opened.
TLSFails ==
  /\ main = "listen"
  /\ main' = "unwind" /\ failed' = TRUE
  /\ UNCHANGED <<program, backends, signalVars, portVars, shutdownVars, calls, exit, healthVars>>

\* Both listeners are tried; if one fails the other stays open until the exit.
Listen ==
  /\ main = "listen"
  /\ httpL' \in {"open", "none"} /\ grpcL' \in {"open", "none"}
  /\ IF httpL' = "open" /\ grpcL' = "open"
     THEN main' = "http" /\ UNCHANGED failed
     ELSE main' = "unwind" /\ failed' = TRUE
  /\ UNCHANGED <<program, backends, signalVars, httpServing, shutdownVars, calls, exit, healthVars>>

ServeHTTPFirst ==  \* a mutant: http is served before the listeners are checked
  /\ main = "listen"
  /\ httpServing' = TRUE /\ main' = "grpc"
  /\ UNCHANGED <<program, backends, signalVars, httpL, grpcL, shutdownVars, calls, endVars, healthVars>>

\* go http.Serve.
ServeHTTP ==
  /\ main = "http"
  /\ httpServing' = TRUE
  /\ main' = "grpc"
  /\ UNCHANGED <<program, backends, signalVars, httpL, grpcL, shutdownVars, calls, endVars, healthVars>>

\* grpcServer.Serve: on a server that was stopped before, an error at once.
ServeGRPC ==
  /\ main = "grpc"
  /\ IF quit THEN main' = "close" /\ failed' = TRUE
             ELSE main' = "serving" /\ UNCHANGED failed
  /\ UNCHANGED <<program, backends, signalVars, portVars, shutdownVars, calls, exit, healthVars>>

-----------------------------------------------------------------------------
(* The calls.                                                              *)

\* Whether a call can come in on its port.
Accepting(c) ==
  IF c \in GrpcCalls THEN main = "serving" /\ ~quit
  ELSE httpServing /\ httpL = "open" /\ (c \in H2cCalls => ~quit)

Arrive(c) ==
  /\ Running /\ calls[c] = "idle" /\ Accepting(c)
  /\ calls' = [calls EXCEPT ![c] = "open"]
  /\ UNCHANGED <<program, main, backends, signalVars, portVars, shutdownVars, endVars, healthVars>>

Answer(c) ==
  /\ Running /\ calls[c] = "open"
  /\ calls' = [calls EXCEPT ![c] = "answered"]
  /\ UNCHANGED <<program, main, backends, signalVars, portVars, shutdownVars, endVars, healthVars>>

-----------------------------------------------------------------------------
(* Signals.                                                                *)

\* SIGTERM or SIGINT: taken by a goroutine that is waiting for it, dropped if it is
\* doing something else, fatal without signal.Notify.
Signal ==
  /\ Running /\ signals < MaxSignals
  /\ signals' = signals + 1
  /\ IF ~notified THEN Exit("killed") /\ UNCHANGED stopper
     ELSE /\ stopper' = CASE stopper = "wait1" -> "first"
                          [] stopper = "wait2" -> "second"
                          [] OTHER -> stopper
          /\ UNCHANGED <<exit, main, backends, httpL, grpcL, calls>>
  /\ UNCHANGED <<program, notified, httpServing, shutdownVars, failed, healthVars>>

\* The goroutine comes to its first receive.
StopperWaits ==
  /\ Running /\ stopper = "start"
  /\ stopper' = "wait1"
  /\ UNCHANGED <<program, main, backends, notified, signals, portVars, shutdownVars, calls, endVars, healthVars>>

\* A mutant: the graceful stop is not run in a goroutine of its own.
StopInPlace ==
  /\ Running /\ stopper = "first"
  /\ stopper' = "blocked" /\ graceful' = "start"
  /\ UNCHANGED <<program, main, backends, notified, signals, portVars, quit, calls, endVars, healthVars>>

\* go grpcServer.GracefulStop().
StopGracefully ==
  /\ Running /\ stopper = "first"
  /\ stopper' = "wait2" /\ graceful' = "start"
  /\ UNCHANGED <<program, main, backends, notified, signals, portVars, quit, calls, endVars, healthVars>>

\* grpcServer.Stop() and the deferred signal.Stop.
StopNow ==
  /\ Running /\ stopper = "second"
  /\ stopper' = "over" /\ notified' = FALSE
  /\ quit' = TRUE /\ graceful' = "done"
  /\ grpcL' = IF main = "serving" THEN "closed" ELSE grpcL
  /\ calls' = CutOff(GrpcCalls \cup H2cCalls)
  /\ UNCHANGED <<program, main, backends, signals, httpL, httpServing, endVars, healthVars>>

\* A mutant: the listener of a server that is serving is closed after one signal,
\* and the calls are not waited for.
DrainCutsOff ==
  /\ Running /\ graceful = "start"
  /\ quit' = TRUE /\ graceful' = "draining"
  /\ grpcL' = IF main = "serving" THEN "closed" ELSE grpcL
  /\ calls' = CutOff(GrpcCalls)
  /\ UNCHANGED <<program, main, backends, signalVars, httpL, httpServing, endVars, healthVars>>

\* GracefulStop closes its listeners and drains the connections it has.  The one of
\* a gRPC call on the HTTP port cannot be drained: the goroutine panics, and with it
\* the process.
Drain ==
  /\ Running /\ graceful = "start"
  /\ quit' = TRUE /\ graceful' = "draining"
  /\ IF \E c \in H2cCalls : calls[c] = "open"
     THEN Exit("panic")
     ELSE /\ grpcL' = IF main = "serving" THEN "closed" ELSE grpcL
          /\ UNCHANGED <<main, backends, httpL, calls, exit>>
  /\ UNCHANGED <<program, signalVars, httpServing, failed, healthVars>>

\* ... and waits for the calls.
Drained ==
  /\ Running /\ graceful = "draining"
  /\ \A c \in GrpcCalls : calls[c] # "open"
  /\ graceful' = "done"
  /\ UNCHANGED <<program, main, backends, signalVars, portVars, quit, calls, endVars, healthVars>>

-----------------------------------------------------------------------------
(* The way out.                                                            *)

\* Serve of the gRPC server returns when it has been stopped.
ServeReturns ==
  /\ main = "serving" /\ quit /\ graceful = "done"
  /\ main' = "close"
  /\ UNCHANGED <<program, backends, signalVars, portVars, shutdownVars, calls, endVars, healthVars>>

\* Accept fails for good.
ServeFails ==
  /\ main = "serving" /\ ~quit
  /\ main' = "close"
  /\ failed' = TRUE
  /\ UNCHANGED <<program, backends, signalVars, portVars, shutdownVars, calls, exit, healthVars>>

CloseNothing ==  \* a mutant: the listeners are left open
  /\ main = "close"
  /\ main' = "unwind"
  /\ UNCHANGED <<program, backends, signalVars, portVars, shutdownVars, calls, endVars, healthVars>>

\* The deferred Close of the listeners.
CloseListeners ==
  /\ main = "close"
  /\ grpcL' = "closed" /\ httpL' = "closed"
  /\ main' = "unwind"
  /\ UNCHANGED <<program, backends, signalVars, httpServing, shutdownVars, calls, endVars, healthVars>>

\* The deferred Close of the gateway's connections, the last one first; the tracker
\* closes nothing.
CloseBackend ==
  /\ main = "unwind" /\ program = "gateway" /\ backends # {}
  /\ backends' = backends \ {Backends[Cardinality(backends)]}
  /\ UNCHANGED <<program, main, signalVars, portVars, shutdownVars, calls, endVars, healthVars>>

\* app.Run returns: the end of main, or logrus.Fatal.
Leave ==
  /\ main = "unwind" /\ (program = "gateway" => backends = {})
  /\ Exit(IF failed THEN "error" ELSE "ok")
  /\ UNCHANGED <<program, signalVars, httpServing, shutdownVars, failed, healthVars>>

-----------------------------------------------------------------------------
(* registerHealth.                                                         *)

\* The monitor reports on one check, or on all of them; "ok" stands for every state
\* that is not an outage.
MonitorReports(state, ofCheck) ==
  /\ Running /\ stopper # "none" /\ reports = <<>>
  /\ reports' = <<[ofCheck |-> ofCheck, state |-> state]>>
  /\ overall' = IF ofCheck THEN overall ELSE state
  /\ UNCHANGED <<program, main, backends, signalVars, portVars, shutdownVars, calls, endVars, health>>

\* A mutant: the report on a single check is taken for the overall one.
StatusOfAnyReport(r) == IF r.state = "outage" THEN "NOT_SERVING" ELSE "SERVING"

\* What the goroutine makes of a report.
StatusOf(r) ==
  IF r.ofCheck THEN health ELSE IF r.state = "outage" THEN "NOT_SERVING" ELSE "SERVING"

SetServingStatus ==
  /\ Running /\ reports # <<>>
  /\ health' = StatusOf(Head(reports))
  /\ reports' = Tail(reports)
  /\ UNCHANGED <<program, main, backends, signalVars, portVars, shutdownVars, calls, endVars, overall>>

-----------------------------------------------------------------------------

Start == OpenBackend \/ Notify \/ Listen \/ ServeHTTP \/ ServeGRPC

Stopper == StopperWaits \/ StopGracefully \/ StopNow \/ Drain \/ Drained

End == ServeReturns \/ CloseListeners \/ CloseBackend \/ Leave

Clients == \E c \in Calls : Arrive(c) \/ Answer(c)

Monitor == \E state \in {"ok", "outage"}, ofCheck \in BOOLEAN :
             MonitorReports(state, ofCheck)

Next == \/ Start \/ BackendFails \/ TLSFails \/ Stopper \/ End \/ ServeFails
        \/ Signal \/ Clients \/ Monitor \/ SetServingStatus

\* Goroutines run, and the handlers of unary calls answer; nothing makes a stream
\* end, a client call or anyone send a signal.
Fairness ==
  /\ WF_vars(Start) /\ WF_vars(StopperWaits \/ StopGracefully \/ StopNow)
  /\ WF_vars(Drain \/ Drained) /\ WF_vars(End) /\ WF_vars(SetServingStatus)
  /\ \A c \in UnaryCalls : WF_vars(Answer(c))

Spec == Init /\ [][Next]_vars /\ Fairness

-----------------------------------------------------------------------------
(* Properties.                                                             *)

\* No port is served before it is listened on, and a process that has ended has no
\* call open.
TypeOK ==
  /\ program \in Programs
  /\ main \in {"backends", "notify", "listen", "http", "grpc", "serving", "close",
               "unwind", "exited"}
  /\ backends \subseteq AllBackends /\ notified \in BOOLEAN
  /\ stopper \in {"none", "start", "wait1", "first", "wait2", "second", "over"}
  /\ signals \in 0..MaxSignals
  /\ httpL \in {"none", "open", "closed"} /\ grpcL \in {"none", "open", "closed"}
  /\ httpServing \in BOOLEAN /\ quit \in BOOLEAN
  /\ graceful \in {"none", "start", "draining", "done"}
  /\ calls \in [Calls -> {"idle", "open", "answered", "aborted"}]
  /\ failed \in BOOLEAN /\ exit \in {"none", "ok", "error", "killed", "panic"}
  /\ overall \in {"unknown", "ok", "outage"} /\ health \in {"SERVING", "NOT_SERVING"}
  /\ Len(reports) <= 1
  /\ httpServing => httpL # "none" /\ grpcL # "none"
  /\ ~Running => \A c \in Calls : calls[c] # "open"

\* A call that came in on the gRPC port is cut off only when the second signal has
\* been taken, when the gRPC server failed by itself, or by the panic of a graceful
\* stop that meets a gRPC call on the HTTP port; and the process ends well only
\* after a signal, with no such call cut off unless it was forced.
AbortedOnlyByForce ==
  /\ (\E c \in GrpcCalls : calls[c] = "aborted") => stopper = "over" \/ failed \/ exit = "panic"
  /\ exit = "ok" => stopper \in {"wait2", "second", "over"}

\* While a port accepts calls, and while one that came in on the gRPC port is open,
\* the backends are there: the defers undo the start in its opposite order.
BackendsThereWhileServing ==
  (\/ \E c \in Calls : Accepting(c)
   \/ (~failed /\ \E c \in GrpcCalls : calls[c] = "open")) => backends = AllBackends

\* A signal that is taken stops the gRPC server and with it, if no stream stays
\* open, the process; a process that a stream keeps is ready for the second signal,
\* which ends it.
ShutdownEnds ==
  /\ (stopper = "first") ~> (quit \/ ~Running)
  /\ (quit /\ \A c \in Streams : calls[c] # "open") ~> ~Running
  /\ quit ~> (~Running \/ stopper = "wait2")
  /\ (stopper = "second") ~> ~Running

\* The health service comes to say what the monitor last found of all checks.
HealthFollows ==
  /\ (overall = "outage") ~> (~Running \/ overall # "outage" \/ health = "NOT_SERVING")
  /\ (overall = "ok") ~> (~Running \/ overall = "outage" \/ health = "SERVING")
=============================================================================
