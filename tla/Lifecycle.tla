----------------------------- MODULE Lifecycle ------------------------------
(***************************************************************************)
(* The life of the process: start-up, the two listeners, the readiness     *)
(* flag and shutdown (main.go, internal/server).  Four goroutines run side *)
(* by side: the main one, the health listener, the webhook API, and a      *)
(* watcher that sets the readiness flag once the API reports its start.    *)
(***************************************************************************)
EXTENDS Integers

CONSTANT MaxConns   \* bound on health connections open at a time

ASSUME ConnsAssumption == MaxConns \in Nat

VARIABLES
  main,     \* where run, server.Run and Shutdown are
  exit,     \* how the process ended
  ctxDone,  \* SIGINT or SIGTERM has arrived
  runErr,   \* server.Run has received a listener error
  health,   \* the health listener
  conns,    \* connections it has accepted and not finished
  errCh,    \* a listener error waits in Server.errCh
  api,      \* the webhook API goroutine
  started,  \* a message waits in StartedChan
  watcher,  \* the goroutine that waits for it
  ready     \* Server.ready

vars == <<main, exit, ctxDone, runErr, health, conns, errCh, api, started,
          watcher, ready>>
healthVars == <<health, conns>>
apiVars == <<api, started>>

ConnsBounded == conns \in 0 .. MaxConns

TypeOK ==
  /\ main \in {"init", "bind", "select", "stop", "shutdown", "drain"}
  /\ exit \in {"none", "ok", "error", "fatal"}
  /\ health \in {"off", "serving", "failed", "closed"}
  /\ ConnsBounded
  /\ api \in {"off", "starting", "listening"}
  /\ watcher \in {"off", "waiting", "storing", "done"}
  /\ ctxDone \in BOOLEAN /\ runErr \in BOOLEAN /\ errCh \in BOOLEAN
  /\ started \in BOOLEAN /\ ready \in BOOLEAN

Init ==
  /\ main = "init" /\ exit = "none" /\ ctxDone = FALSE /\ runErr = FALSE
  /\ health = "off" /\ conns = 0 /\ errCh = FALSE
  /\ api = "off" /\ started = FALSE /\ watcher = "off" /\ ready = FALSE

\* Nothing runs once the process is over.
At(step) == exit = "none" /\ main = step
Running == exit = "none"

-----------------------------------------------------------------------------
Signal ==
  /\ Running /\ ~ctxDone
  /\ ctxDone' = TRUE
  /\ UNCHANGED <<main, exit, runErr, healthVars, errCh, apiVars, watcher, ready>>

\* The configuration is read and the provider resolves its view.
Initialise ==
  /\ At("init")
  /\ main' = "bind"
  /\ UNCHANGED <<exit, ctxDone, runErr, healthVars, errCh, apiVars, watcher, ready>>

\* The configuration or the view is refused.
InitialiseFails ==
  /\ At("init")
  /\ exit' = "error"
  /\ UNCHANGED <<main, ctxDone, runErr, healthVars, errCh, apiVars, watcher, ready>>

\* The health port cannot be bound.
StartFails ==
  /\ At("bind")
  /\ exit' = "error"
  /\ UNCHANGED <<main, ctxDone, runErr, healthVars, errCh, apiVars, watcher, ready>>

\* Faulty variant of Start: the server is ready at once.
StartReady ==
  /\ At("bind")
  /\ health' = "serving" /\ api' = "starting" /\ watcher' = "waiting"
  /\ main' = "select" /\ ready' = TRUE
  /\ UNCHANGED <<exit, ctxDone, runErr, conns, errCh, started>>

Start ==
  /\ At("bind")
  /\ health' = "serving" /\ api' = "starting" /\ watcher' = "waiting"
  /\ main' = "select"
  /\ UNCHANGED <<exit, ctxDone, runErr, conns, errCh, started, ready>>

-----------------------------------------------------------------------------
(* The webhook API and the watcher.                                        *)

\* Faulty variant of APIListens: nobody is told.
APIListensSilently ==
  /\ Running /\ api = "starting"
  /\ api' = "listening"
  /\ UNCHANGED <<main, exit, ctxDone, runErr, healthVars, errCh, started, watcher, ready>>

APIListens ==
  /\ Running /\ api = "starting"
  /\ api' = "listening" /\ started' = TRUE
  /\ UNCHANGED <<main, exit, ctxDone, runErr, healthVars, errCh, watcher, ready>>

\* StartHTTPApi calls log.Fatal when it cannot bind, and when it can no longer
\* serve.
APIFatal ==
  /\ Running /\ api # "off"
  /\ exit' = "fatal"
  /\ UNCHANGED <<main, ctxDone, runErr, healthVars, errCh, apiVars, watcher, ready>>

\* Faulty variant of WatcherStarted: the message is not waited for.
WatcherImpatient ==
  /\ Running /\ watcher = "waiting"
  /\ started' = FALSE /\ watcher' = "storing"
  /\ UNCHANGED <<main, exit, ctxDone, runErr, healthVars, errCh, api, ready>>

\* The watcher's select takes either case that is ready.
WatcherStarted ==
  /\ Running /\ watcher = "waiting" /\ started
  /\ started' = FALSE /\ watcher' = "storing"
  /\ UNCHANGED <<main, exit, ctxDone, runErr, healthVars, errCh, api, ready>>

WatcherCancelled ==
  /\ Running /\ watcher = "waiting" /\ ctxDone
  /\ watcher' = "done"
  /\ UNCHANGED <<main, exit, ctxDone, runErr, healthVars, errCh, apiVars, ready>>

StoreReady ==
  /\ Running /\ watcher = "storing"
  /\ ready' = TRUE /\ watcher' = "done"
  /\ UNCHANGED <<main, exit, ctxDone, runErr, healthVars, errCh, apiVars>>

-----------------------------------------------------------------------------
(* The health listener and its clients, whose connections net/http counts. *)

Connect ==
  /\ Running /\ health = "serving" /\ conns < MaxConns
  /\ conns' = conns + 1
  /\ UNCHANGED <<main, exit, ctxDone, runErr, health, errCh, apiVars, watcher, ready>>

Disconnect ==
  /\ Running /\ conns > 0
  /\ conns' = conns - 1
  /\ UNCHANGED <<main, exit, ctxDone, runErr, health, errCh, apiVars, watcher, ready>>

\* Faulty variant of HealthFails: the error is dropped.
HealthFailsSilently ==
  /\ Running /\ health = "serving"
  /\ health' = "failed"
  /\ UNCHANGED <<main, exit, ctxDone, runErr, conns, errCh, apiVars, watcher, ready>>

\* Serve returns another error than ErrServerClosed.
HealthFails ==
  /\ Running /\ health = "serving"
  /\ health' = "failed" /\ errCh' = TRUE
  /\ UNCHANGED <<main, exit, ctxDone, runErr, conns, apiVars, watcher, ready>>

-----------------------------------------------------------------------------
(* Run and Shutdown.                                                       *)

SelectSignal ==
  /\ At("select") /\ ctxDone
  /\ main' = "stop"
  /\ UNCHANGED <<exit, ctxDone, runErr, healthVars, errCh, apiVars, watcher, ready>>

\* Faulty variant of SelectError: the error is logged and forgotten.
SelectErrorForgotten ==
  /\ At("select") /\ errCh
  /\ main' = "stop" /\ errCh' = FALSE
  /\ UNCHANGED <<exit, ctxDone, runErr, healthVars, apiVars, watcher, ready>>

SelectError ==
  /\ At("select") /\ errCh
  /\ main' = "stop" /\ errCh' = FALSE /\ runErr' = TRUE
  /\ UNCHANGED <<exit, ctxDone, healthVars, apiVars, watcher, ready>>

StoreNotReady ==
  /\ At("stop")
  /\ ready' = FALSE /\ main' = "shutdown"
  /\ UNCHANGED <<exit, ctxDone, runErr, healthVars, errCh, apiVars, watcher>>

\* http.Server.Shutdown closes the listener, then waits for its connections.
CloseHealth ==
  /\ At("shutdown")
  /\ health' = "closed" /\ main' = "drain"
  /\ UNCHANGED <<exit, ctxDone, runErr, conns, errCh, apiVars, watcher, ready>>

Drained ==
  /\ At("drain") /\ conns = 0
  /\ exit' = IF runErr THEN "error" ELSE "ok"
  /\ UNCHANGED <<main, ctxDone, runErr, healthVars, errCh, apiVars, watcher, ready>>

\* Faulty variant of DrainTimesOut: Shutdown waits without a limit.
DrainForever ==
  /\ At("drain") /\ conns > 0
  /\ UNCHANGED vars

\* ShutdownTimeout passes.
DrainTimesOut ==
  /\ At("drain") /\ conns > 0
  /\ exit' = "error"
  /\ UNCHANGED <<main, ctxDone, runErr, healthVars, errCh, apiVars, watcher, ready>>

-----------------------------------------------------------------------------
MainStep ==
  \/ Initialise \/ InitialiseFails \/ Start \/ StartFails
  \/ SelectSignal \/ SelectError \/ StoreNotReady \/ CloseHealth \/ Drained \/ DrainTimesOut

WatcherStep == WatcherStarted \/ WatcherCancelled \/ StoreReady

Next ==
  \/ MainStep \/ WatcherStep
  \/ APIListens \/ APIFatal \/ HealthFails
  \/ Connect \/ Disconnect \/ Signal

\* The scheduler runs the goroutines of the process. Clients, signals and
\* failures owe it nothing, and neither does the Portal, which start-up calls
\* with a context that only a signal cancels.
Fairness ==
  /\ WF_vars((main # "init" \/ ctxDone) /\ MainStep)
  /\ WF_vars(WatcherStep)

Spec == Init /\ [][Next]_vars /\ Fairness

-----------------------------------------------------------------------------
(* Correctness.                                                            *)

\* A pod is reported ready only while the webhook API listens, although the
\* flag is set by a third goroutine (Start).
ReadyMeansListening == ready => api = "listening"

\* A clean exit status means that somebody asked for it: a listener that fails
\* by itself is always reported (Run).
CleanExitOnlyOnSignal == exit = "ok" => ctxDone

\* A signal ends the process, whatever start-up, the listeners and the open
\* connections are doing (Run, Shutdown).
SignalEnds == ctxDone ~> ~Running

\* A failed health listener ends the process with an error, unless a signal
\* ends it first (Run, Err).
FailureEnds ==
  health = "failed" ~> (ctxDone \/ exit \in {"error", "fatal"})

\* The API's start is never missed: the pod becomes ready or is on its way out.
BecomesReady ==
  api = "listening" ~> (ready \/ ctxDone \/ main # "select" \/ ~Running)

\* Both are kept by the way the news travels: a start that was announced or taken
\* up has happened, and Run leaves its select for a reason only.
StartIsTold ==
  /\ started \/ watcher = "storing" \/ ready => api = "listening"
  /\ main \in {"init", "bind"} => api = "off"
StopHasReason == main \in {"stop", "shutdown", "drain"} => ctxDone \/ runErr

IInv == TypeOK /\ StartIsTold /\ StopHasReason /\ CleanExitOnlyOnSignal

\* "Shutdown stops the health listener gracefully and marks the server not
\* ready" (server.go:154): it stays marked while its connections drain.
StaysNotReady == main \in {"shutdown", "drain"} => ~ready
=============================================================================
