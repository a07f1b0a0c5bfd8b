-------------------------- MODULE ServerLifecycle --------------------------
(***************************************************************************)
(* The life of the process: main.run, server.New with its unwinding,       *)
(* Server.Run with the two serving goroutines, and Server.Close, which     *)
(* runs once in Run and once more in the deferred call of main.run.        *)
(* Around them run the clients' requests (on the gRPC port, or on the REST *)
(* port through the gateway's own connections) and the goroutines that     *)
(* close those connections when the context is done.                       *)
(*                                                                         *)
(* gRPC's and net/http's servers are modelled from how they are used:      *)
(* GracefulStop refuses new calls at once and returns when every handler   *)
(* has; Shutdown closes the listener and waits for the active HTTP         *)
(* handlers for five seconds at most.                                      *)
(***************************************************************************)
EXTENDS Auth

CONSTANTS Envs,      \* environments the process may be started in
          Services,  \* services whose gateway handlers New registers
          RestCalls, \* requests that come in on the REST port
          GrpcCalls, \* requests that come in on the gRPC port
          Conn       \* the service (so the connection) of each REST call

ASSUME CallsAssumption ==
    RestCalls \cap GrpcCalls = {} /\ Conn \in [RestCalls -> Services]

VARIABLES
    env,      \* the environment of the process
    main,     \* where the main goroutine is
    deferred, \* the Close that runs is main.run's deferred call
    ctx,      \* the context of signal.NotifyContext: "live" or "done"
    platform, \* the platform store: "none", "open", "closed"
    tenants,  \* the tenant manager, likewise
    conns,    \* the gateway connection of each service: "none", "open", "closed"
    grpc,     \* grpc.Server: "new", "stopping", "stopped"
    http,     \* http.Server: "new", "listening", "shutdown"
    gserve,   \* the goroutine that runs grpc.Serve
    hserve,   \* the goroutine that runs http.ListenAndServe
    ready,    \* Server.ready
    errCh,    \* the channel of Run
    handler,  \* the gRPC handler of each call: "none", "running", "done"
    proxy     \* the HTTP handler of each REST call: "none", "active", "done"

stores == <<platform, tenants>>
servers == <<grpc, http, gserve, hserve, ready, errCh>>
calls == <<handler, proxy>>
vars == <<env, main, deferred, ctx, stores, conns, servers, calls>>

Calls == RestCalls \cup GrpcCalls

Init ==
    /\ env \in Envs
    /\ main = "config" /\ deferred = FALSE /\ ctx = "live"
    /\ platform = "none" /\ tenants = "none" /\ conns = [s \in Services |-> "none"]
    /\ grpc = "new" /\ http = "new" /\ gserve = "off" /\ hserve = "off"
    /\ ready = FALSE /\ errCh = <<>>
    /\ handler = [c \in Calls |-> "none"] /\ proxy = [c \in RestCalls |-> "none"]

-----------------------------------------------------------------------------
(* main.run and server.New.  run's deferred cancel ends the context.       *)

\* Mutant: a closed store is forgotten.
Closed_Nil(store) == IF store = "open" THEN "nil" ELSE store

Closed(store) == IF store = "open" THEN "closed" ELSE store

Exit == main' = "exited" /\ ctx' = "done"

\* config.FromEnv, and the refusal of a production process without auth.
LoadConfig ==
    /\ main = "config"
    /\ IF Starts(env) THEN main' = "platform" /\ UNCHANGED ctx ELSE Exit
    /\ UNCHANGED <<env, deferred, stores, conns, servers, calls>>

OpenPlatform ==
    /\ main = "platform"
    /\ \/ main' = "tenants" /\ platform' = "open" /\ UNCHANGED ctx
       \/ Exit /\ UNCHANGED platform
    /\ UNCHANGED <<env, deferred, tenants, conns, servers, calls>>

\* New returns an error: it closes what it has opened.
Unwind == tenants' = Closed(tenants) /\ platform' = Closed(platform) /\ Exit

NewTenants ==
    /\ main = "tenants"
    /\ \/ tenants' = "open" /\ main' = "verifier" /\ UNCHANGED <<platform, ctx>>
       \/ Unwind
    /\ UNCHANGED <<env, deferred, conns, servers, calls>>

\* Mutant: the verifier's error path forgets the tenant manager.
NewVerifierStep_Leaks ==
    /\ main = "verifier"
    /\ \/ main' = "gateway" /\ UNCHANGED <<stores, ctx>>
       \/ /\ ~AuthDisabled(FromEnv(env))
          /\ platform' = "closed" /\ UNCHANGED tenants /\ Exit
    /\ UNCHANGED <<env, deferred, conns, servers, calls>>

\* auth.NewVerifier, when authentication is on; discovery may fail.
NewVerifierStep ==
    /\ main = "verifier"
    /\ \/ main' = "gateway" /\ UNCHANGED <<stores, ctx>>
       \/ ~AuthDisabled(FromEnv(env)) /\ Unwind
    /\ UNCHANGED <<env, deferred, conns, servers, calls>>

\* registerHandlers: one connection per service; a service that fails leaves
\* the connections before it to their goroutines.
RegisterHandler(s) ==
    /\ main = "gateway" /\ conns[s] = "none"
    /\ \/ conns' = [conns EXCEPT ![s] = "open"] /\ UNCHANGED <<main, stores, ctx>>
       \/ Unwind /\ UNCHANGED conns
    /\ UNCHANGED <<env, deferred, servers, calls>>

NewReturns ==
    /\ main = "gateway" /\ \A s \in Services : conns[s] # "none"
    /\ main' = "listen"
    /\ UNCHANGED <<env, deferred, ctx, stores, conns, servers, calls>>

-----------------------------------------------------------------------------
(* Server.Run *)

\* net.Listen, then the two goroutines; an error returns at once, and only
\* the deferred Close follows.
Listen ==
    /\ main = "listen"
    /\ \/ main' = "select" /\ gserve' = "start" /\ hserve' = "start" /\ UNCHANGED deferred
       \/ main' = "stop" /\ deferred' = TRUE /\ UNCHANGED <<gserve, hserve>>
    /\ UNCHANGED <<env, ctx, stores, conns, grpc, http, ready, errCh, calls>>

\* Mutant: Run waits for the signal only.
Select_IgnoresErrors ==
    /\ main = "select" /\ ctx = "done"
    /\ main' = "stop" /\ UNCHANGED errCh
    /\ UNCHANGED <<env, deferred, ctx, stores, conns, grpc, http, gserve, hserve, ready, calls>>

Select ==
    /\ main = "select"
    /\ \/ ctx = "done" /\ UNCHANGED errCh
       \/ errCh # <<>> /\ errCh' = Tail(errCh)
    /\ main' = "stop"
    /\ UNCHANGED <<env, deferred, ctx, stores, conns, grpc, http, gserve, hserve, ready, calls>>

\* grpc.Serve returns at once when the server is stopped already, and else
\* after GracefulStop is done.
GrpcServe ==
    /\ \/ gserve = "start" /\ gserve' = IF grpc = "new" THEN "serving" ELSE "send"
       \/ gserve = "serving" /\ grpc = "stopped" /\ gserve' = "send"
    /\ UNCHANGED <<env, main, deferred, ctx, stores, conns, grpc, http, hserve, ready, errCh,
                   calls>>

\* Accepting connections fails: Serve, or ListenAndServe, returns the error.
AcceptFails ==
    /\ \/ gserve = "serving" /\ grpc = "new" /\ gserve' = "send" /\ UNCHANGED hserve
       \/ hserve = "serving" /\ http = "listening" /\ hserve' = "send" /\ UNCHANGED gserve
    /\ UNCHANGED <<env, main, deferred, ctx, stores, conns, grpc, http, ready, errCh, calls>>

\* ready is set, then ListenAndServe binds, fails to, or finds the server
\* shut down.
HttpServe ==
    /\ \/ hserve = "start" /\ hserve' = "bind" /\ ready' = TRUE /\ UNCHANGED http
       \/ /\ hserve = "bind" /\ UNCHANGED ready
          /\ \/ http = "new" /\ http' = "listening" /\ hserve' = "serving"
             \/ hserve' = "send" /\ UNCHANGED http
       \/ hserve = "serving" /\ http = "shutdown" /\ hserve' = "send" /\ UNCHANGED <<http, ready>>
    /\ UNCHANGED <<env, main, deferred, ctx, stores, conns, grpc, gserve, errCh, calls>>

\* Mutant: a channel with room for one error.
ErrChCap_One == 1

\* make(chan error, 2)
ErrChCap == 2

Send(g) ==
    /\ g = "send" /\ Len(errCh) < ErrChCap
    /\ errCh' = Append(errCh, g)
SendResult ==
    /\ \/ Send(gserve) /\ gserve' = "ended" /\ UNCHANGED hserve
       \/ Send(hserve) /\ hserve' = "ended" /\ UNCHANGED gserve
    /\ UNCHANGED <<env, main, deferred, ctx, stores, conns, grpc, http, ready, calls>>

-----------------------------------------------------------------------------
(* Server.Close: GracefulStop, Shutdown, the tenant manager, the platform  *)
(* store.  Both stores take a second Close.                                *)

GracefulStop ==
    /\ main = "stop"
    /\ main' = "drain"
    /\ grpc' = IF grpc = "new" THEN "stopping" ELSE grpc
    /\ UNCHANGED <<env, deferred, ctx, stores, conns, http, gserve, hserve, ready, errCh, calls>>

\* Mutant: Stop instead of GracefulStop: handlers are not waited for.
Drained_AtOnce ==
    /\ main = "drain"
    /\ grpc' = "stopped" /\ main' = "shutdown"
    /\ UNCHANGED <<env, deferred, ctx, stores, conns, http, gserve, hserve, ready, errCh, calls>>

Drained ==
    /\ main = "drain" /\ \A c \in Calls : handler[c] # "running"
    /\ grpc' = "stopped" /\ main' = "shutdown"
    /\ UNCHANGED <<env, deferred, ctx, stores, conns, http, gserve, hserve, ready, errCh, calls>>

\* http.Server.Shutdown begins.
Shutdown ==
    /\ main = "shutdown"
    /\ http' = "shutdown" /\ main' = "wait"
    /\ UNCHANGED <<env, deferred, ctx, stores, conns, grpc, gserve, hserve, ready, errCh, calls>>

\* It returns when no HTTP handler is active, or when five seconds are over.
ShutdownReturns ==
    /\ main = "wait"
    /\ main' = "closeTenants"
    /\ UNCHANGED <<env, deferred, ctx, stores, conns, servers, calls>>

CloseTenants ==
    /\ main = "closeTenants"
    /\ tenants' = "closed" /\ main' = "closePlatform"
    /\ UNCHANGED <<env, deferred, ctx, platform, conns, servers, calls>>

\* The end of Close: the deferred call follows, or the process exits.
ClosePlatform ==
    /\ main = "closePlatform"
    /\ platform' = "closed" /\ deferred' = TRUE
    /\ IF deferred THEN Exit ELSE main' = "stop" /\ UNCHANGED ctx
    /\ UNCHANGED <<env, tenants, conns, servers, calls>>

-----------------------------------------------------------------------------
(* The world outside the main goroutine *)

Running == main # "exited"

\* SIGINT or SIGTERM, once main.run listens for them.
Signal ==
    /\ Running /\ main # "config" /\ ctx = "live" /\ ctx' = "done"
    /\ UNCHANGED <<env, main, deferred, stores, conns, servers, calls>>

\* The goroutine of RegisterXHandlerFromEndpoint.
CloseConn(s) ==
    /\ Running /\ ctx = "done" /\ conns[s] = "open"
    /\ conns' = [conns EXCEPT ![s] = "closed"]
    /\ UNCHANGED <<env, main, deferred, ctx, stores, servers, calls>>

\* Calls on open connections go on when accepting new ones has failed.
Accepts == gserve \notin {"off", "start"} /\ grpc = "new"

GrpcCall(c) ==
    /\ Running /\ Accepts /\ handler[c] = "none"
    /\ handler' = [handler EXCEPT ![c] = "running"]
    /\ UNCHANGED <<env, main, deferred, ctx, stores, conns, servers, proxy>>

RestCall(c) ==
    /\ Running /\ http = "listening" /\ proxy[c] = "none"
    /\ proxy' = [proxy EXCEPT ![c] = "active"]
    /\ UNCHANGED <<env, main, deferred, ctx, stores, conns, servers, handler>>

\* The gateway's stub reaches the gRPC port over its connection.
Proxied(c) ==
    /\ Running /\ proxy[c] = "active" /\ handler[c] = "none"
    /\ conns[Conn[c]] = "open" /\ Accepts
    /\ handler' = [handler EXCEPT ![c] = "running"]
    /\ UNCHANGED <<env, main, deferred, ctx, stores, conns, servers, proxy>>

HandlerReturns(c) ==
    /\ Running /\ handler[c] = "running"
    /\ handler' = [handler EXCEPT ![c] = "done"]
    /\ UNCHANGED <<env, main, deferred, ctx, stores, conns, servers, proxy>>

\* The HTTP handler ends with the answer, or with an error when the gRPC
\* server refuses the call or its connection is closed.
ProxyReturns(c) ==
    /\ Running /\ proxy[c] = "active"
    /\ handler[c] = "done" \/ conns[Conn[c]] # "open" \/ (handler[c] = "none" /\ ~Accepts)
    /\ proxy' = [proxy EXCEPT ![c] = "done"]
    /\ UNCHANGED <<env, main, deferred, ctx, stores, conns, servers, handler>>

-----------------------------------------------------------------------------
MainStep ==
    \/ LoadConfig \/ OpenPlatform \/ NewTenants \/ NewVerifierStep
    \/ \E s \in Services : RegisterHandler(s)
    \/ NewReturns \/ Listen \/ Select
    \/ GracefulStop \/ Drained \/ Shutdown \/ ShutdownReturns
    \/ CloseTenants \/ ClosePlatform

Serving == Running /\ (GrpcServe \/ HttpServe \/ SendResult)

Next ==
    \/ MainStep \/ Serving \/ (Running /\ AcceptFails) \/ Signal
    \/ \E s \in Services : CloseConn(s)
    \/ \E c \in GrpcCalls : GrpcCall(c)
    \/ \E c \in RestCalls : RestCall(c) \/ Proxied(c) \/ ProxyReturns(c)
    \/ \E c \in Calls : HandlerReturns(c)

\* The main goroutine and the serving goroutines are scheduled, and handlers
\* return; nothing makes a client call or a signal come.
Fairness ==
    /\ WF_vars(MainStep) /\ WF_vars(Serving)
    /\ \A c \in Calls : WF_vars(HandlerReturns(c))

Spec == Init /\ [][Next]_vars /\ Fairness

-----------------------------------------------------------------------------
(* Properties *)

\* Every variable has its type.
TypeOK ==
    /\ env \in Envs /\ deferred \in BOOLEAN /\ ready \in BOOLEAN
    /\ main \in {"config", "platform", "tenants", "verifier", "gateway", "listen", "select",
                 "stop", "drain", "shutdown", "wait", "closeTenants", "closePlatform", "exited"}
    /\ ctx \in {"live", "done"}
    /\ platform \in {"none", "open", "closed"} /\ tenants \in {"none", "open", "closed"}
    /\ conns \in [Services -> {"none", "open", "closed"}]
    /\ grpc \in {"new", "stopping", "stopped"} /\ http \in {"new", "listening", "shutdown"}
    /\ gserve \in {"off", "start", "serving", "send", "ended"}
    /\ hserve \in {"off", "start", "bind", "serving", "send", "ended"}
    /\ Len(errCh) <= 2
    /\ handler \in [Calls -> {"none", "running", "done"}]
    /\ proxy \in [RestCalls -> {"none", "active", "done"}]

\* No handler runs on a closed store: Close drains the gRPC server before it
\* closes the tenant manager and the platform store, and what the REST port
\* still accepts in between reaches no handler (Server.Close's order).
StoresOutliveHandlers ==
    \A c \in Calls : handler[c] = "running" => platform = "open" /\ tenants = "open"

\* However the process ends - a bad configuration, an error half way through
\* New, a port in use, a serving error, a signal - it leaves no store open
\* (New's error paths, main.run's deferred Close).
NothingLeftOpen ==
    main = "exited" => platform # "open" /\ tenants # "open"

\* A serving goroutine never blocks on the channel, though Run reads at most
\* one result and none after a signal (errCh's capacity).
SendNeverBlocks ==
    gserve = "send" \/ hserve = "send" => Len(errCh) < ErrChCap

\* A signal, or a port that stops being served (the other one may be fine),
\* ends the process, as long as handlers return (Run's select, GracefulStop).
Stops ==
    (ctx = "done" \/ gserve = "send" \/ hserve = "send") ~> main = "exited"

=============================================================================
