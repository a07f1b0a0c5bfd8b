----------------------- MODULE ServerLifecycleProofs -----------------------
(***************************************************************************)
(* Proofs about ServerLifecycle, for any services, calls and environments: *)
(* typing, no handler on a closed store, nothing left open at the exit,    *)
(* no serving goroutine blocked on the channel.                            *)
(***************************************************************************)
EXTENDS ServerLifecycle, TLAPS

Constructing == {"config", "platform", "tenants", "verifier", "gateway", "listen"}
Closing == {"shutdown", "wait", "closeTenants", "closePlatform"}

\* What New has opened so far, and what Close has closed so far.
StoresFollowMain ==
    /\ main \in {"config", "platform"} => platform = "none"
    /\ main \in {"config", "platform", "tenants"} => tenants = "none"
    /\ main = "tenants" => platform = "open"
    /\ main = "closePlatform" => tenants = "closed"
    /\ main = "exited" => platform # "open" /\ tenants # "open"

\* Where the gRPC server is on its way down.
GrpcFollowsMain ==
    /\ main \in Constructing \cup {"select"} => grpc = "new"
    /\ main = "stop" => grpc # "stopping"
    /\ main = "drain" => grpc # "new"
    /\ main \in Closing => grpc = "stopped"
    /\ main = "exited" => gserve = "off" \/ grpc = "stopped"

\* Both stores are open from the end of New until the gRPC server is stopped.
StoresServe ==
    main \notin {"config", "platform", "tenants", "exited"} /\ grpc # "stopped"
        => platform = "open" /\ tenants = "open"

\* Handlers run only between the start of Serve and the end of GracefulStop.
HandlersServed ==
    /\ main \in Constructing => gserve = "off" /\ hserve = "off"
    /\ gserve = "off" \/ grpc = "stopped" => \A c \in Calls : handler[c] # "running"

Ended(g) == IF g = "ended" THEN 1 ELSE 0

\* The channel holds a result of a goroutine that has ended at most.
ResultsBounded ==
    /\ errCh \in Seq({"send"})
    /\ Len(errCh) <= Ended(gserve) + Ended(hserve)

\* The inductive invariant.
IInv ==
    /\ TypeOK /\ StoresFollowMain /\ GrpcFollowsMain /\ StoresServe
    /\ HandlersServed /\ ResultsBounded

-----------------------------------------------------------------------------
\* The process has started and done nothing yet.
LEMMA InitIInv ==
    ASSUME Init
    PROVE  IInv
<1>1. Len(errCh) = 0 /\ errCh \in Seq({"send"})
  BY DEF Init
<1>2. TypeOK
  <2>1. /\ conns \in [Services -> {"none", "open", "closed"}]
        /\ handler \in [Calls -> {"none", "running", "done"}]
        /\ proxy \in [RestCalls -> {"none", "active", "done"}]
    BY DEF Init
  <2>2. deferred \in BOOLEAN /\ ready \in BOOLEAN
    BY DEF Init
  <2> QED BY <1>1, <2>1, <2>2 DEF Init, TypeOK
<1>3. StoresFollowMain /\ GrpcFollowsMain /\ StoresServe
  BY DEF Init, StoresFollowMain, GrpcFollowsMain, StoresServe, Constructing, Closing
<1>4. HandlersServed
  BY DEF Init, HandlersServed, Constructing
<1>5. ResultsBounded
  BY <1>1 DEF Init, ResultsBounded, Ended
<1> QED BY <1>2, <1>3, <1>4, <1>5 DEF IInv

\* A step of the main goroutine.
LEMMA MainStepIInv ==
    ASSUME IInv, MainStep
    PROVE  IInv'
<1> USE DEF IInv, TypeOK, Constructing, Closing, StoresFollowMain, GrpcFollowsMain,
            StoresServe, HandlersServed, ResultsBounded, Ended, stores, servers, calls
<1>1. ASSUME LoadConfig PROVE IInv'
  BY <1>1 DEF LoadConfig, Exit
<1>2. ASSUME OpenPlatform PROVE IInv'
  BY <1>2 DEF OpenPlatform, Exit
<1>3. ASSUME NewTenants PROVE IInv'
  BY <1>3 DEF NewTenants, Unwind, Exit, Closed
<1>4. ASSUME NewVerifierStep PROVE IInv'
  BY <1>4 DEF NewVerifierStep, Unwind, Exit, Closed
<1>5. ASSUME NEW s \in Services, RegisterHandler(s) PROVE IInv'
  BY <1>5 DEF RegisterHandler, Unwind, Exit, Closed
<1>6. ASSUME NewReturns PROVE IInv'
  BY <1>6 DEF NewReturns
<1>7. ASSUME Listen PROVE IInv'
  BY <1>7 DEF Listen
<1>8. ASSUME Select PROVE IInv'
  BY <1>8 DEF Select
<1>9. ASSUME GracefulStop PROVE IInv'
  BY <1>9 DEF GracefulStop
<1>10. ASSUME Drained PROVE IInv'
  BY <1>10 DEF Drained
<1>11. ASSUME Shutdown PROVE IInv'
  BY <1>11 DEF Shutdown
<1>12. ASSUME ShutdownReturns PROVE IInv'
  BY <1>12 DEF ShutdownReturns
<1>13. ASSUME CloseTenants PROVE IInv'
  BY <1>13 DEF CloseTenants
<1>14. ASSUME ClosePlatform PROVE IInv'
  BY <1>14 DEF ClosePlatform, Exit
<1> QED BY <1>1, <1>2, <1>3, <1>4, <1>5, <1>6, <1>7, <1>8, <1>9, <1>10, <1>11, <1>12, <1>13, <1>14 DEF MainStep

\* A step of the serving goroutines, or an error of theirs.
LEMMA ServingIInv ==
    ASSUME IInv, Serving \/ (Running /\ AcceptFails)
    PROVE  IInv'
<1> USE DEF IInv, TypeOK, Constructing, Closing, StoresFollowMain, GrpcFollowsMain,
            StoresServe, HandlersServed, ResultsBounded, Ended, stores, servers, calls
<1>1. ASSUME Running, GrpcServe PROVE IInv'
  BY <1>1 DEF GrpcServe, Running
<1>2. ASSUME Running, HttpServe PROVE IInv'
  <2>1. ready' \in BOOLEAN
    BY <1>2 DEF HttpServe
  <2>2. /\ hserve \in {"start", "bind", "serving"}
        /\ hserve' \in {"bind", "serving", "send"}
        /\ http' \in {http, "listening"}
    BY <1>2 DEF HttpServe
  <2>3. UNCHANGED <<env, main, deferred, ctx, stores, conns, grpc, gserve, errCh, calls>>
    BY <1>2 DEF HttpServe
  <2> QED BY <2>1, <2>2, <2>3
<1>3. ASSUME Running, SendResult PROVE IInv'
  <2>1. /\ errCh' \in Seq({"send"}) /\ Len(errCh') = Len(errCh) + 1
        /\ Len(errCh) < 2
    BY <1>3 DEF SendResult, Send, ErrChCap
  <2>2. \/ gserve = "send" /\ gserve' = "ended" /\ hserve' = hserve
        \/ hserve = "send" /\ hserve' = "ended" /\ gserve' = gserve
    BY <1>3 DEF SendResult, Send
  <2>3. UNCHANGED <<env, main, deferred, ctx, stores, conns, grpc, http, ready, calls>>
    BY <1>3 DEF SendResult
  <2> QED BY <1>3, <2>1, <2>2, <2>3 DEF Running
<1>4. ASSUME Running, AcceptFails PROVE IInv'
  BY <1>4 DEF AcceptFails, Running
<1> QED BY <1>1, <1>2, <1>3, <1>4 DEF Serving

\* A step of a client, a handler, a connection, or a signal.
LEMMA OutsideIInv ==
    ASSUME IInv,
           \/ Signal
           \/ \E s \in Services : CloseConn(s)
           \/ \E c \in GrpcCalls : GrpcCall(c)
           \/ \E c \in RestCalls : RestCall(c) \/ Proxied(c) \/ ProxyReturns(c)
           \/ \E c \in Calls : HandlerReturns(c)
    PROVE  IInv'
<1> USE DEF IInv, TypeOK, Constructing, Closing, StoresFollowMain, GrpcFollowsMain,
            StoresServe, HandlersServed, ResultsBounded, Ended, stores, servers, calls
<1>1. ASSUME Signal PROVE IInv'
  BY <1>1 DEF Signal, Running
<1>2. ASSUME NEW s \in Services, CloseConn(s) PROVE IInv'
  BY <1>2 DEF CloseConn, Running
<1>3. ASSUME NEW c \in GrpcCalls, GrpcCall(c) PROVE IInv'
  BY <1>3 DEF GrpcCall, Accepts, Running, Calls
<1>4. ASSUME NEW c \in RestCalls, RestCall(c) PROVE IInv'
  BY <1>4 DEF RestCall, Running, Calls
<1>5. ASSUME NEW c \in RestCalls, Proxied(c) PROVE IInv'
  BY <1>5 DEF Proxied, Accepts, Running, Calls
<1>6. ASSUME NEW c \in RestCalls, ProxyReturns(c) PROVE IInv'
  BY <1>6 DEF ProxyReturns, Running, Calls
<1>7. ASSUME NEW c \in Calls, HandlerReturns(c) PROVE IInv'
  BY <1>7 DEF HandlerReturns, Running
<1> QED BY <1>1, <1>2, <1>3, <1>4, <1>5, <1>6, <1>7

\* The inductive invariant holds in every reachable state.
THEOREM Inductive == Spec => []IInv
<1>1. Init => IInv
  BY InitIInv
<1>2. ASSUME IInv, [Next]_vars PROVE IInv'
  <2>1. CASE Next
    BY <1>2, <2>1, MainStepIInv, ServingIInv, OutsideIInv DEF Next
  <2>2. CASE UNCHANGED vars
    BY <1>2, <2>2 DEF vars, stores, servers, calls, IInv, TypeOK, StoresFollowMain,
       GrpcFollowsMain, StoresServe, HandlersServed, ResultsBounded, Ended
  <2> QED BY <1>2, <2>1, <2>2
<1> QED BY <1>1, <1>2, PTL DEF Spec

\* Every variable of the life cycle keeps its type.
THEOREM TypeCorrect == Spec => []TypeOK
<1>1. IInv => TypeOK
  BY DEF IInv
<1> QED BY <1>1, Inductive, PTL

\* No handler ever runs on a closed store: a handler runs only after Serve has
\* begun and before GracefulStop returns, and in between both stores are open.
THEOREM HandlersHaveStores == Spec => []StoresOutliveHandlers
<1>1. ASSUME IInv, NEW c \in Calls, handler[c] = "running"
      PROVE  platform = "open" /\ tenants = "open"
  <2>1. gserve # "off" /\ grpc # "stopped"
    BY <1>1 DEF IInv, HandlersServed
  <2>2. main \notin {"config", "platform", "tenants", "exited"}
    BY <1>1, <2>1 DEF IInv, HandlersServed, GrpcFollowsMain, Constructing
  <2> QED BY <1>1, <2>1, <2>2 DEF IInv, StoresServe
<1>2. IInv => StoresOutliveHandlers
  BY <1>1 DEF StoresOutliveHandlers
<1> QED BY <1>2, Inductive, PTL

\* Whatever ends the process, New's errors included, it leaves no store open.
THEOREM ExitClosesStores == Spec => []NothingLeftOpen
<1>1. IInv => NothingLeftOpen
  BY DEF IInv, StoresFollowMain, NothingLeftOpen
<1> QED BY <1>1, Inductive, PTL

\* There is room on the channel whenever a serving goroutine has a result.
THEOREM ResultsAreSent == Spec => []SendNeverBlocks
<1>1. IInv => SendNeverBlocks
  BY DEF IInv, ResultsBounded, Ended, SendNeverBlocks, ErrChCap
<1> QED BY <1>1, Inductive, PTL
=============================================================================
