------------------------------- MODULE BaseIO -------------------------------
(***************************************************************************)
(* The client side of BaseIO (network/BaseIO.cpp): the I/O thread around   *)
(* io_service::run, the attempts to reach one of the endpoints a host name *)
(* resolves to, the automatic reconnect, and stopIOThread, disconnectAll   *)
(* and the destructor, which the owner calls from another thread.          *)
(*                                                                         *)
(* The client always has at most one operation outstanding that keeps      *)
(* run() from returning; handlers run one at a time on the I/O thread.     *)
(***************************************************************************)
EXTENDS Integers

CONSTANTS
    NumEndpoints,  \* endpoints the resolver returns for the host
    MaxFailed      \* bound on failedTriesToConnect

Endpoints == 1 .. NumEndpoints

ASSUME BaseIOAssumption ==
    /\ NumEndpoints \in Nat \ {0}
    /\ MaxFailed \in Nat \ {0}

VARIABLES
    shutdown,     \* _shutdown
    stopped,      \* the stopped flag of the io_service
    hasLaunched,  \* _hasLaunched
    failed,       \* *failedTriesToConnect
    ioPc,         \* the I/O thread: "run", "backoff" (in connect(), before
                  \* it looks at _shutdown), "check", "restart" or "ended"
    op,           \* the outstanding operation: "none", "resolve", "connect", "read"
    ep,           \* the endpoint being connected to
    it,           \* the iterator passed to clientIterateEndpoints; EndIt is "end"
    ownerPc       \* the owner: "launch", "idle", "stop", "join", "reset", "start",
                  \* "gone"

VARIABLE closing  \* whether the owner is in the destructor

tryVars == <<ep, it>>
flags   == <<shutdown, stopped, hasLaunched>>
vars    == <<flags, failed, ioPc, op, tryVars, ownerPc, closing>>

EndIt == NumEndpoints + 1

(* The constructor has started the I/O thread.                             *)
Init ==
    /\ shutdown = FALSE
    /\ stopped = FALSE
    /\ hasLaunched = FALSE
    /\ failed = 0
    /\ ioPc = "run"
    /\ op = "none"
    /\ ep = 1
    /\ it = 1
    /\ ownerPc = "launch"
    /\ closing = FALSE

-----------------------------------------------------------------------------
(* Connecting.                                                             *)

(* launchClient, called by connect(): one more try is under way.           *)
launchClient ==
    /\ failed' = IF failed < MaxFailed THEN failed + 1 ELSE failed
    /\ hasLaunched' = TRUE
    /\ op' = "resolve"

(* launchClientAutoReconnect, called by the owner.                         *)
launchClientAutoReconnect ==
    /\ ownerPc = "launch"
    /\ failed' = 1
    /\ hasLaunched' = TRUE
    /\ op' = "resolve"
    /\ ownerPc' = "idle"
    /\ UNCHANGED <<shutdown, stopped, ioPc, tryVars, closing>>

(* A pool that is disabled does not launch again.                          *)
StayDisconnected ==
    /\ ownerPc = "launch"
    /\ ownerPc' = "idle"
    /\ UNCHANGED <<flags, failed, ioPc, op, tryVars, closing>>

Running == ioPc = "run" /\ ~stopped

(* _onDisconnected: the callback of the user, then connect().              *)
onDisconnected ==
    /\ hasLaunched' = FALSE
    /\ op' = "none"
    /\ ioPc' = "backoff"

Resolved ==
    /\ Running /\ op = "resolve"
    /\ op' = "connect"
    /\ ep' = 1
    /\ it' = 1
    /\ UNCHANGED <<flags, failed, ioPc, ownerPc, closing>>

ResolveFails ==
    /\ Running /\ op = "resolve"
    /\ onDisconnected
    /\ UNCHANGED <<shutdown, stopped, failed, tryVars, ownerPc, closing>>

(* clientIterateEndpoints, called when the attempt to connect to ep ended. *)
PastEnd == it > EndIt
AtEnd == it = EndIt

GiveUp ==
    /\ Running /\ op = "connect"
    /\ AtEnd
    /\ onDisconnected
    /\ UNCHANGED <<shutdown, stopped, failed, tryVars, ownerPc, closing>>

Connected ==
    /\ Running /\ op = "connect"
    /\ ~AtEnd
    /\ op' = "read"
    /\ failed' = 0
    /\ UNCHANGED <<flags, ioPc, tryVars, ownerPc, closing>>

(* The iterator is dereferenced before it is incremented.                  *)
TryNext ==
    /\ Running /\ op = "connect"
    /\ ~AtEnd
    /\ ep' = it
    /\ it' = it + 1
    /\ UNCHANGED <<flags, failed, ioPc, op, ownerPc, closing>>

(* No read is queued on the connection any more: it is destroyed.          *)
ConnectionLost ==
    /\ Running /\ op = "read"
    /\ onDisconnected
    /\ UNCHANGED <<shutdown, stopped, failed, tryVars, ownerPc, closing>>

(* connect(): after the wait it gives up if the thread is to end.          *)
GivesUp == FALSE
AlwaysGivesUp == TRUE
StopsReconnecting == shutdown

connect ==
    \/ StopsReconnecting /\ op' = "none" /\ hasLaunched' = FALSE /\ UNCHANGED failed
    \/ ~StopsReconnecting /\ launchClient

Reconnect ==
    /\ ioPc = "backoff"
    /\ ioPc' = "run"
    /\ connect
    /\ UNCHANGED <<shutdown, stopped, tryVars, ownerPc, closing>>

(* An exception other than those of the JSON library leaves run(). It      *)
(* destroys the connection, which reconnects at once because the last try  *)
(* has not failed, unless a queued write still holds it.                   *)
HandlerThrows ==
    /\ Running /\ op = "read"
    /\ ioPc' = "ended"
    /\ connect \/ UNCHANGED <<failed, hasLaunched, op>>
    /\ UNCHANGED <<shutdown, stopped, tryVars, ownerPc, closing>>

-----------------------------------------------------------------------------
(* The I/O thread.                                                         *)

(* run() returns when the service is stopped or out of work; in the latter *)
(* case it stops the service itself.                                       *)
RunReturns ==
    /\ ioPc = "run"
    /\ stopped \/ op = "none"
    /\ stopped' = TRUE
    /\ ioPc' = "check"
    /\ UNCHANGED <<shutdown, hasLaunched, failed, op, tryVars, ownerPc, closing>>

ShutdownUnseen == FALSE
ShutdownSeen == shutdown

CheckShutdown ==
    /\ ioPc = "check"
    /\ ioPc' = IF ShutdownSeen THEN "ended" ELSE "restart"
    /\ UNCHANGED <<flags, failed, op, tryVars, ownerPc, closing>>

(* restart() forgets a stop() that came after the check.                   *)
Restart ==
    /\ ioPc = "restart"
    /\ stopped' = FALSE
    /\ ioPc' = "run"
    /\ UNCHANGED <<shutdown, hasLaunched, failed, op, tryVars, ownerPc, closing>>

-----------------------------------------------------------------------------
(* stopIOThread, disconnectAll and the destructor.                         *)

SetShutdown(close) ==
    /\ ownerPc = "idle"
    /\ shutdown' = TRUE
    /\ closing' = close
    /\ ownerPc' = "stop"
    /\ UNCHANGED <<stopped, hasLaunched, failed, ioPc, op, tryVars>>

StopService ==
    /\ ownerPc = "stop"
    /\ stopped' = TRUE
    /\ ownerPc' = "join"
    /\ UNCHANGED <<shutdown, hasLaunched, failed, ioPc, op, tryVars, closing>>

LaunchedKept == hasLaunched
LaunchedAfterStop == FALSE

DoesNotWait == TRUE
ThreadEnded == ioPc = "ended"

Join ==
    /\ ownerPc = "join"
    /\ ThreadEnded
    /\ hasLaunched' = LaunchedAfterStop
    /\ ownerPc' = "reset"
    /\ UNCHANGED <<shutdown, stopped, failed, ioPc, op, tryVars, closing>>

(* resetIoService destroys the queued handlers, and with them an open      *)
(* connection, whose destructor calls _onDisconnected on this thread.      *)
resetIoService ==
    /\ ownerPc = "reset"
    /\ \/ op = "read" /\ connect
       \/ op # "read" /\ op' = "none" /\ UNCHANGED <<failed, hasLaunched>>
    /\ stopped' = FALSE
    /\ ownerPc' = IF closing THEN "gone" ELSE "start"
    /\ UNCHANGED <<shutdown, ioPc, tryVars, closing>>

startIOThread ==
    /\ ownerPc = "start"
    /\ shutdown' = FALSE
    /\ ioPc' = "run"
    /\ ownerPc' = "launch"
    /\ UNCHANGED <<stopped, hasLaunched, failed, op, tryVars, closing>>

-----------------------------------------------------------------------------
Handler == Resolved \/ GiveUp \/ Connected \/ TryNext \/ Reconnect
Thread  == Handler \/ RunReturns \/ CheckShutdown \/ Restart
Network == ResolveFails \/ ConnectionLost \/ HandlerThrows
Owner   == launchClientAutoReconnect \/ StayDisconnected \/ StopService \/ Join
              \/ resetIoService \/ startIOThread

Next == Thread \/ Network \/ Owner \/ \E close \in BOOLEAN : SetShutdown(close)

(* The threads run; nothing is assumed of the network.                     *)
Fairness == WF_vars(Thread) /\ WF_vars(Owner)

Spec == Init /\ [][Next]_vars
FairSpec == Spec /\ Fairness

-----------------------------------------------------------------------------
(* Properties.                                                             *)

TypeOK ==
    /\ shutdown \in BOOLEAN
    /\ stopped \in BOOLEAN
    /\ hasLaunched \in BOOLEAN
    /\ failed \in 0 .. MaxFailed
    /\ ioPc \in {"run", "backoff", "check", "restart", "ended"}
    /\ op \in {"none", "resolve", "connect", "read"}
    /\ ep \in Endpoints
    /\ it \in 1 .. EndIt
    /\ ownerPc \in {"launch", "idle", "stop", "join", "reset", "start", "gone"}
    /\ closing \in BOOLEAN

(* The expectation of launchClient: whoever calls it, the owner or the     *)
(* reconnect, finds that no client has been launched.                      *)
LaunchesOnce == ownerPc = "launch" \/ ioPc = "backoff" => ~hasLaunched

(* disconnectAll leaves nothing behind that connects by itself (the        *)
(* comment of launchClientAutoReconnect), although destroying an open      *)
(* connection runs the reconnecting callback.                              *)
DisconnectAllIsFinal ==
    ownerPc \in {"start", "launch", "gone"} => op = "none" /\ ioPc # "backoff"

(* The last operation is over before the owner destroys what handlers use. *)
NoHandlerWhileResetting ==
    ownerPc \in {"reset", "start", "gone"} => ioPc = "ended"

(* What the two threads know of each other.                                *)
IoInv ==
    /\ ownerPc \in {"stop", "join", "reset", "start", "gone"} <=> shutdown
    /\ op = "none" \/ ownerPc = "reset" => ~hasLaunched

IInv == TypeOK /\ IoInv /\ LaunchesOnce /\ DisconnectAllIsFinal /\ NoHandlerWhileResetting

(* If resolving works and endpoint e accepts from some time on, a client   *)
(* that was launched is connected again and again until its owner stops it *)
(* or the pool breaks a handler.                                           *)
GetsThrough(e) ==
    <>[][~ResolveFails /\ ~(TryNext /\ ep = e)]_vars =>
        (ownerPc = "idle" /\ (op # "none" \/ ioPc = "backoff"))
            ~> (op = "read" \/ ownerPc # "idle" \/ ioPc = "ended")

(* launchClientAutoReconnect gets through to every host of which some      *)
(* endpoint accepts, whatever the others do: any but the last will do, and *)
(* the first if it is the only one.                                        *)
ClientReconnects == \A e \in Endpoints : e < NumEndpoints \/ e = 1 => GetsThrough(e)

(* stopIOThread returns if the I/O thread was inside of run() when         *)
(* _shutdown was set.                                                      *)
StopReturnsFromRun ==
    (ownerPc = "stop" /\ ioPc \in {"run", "backoff", "check"}) ~> (ownerPc \notin {"stop", "join"})

-----------------------------------------------------------------------------
(* What comments of the repository say and the code does not do.           *)

(* BaseIO.cpp, clientIterateEndpoints: "The connection failed, but there's *)
(* another endpoint to try", so one endpoint that accepts is enough.       *)
ReachableEndpointIsUsed == \A e \in Endpoints : GetsThrough(e)
=============================================================================
