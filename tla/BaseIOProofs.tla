---------------------------- MODULE BaseIOProofs ----------------------------
(***************************************************************************)
(* The inductive invariant of BaseIO, for any number of endpoints: what    *)
(* the owner and the I/O thread know of each other while the service is    *)
(* stopped, reset and started again.                                       *)
(***************************************************************************)
EXTENDS BaseIO, TLAPS

USE BaseIOAssumption DEF BaseIOAssumption, vars, tryVars, flags, Endpoints, EndIt

LEMMA InitEstablishes == Init => IInv
<1> SUFFICES ASSUME Init PROVE IInv
  OBVIOUS
<1>1. TypeOK
  <2>1. failed \in 0 .. MaxFailed /\ ep \in Endpoints /\ it \in 1 .. EndIt
    BY DEF Init
  <2> QED
    BY <2>1 DEF Init, TypeOK
<1>2. IoInv
  BY DEF Init, IoInv
<1> QED
  BY <1>1, <1>2 DEF Init, IInv, LaunchesOnce, DisconnectAllIsFinal, NoHandlerWhileResetting

(* The number of failed tries stays below its bound.                       *)
LEMMA CountBounded ==
    ASSUME TypeOK, failed' = failed \/ launchClient
    PROVE  failed' \in 0 .. MaxFailed
  BY DEF TypeOK, launchClient

(* The steps of the I/O thread.                                            *)
LEMMA ThreadPreserves ==
    ASSUME IInv, Thread \/ Network
    PROVE  IInv'
<1> USE DEF IInv, TypeOK, IoInv, LaunchesOnce, DisconnectAllIsFinal,
            NoHandlerWhileResetting, Running, onDisconnected, launchClient, connect,
            StopsReconnecting, AtEnd
<1>1. CASE Resolved  BY <1>1 DEF Resolved
<1>2. CASE GiveUp  BY <1>2 DEF GiveUp
<1>3. CASE Connected  BY <1>3 DEF Connected
<1>4. CASE TryNext  BY <1>4 DEF TryNext
<1>5. CASE Reconnect
  <2>1. failed' = failed \/ launchClient
    BY <1>5 DEF Reconnect
  <2>2. failed' \in 0 .. MaxFailed
    BY <2>1, CountBounded
  <2>3. CASE shutdown
    BY <1>5, <2>2, <2>3 DEF Reconnect
  <2>4. CASE ~shutdown
    BY <1>5, <2>2, <2>4 DEF Reconnect
  <2> QED
    BY <2>3, <2>4
<1>6. CASE RunReturns  BY <1>6 DEF RunReturns
<1>7. CASE CheckShutdown  BY <1>7 DEF CheckShutdown, ShutdownSeen
<1>8. CASE Restart  BY <1>8 DEF Restart
<1>9. CASE ResolveFails  BY <1>9 DEF ResolveFails
<1>10. CASE ConnectionLost  BY <1>10 DEF ConnectionLost
<1>11. CASE HandlerThrows
  <2>1. failed' = failed \/ launchClient
    BY <1>11 DEF HandlerThrows
  <2>2. failed' \in 0 .. MaxFailed
    BY <2>1, CountBounded
  <2>3. CASE shutdown
    BY <1>11, <2>2, <2>3 DEF HandlerThrows
  <2>4. CASE ~shutdown
    BY <1>11, <2>2, <2>4 DEF HandlerThrows
  <2> QED
    BY <2>3, <2>4
<1> QED
  BY <1>1, <1>2, <1>3, <1>4, <1>5, <1>6, <1>7, <1>8, <1>9, <1>10, <1>11
     DEF Thread, Handler, Network

(* The steps of the owner.                                                 *)
LEMMA OwnerPreserves ==
    ASSUME IInv, Owner \/ \E close \in BOOLEAN : SetShutdown(close)
    PROVE  IInv'
<1> USE DEF IInv, TypeOK, IoInv, LaunchesOnce, DisconnectAllIsFinal,
            NoHandlerWhileResetting, launchClient, connect, StopsReconnecting
<1>1. CASE launchClientAutoReconnect  BY <1>1 DEF launchClientAutoReconnect
<1>2. CASE StayDisconnected  BY <1>2 DEF StayDisconnected
<1>3. CASE StopService  BY <1>3 DEF StopService
<1>4. CASE Join  BY <1>4 DEF Join, ThreadEnded, LaunchedAfterStop
<1>5. CASE resetIoService
  <2>1. shutdown /\ op' = "none" /\ failed' = failed /\ ~hasLaunched'
    BY <1>5 DEF resetIoService
  <2>2. TypeOK'
    BY <1>5, <2>1 DEF resetIoService
  <2>3. IoInv'
    BY <1>5, <2>1 DEF resetIoService
  <2>4. (LaunchesOnce /\ DisconnectAllIsFinal /\ NoHandlerWhileResetting)'
    BY <1>5, <2>1 DEF resetIoService
  <2> QED
    BY <2>2, <2>3, <2>4
<1>6. CASE startIOThread  BY <1>6 DEF startIOThread
<1>7. ASSUME NEW close \in BOOLEAN, SetShutdown(close)  PROVE IInv'
  BY <1>7 DEF SetShutdown
<1> QED  BY <1>1, <1>2, <1>3, <1>4, <1>5, <1>6, <1>7 DEF Owner

(* Types, what the two threads know of each other, and the three safety    *)
(* properties below, which are inductive only together.                    *)
THEOREM InductiveInvariant == Spec => []IInv
<1>1. Init => IInv  BY InitEstablishes
<1>2. IInv /\ [Next]_vars => IInv'
  <2> SUFFICES ASSUME IInv, [Next]_vars  PROVE IInv'  OBVIOUS
  <2>1. CASE Next
    BY <2>1, ThreadPreserves, OwnerPreserves DEF Next
  <2>2. CASE UNCHANGED vars
    BY <2>2 DEF IInv, TypeOK, IoInv, LaunchesOnce, DisconnectAllIsFinal,
                NoHandlerWhileResetting
  <2> QED  BY <2>1, <2>2
<1> QED  BY <1>1, <1>2, PTL DEF Spec

(* Neither the owner nor the automatic reconnect launches a client while   *)
(* one has been launched: the assertion of launchClient never fails.       *)
THEOREM NeverLaunchedTwice == Spec => []LaunchesOnce
<1>1. IInv => LaunchesOnce  BY DEF IInv
<1> QED  BY <1>1, InductiveInvariant, PTL

(* After disconnectAll and in the destructor nothing is left that connects *)
(* by itself.                                                              *)
THEOREM DisconnectedForGood == Spec => []DisconnectAllIsFinal
<1>1. IInv => DisconnectAllIsFinal  BY DEF IInv
<1> QED  BY <1>1, InductiveInvariant, PTL

(* No handler runs while the owner destroys the service.                   *)
THEOREM NoHandlerAfterJoin == Spec => []NoHandlerWhileResetting
<1>1. IInv => NoHandlerWhileResetting  BY DEF IInv
<1> QED  BY <1>1, InductiveInvariant, PTL
=============================================================================
