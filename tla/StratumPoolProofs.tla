------------------------- MODULE StratumPoolProofs -------------------------
(***************************************************************************)
(* Proofs about StratumPool, for any number of shares, tries and           *)
(* connections and for both protocols: where shares are written and how    *)
(* often their answers are counted.                                        *)
(***************************************************************************)
EXTENDS StratumPool, TLAPS

USE StratumPoolAssumption DEF StratumPoolAssumption
USE DEF vars, linkVars, loginVars, callVars, ledger, jobVars, shareVars, NoCxn, NoJob

LEMMA InitEstablishes == Init => IInv
<1> SUFFICES ASSUME Init PROVE IInv
  OBVIOUS
<1>1. TypeOK
  <2>1. 0 \in 0 .. MaxSessions /\ 0 \in 0 .. MaxTries
    OBVIOUS
  <2> QED
    BY <2>1 DEF Init, TypeOK
<1>2. LoginInv
  BY DEF Init, LoginInv
<1>3. ASSUME NEW s \in Shares PROVE CallInv(s)
  <2>1. stillPending[s] /\ ~pending[s] /\ reported[s] = 0 /\ asked[s] = 0 /\ tries[s] = 0
          /\ handle[s] = 0 /\ jobOf[s] = 0 /\ stage[s] = "none" /\ never[s] = "no"
    BY DEF Init
  <2>2. cxn = 0 /\ session = 0
    BY DEF Init
  <2> QED
    BY <2>1, <2>2 DEF CallInv
<1>4. HandlerExists /\ NothingForgotten /\ QueueOfConnection /\ ConnectedCanSubmit
  BY DEF Init, HandlerExists, NothingForgotten, QueueOfConnection, ConnectedCanSubmit
<1> QED
  BY <1>1, <1>2, <1>3, <1>4 DEF IInv

(***************************************************************************)
(* Types.                                                                  *)
(***************************************************************************)

LEMMA TypesServer == ASSUME TypeOK, Server PROVE TypeOK'
<1>1. CASE onConnected
  <2>1. session' \in 0 .. MaxSessions
    BY <1>1 DEF TypeOK, onConnected
  <2> QED
    BY <1>1, <2>1 DEF TypeOK, onConnected, AcceptedOnConnect
<1>2. CASE ConnectionLost
  <2>1. asked' \in [Shares -> 0 .. MaxTries]
    BY <1>2 DEF TypeOK, ConnectionLost, Disconnect
  <2> QED
    BY <1>2, <2>1 DEF TypeOK, ConnectionLost, Disconnect
<1>3. CASE FirstAccepted
  BY <1>3 DEF TypeOK, FirstAccepted
<1>4. CASE LoginRefused
  BY <1>4 DEF TypeOK, LoginRefused
<1>5. CASE Authorized
  BY <1>5 DEF TypeOK, Authorized
<1>6. ASSUME onMiningNotify, TypeOK
      PROVE  inQueue' \subseteq Shares /\ connected' \in BOOLEAN
               /\ newestJob' \in 0 .. MaxSessions
  BY <1>6 DEF TypeOK, onMiningNotify, LeftInQueue
<1>7. CASE JobTemplate
  BY <1>6, <1>7 DEF TypeOK, JobTemplate
<1>8. CASE NoJobTemplate
  BY <1>8 DEF TypeOK, NoJobTemplate
<1>9. CASE JobArrives
  BY <1>6, <1>9 DEF TypeOK, JobArrives
<1> QED
  BY <1>1, <1>2, <1>3, <1>4, <1>5, <1>7, <1>8, <1>9 DEF Server

LEMMA TypesShare ==
    ASSUME TypeOK, \A t \in Shares : CallInv(t), NEW s \in Shares,
           FindShare(s) \/ JobDies(s) \/ Gpu(s) \/ Call(s) \/ Respond(s)
    PROVE  TypeOK'
<1>1. CASE FindShare(s)
  BY <1>1 DEF TypeOK, FindShare
<1>2. CASE JobDies(s)
  BY <1>2 DEF TypeOK, JobDies
<1>8. CASE LockJob(s)
  BY <1>8 DEF TypeOK, LockJob, Drop, Release
<1>9. CASE CheckConnected(s)
  BY <1>9 DEF TypeOK, CheckConnected, Drop, Release
<1>3. CASE PostShare(s)
  BY <1>3 DEF TypeOK, PostShare
<1>4. CASE StartCall(s)
  BY <1>4 DEF TypeOK, StartCall, Drop, Release
<1>5. CASE Try(s)
  <2>1. tries' \in [Shares -> 0 .. MaxTries]
    BY <1>5 DEF TypeOK, Try, KeepTrying
  <2>2. asked' \in [Shares -> 0 .. MaxTries]
    BY <1>5 DEF TypeOK, Try, KeepTrying, CallInv
  <2>3. pending' \in [Shares -> BOOLEAN]
    <3>1. pending' = pending \/ pending' = [pending EXCEPT ![s] = TRUE]
      BY <1>5 DEF Try
    <3> QED
      BY <3>1 DEF TypeOK
  <2> QED
    BY <1>5, <2>1, <2>2, <2>3 DEF TypeOK, Try
<1>6. CASE StopTrying(s)
  <2>1. stage' \in [Shares -> {"none", "found", "held", "checked", "posted", "active",
                               "dropped", "lost", "closed"}]
    BY <1>6 DEF TypeOK, StopTrying, Erased
  <2>2. pending' \in [Shares -> BOOLEAN] /\ never' \in [Shares -> {"no", "exhausted", "aborted"}]
    BY <1>6 DEF TypeOK, StopTrying, AfterGivingUp
  <2> QED
    BY <1>6, <2>1, <2>2 DEF TypeOK, StopTrying
<1>7. CASE Respond(s)
  <2>1. asked' \in [Shares -> 0 .. MaxTries]
    BY <1>7 DEF TypeOK, Respond
  <2>2. CASE pending[s]
    <3>1. pending' \in [Shares -> BOOLEAN] /\ stillPending' \in [Shares -> BOOLEAN]
      BY <1>7, <2>2 DEF TypeOK, Respond, PopHandler, Answered
    <3>2. reported' \in [Shares -> Nat]
      BY <1>7, <2>2 DEF TypeOK, Respond
    <3> QED
      BY <1>7, <2>1, <3>1, <3>2 DEF TypeOK, Respond
  <2>3. CASE ~pending[s]
    BY <1>7, <2>1, <2>3 DEF TypeOK, Respond
  <2> QED
    BY <2>2, <2>3
<1> QED
  BY <1>1, <1>2, <1>3, <1>4, <1>5, <1>6, <1>7, <1>8, <1>9 DEF Gpu, Call

LEMMA TypesReset == ASSUME TypeOK, StopIo \/ ResetIo PROVE TypeOK'
<1>1. CASE StopIo
  BY <1>1 DEF TypeOK, StopIo
<1>2. CASE ResetIo
  <2>1. stage' \in [Shares -> {"none", "found", "held", "checked", "posted", "active",
                               "dropped", "lost", "closed"}]
    BY <1>2 DEF TypeOK, ResetIo, AfterReset
  <2>2. asked' \in [Shares -> 0 .. MaxTries]
    BY <1>2 DEF TypeOK, ResetIo, Disconnect
  <2>3. never' \in [Shares -> {"no", "exhausted", "aborted"}]
    BY <1>2 DEF TypeOK, ResetIo
  <2> QED
    BY <1>2, <2>1, <2>2, <2>3 DEF TypeOK, ResetIo, Disconnect
<1> QED
  BY <1>1, <1>2
(***************************************************************************)
(* The login.                                                              *)
(***************************************************************************)

LEMMA LoginPreserved == ASSUME TypeOK, LoginInv, Next PROVE LoginInv'
<1> USE DEF LoginInv
<1>1. CASE onConnected
  <2>1. session \in Nat /\ cxn \in Nat /\ newestJob \in Nat
    BY DEF TypeOK
  <2> QED
    BY <1>1, <2>1 DEF onConnected, AcceptedOnConnect
<1>2. CASE ConnectionLost
  BY <1>2 DEF ConnectionLost, Disconnect
<1>3. CASE FirstAccepted
  BY <1>3 DEF FirstAccepted
<1>4. CASE LoginRefused
  BY <1>4 DEF LoginRefused
<1>5. CASE Authorized
  BY <1>5 DEF Authorized, Listening, TypeOK
<1>6. CASE JobTemplate
  BY <1>6 DEF JobTemplate, onMiningNotify, Listening, TypeOK
<1>7. CASE NoJobTemplate
  BY <1>7 DEF NoJobTemplate
<1>8. CASE JobArrives
  BY <1>8 DEF JobArrives, onMiningNotify, Listening, AcceptsJobs, TypeOK
<1>9. CASE StopIo
  BY <1>9 DEF StopIo
<1>10. CASE ResetIo
  BY <1>10 DEF ResetIo, Disconnect
<1>11. ASSUME NEW s \in Shares, FindShare(s) \/ JobDies(s) \/ Gpu(s) \/ Call(s) \/ Respond(s)
       PROVE  LoginInv'
  BY <1>11 DEF FindShare, JobDies, Gpu, LockJob, CheckConnected, PostShare, Call, StartCall,
               Try, StopTrying, Respond
<1> QED
  BY <1>1, <1>2, <1>3, <1>4, <1>5, <1>6, <1>7, <1>8, <1>9, <1>10, <1>11 DEF Next, Server

(***************************************************************************)
(* The shares, one at a time.                                              *)
(***************************************************************************)

PerShare(t) ==
    /\ CallInv(t)
    /\ stage[t] = "active" /\ stillPending[t] /\ tries[t] > 0 => pending[t]
    /\ stage[t] = "closed" => reported[t] = 1 \/ never[t] # "no"
    /\ connected /\ t \in inQueue => jobOf[t] = session

LEMMA IInvByShares ==
    IInv <=> TypeOK /\ LoginInv /\ \A t \in Shares : PerShare(t)
<1>1. TypeOK => inQueue \subseteq Shares
  BY DEF TypeOK
<1> QED
  BY <1>1 DEF IInv, PerShare, HandlerExists, NothingForgotten, QueueOfConnection,
              ConnectedCanSubmit, LoginInv

(* The values a share has at t.                                            *)
TypedAt(t) ==
    /\ session \in Nat /\ cxn \in Nat /\ newestJob \in Nat
    /\ handle[t] \in Nat /\ jobOf[t] \in Nat /\ asked[t] \in Nat /\ tries[t] \in Nat
    /\ reported[t] \in Nat
    /\ stillPending[t] \in BOOLEAN /\ pending[t] \in BOOLEAN

LEMMA Typed == ASSUME TypeOK, NEW t \in Shares PROVE TypedAt(t)
  BY DEF TypeOK, TypedAt

(* A share a step leaves alone.                                            *)
SameAt(t) ==
    /\ stage'[t] = stage[t] /\ jobOf'[t] = jobOf[t] /\ handle'[t] = handle[t]
    /\ t \in inQueue' <=> t \in inQueue
    /\ tries'[t] = tries[t] /\ stillPending'[t] = stillPending[t]
    /\ pending'[t] = pending[t] /\ asked'[t] = asked[t]
    /\ reported'[t] = reported[t] /\ never'[t] = never[t]

LEMMA OthersKept ==
    ASSUME TypeOK, NEW s \in Shares, NEW t \in Shares, t # s,
           FindShare(s) \/ JobDies(s) \/ Gpu(s) \/ Call(s) \/ Respond(s)
    PROVE  SameAt(t) /\ UNCHANGED <<session, link, login, cxn, connected>>
<1>1. SameAt(t)
  <2>1. CASE FindShare(s) \/ JobDies(s)
    BY <2>1 DEF SameAt, FindShare, JobDies, TypeOK
  <2>6. CASE Gpu(s)
    BY <2>6 DEF SameAt, Gpu, LockJob, CheckConnected, PostShare, Drop, Release, TypeOK
  <2>2. CASE StartCall(s)
    BY <2>2 DEF SameAt, StartCall, Drop, Release, TypeOK
  <2>3. CASE Try(s)
    BY <2>3 DEF SameAt, Try, TypeOK
  <2>4. CASE StopTrying(s)
    BY <2>4 DEF SameAt, StopTrying, AfterGivingUp, TypeOK
  <2>5. CASE Respond(s)
    BY <2>5 DEF SameAt, Respond, PopHandler, Answered, TypeOK
  <2> QED
    BY <2>1, <2>2, <2>3, <2>4, <2>5, <2>6 DEF Call
<1>2. UNCHANGED <<session, link, login, cxn, connected>>
  BY DEF FindShare, JobDies, Gpu, LockJob, CheckConnected, PostShare, Call, StartCall, Try,
         StopTrying, Respond
<1> QED
  BY <1>1, <1>2

LEMMA OtherShares ==
    ASSUME TypeOK, NEW s \in Shares, NEW t \in Shares, t # s, PerShare(t),
           FindShare(s) \/ JobDies(s) \/ Gpu(s) \/ Call(s) \/ Respond(s)
    PROVE  PerShare(t)'
  BY OthersKept DEF SameAt, PerShare, CallInv

LEMMA ServerKeepsShares ==
    ASSUME TypeOK, LoginInv, NEW t \in Shares, PerShare(t), Server
    PROVE  PerShare(t)'
<1>0. TypedAt(t)
  BY Typed
<1>1. CASE onConnected
  <2>1. asked[t] = 0 /\ ~connected
    BY <1>0, <1>1 DEF TypedAt, onConnected, PerShare, CallInv, LoginInv
  <2> QED
    BY <1>0, <1>1, <2>1 DEF TypedAt, onConnected, PerShare, CallInv
<1>2. CASE ConnectionLost
  <2>1. asked'[t] = 0 /\ ~connected'
    BY <1>2 DEF ConnectionLost, Disconnect
  <2> QED
    BY <1>0, <1>2, <2>1 DEF TypedAt, ConnectionLost, PerShare, CallInv
<1>3. CASE FirstAccepted
  BY <1>3 DEF FirstAccepted, PerShare, CallInv
<1>4. CASE LoginRefused
  BY <1>4 DEF LoginRefused, PerShare, CallInv
<1>5. CASE Authorized
  BY <1>0, <1>5 DEF TypedAt, Authorized, PerShare, CallInv, LoginInv
<1>6. ASSUME onMiningNotify, session' = session
      PROVE  t \in inQueue' => connected /\ t \in inQueue
  <2>1. CASE connected
    BY <1>6, <2>1 DEF onMiningNotify, LeftInQueue
  <2>2. CASE ~connected
    BY <1>6, <2>2 DEF onMiningNotify, LeftInQueue
  <2> QED
    BY <2>1, <2>2
<1>7. CASE JobTemplate
  <2>1. session' = session /\ cxn' = session /\ onMiningNotify
    BY <1>7 DEF JobTemplate
  <2> QED
    BY <1>0, <1>6, <1>7, <2>1 DEF TypedAt, JobTemplate, PerShare, CallInv, LoginInv
<1>8. CASE NoJobTemplate
  BY <1>8 DEF NoJobTemplate, PerShare, CallInv
<1>9. CASE JobArrives
  <2>1. session' = session /\ onMiningNotify
    BY <1>9 DEF JobArrives
  <2> QED
    BY <1>0, <1>6, <1>9, <2>1 DEF TypedAt, JobArrives, PerShare, CallInv
<1> QED
  BY <1>1, <1>2, <1>3, <1>4, <1>5, <1>7, <1>8, <1>9 DEF Server

LEMMA ResetKeepsShares ==
    ASSUME TypeOK, NEW t \in Shares, PerShare(t), StopIo \/ ResetIo
    PROVE  PerShare(t)'
<1>1. CASE StopIo
  BY <1>1 DEF StopIo, PerShare, CallInv
<1>2. CASE ResetIo
  <2>0. TypedAt(t)
    BY Typed
  <2>1. asked'[t] = 0 /\ ~connected'
    BY <1>2 DEF ResetIo, Disconnect
  <2>2. CASE stage[t] = "active"
    <3>1. stage'[t] = "closed" /\ never'[t] = "aborted"
      BY <1>2, <2>2 DEF ResetIo, AfterReset, Aborted
    <3> QED
      BY <1>2, <2>0, <2>1, <2>2, <3>1 DEF TypedAt, ResetIo, PerShare, CallInv
  <2>3. CASE stage[t] # "active"
    <3>1. never'[t] = never[t] /\ stage'[t] \in {stage[t], "lost"}
            /\ (stage[t] = "closed" => stage'[t] = "closed")
            /\ (stage'[t] = "lost" => stage[t] \in {"posted", "lost"})
      BY <1>2, <2>3 DEF ResetIo, AfterReset, Aborted
    <3> QED
      BY <1>2, <2>0, <2>1, <2>3, <3>1 DEF TypedAt, ResetIo, PerShare, CallInv
  <2> QED
    BY <2>2, <2>3
<1> QED
  BY <1>1, <1>2

LEMMA OwnShare ==
    ASSUME TypeOK, LoginInv, NEW s \in Shares, PerShare(s),
           FindShare(s) \/ JobDies(s) \/ Gpu(s) \/ Call(s) \/ Respond(s)
    PROVE  PerShare(s)'
<1>0. TypedAt(s)
  BY Typed
<1>1. CASE FindShare(s)
  <2>1. stage'[s] = "found" /\ jobOf'[s] = newestJob
    BY <1>1 DEF FindShare, TypeOK
  <2> QED
    BY <1>0, <1>1, <2>1 DEF TypedAt, FindShare, PerShare, CallInv, LoginInv
<1>2. CASE Gpu(s)
  <2>1. /\ stage[s] \in {"found", "held", "checked"}
        /\ stage'[s] \in {"held", "checked", "posted", "dropped"}
    BY <1>2 DEF Gpu, LockJob, CheckConnected, PostShare, Drop, TypeOK
  <2>2. \/ jobOf'[s] = jobOf[s] /\ inQueue' = inQueue
        \/ jobOf'[s] = 0 /\ s \notin inQueue'
    BY <1>2 DEF Gpu, LockJob, CheckConnected, PostShare, Drop, Release, TypeOK
  <2>3. UNCHANGED <<session, link, cxn, connected, callVars, ledger>>
    BY <1>2 DEF Gpu, LockJob, CheckConnected, PostShare
  <2> QED
    BY <1>0, <2>1, <2>2, <2>3 DEF TypedAt, PerShare, CallInv
<1>7. CASE JobDies(s)
  <2>1. jobOf'[s] = 0 /\ s \notin inQueue'
    BY <1>7 DEF JobDies, TypeOK
  <2> QED
    BY <1>0, <1>7, <2>1 DEF TypedAt, JobDies, PerShare, CallInv
<1>3. CASE StartCall(s)
  <2>1. tries[s] = 0 /\ never[s] = "no" /\ asked[s] = 0 /\ stillPending[s] /\ ~pending[s]
    BY <1>0, <1>3 DEF TypedAt, StartCall, PerShare, CallInv
  <2>2. stage'[s] \in {"dropped", "active"} /\ handle'[s] \in {handle[s], cxn}
    BY <1>3 DEF StartCall, Drop, TypeOK
  <2>3. jobOf'[s] = 0 /\ s \notin inQueue'
    BY <1>3 DEF StartCall, Drop, Release, TypeOK
  <2> QED
    BY <1>0, <1>3, <2>1, <2>2, <2>3 DEF TypedAt, StartCall, PerShare, CallInv
<1>4. CASE Try(s)
  <2>1. tries'[s] = tries[s] + 1 /\ stillPending[s] /\ stage[s] = "active"
    BY <1>4 DEF Try, KeepTrying, TypeOK
  <2>2. /\ tries[s] = 0 => pending' = [pending EXCEPT ![s] = TRUE]
        /\ tries[s] # 0 => pending' = pending
    BY <1>4 DEF Try
  <2>3. asked'[s] = asked[s] \/ (asked'[s] = asked[s] + 1 /\ link /\ handle[s] = session)
    BY <1>4 DEF Try, CanWrite, TypeOK
  <2>4. pending'[s]
    <3>1. CASE tries[s] = 0
      BY <2>2, <3>1 DEF TypeOK
    <3>2. CASE tries[s] # 0
      <4>1. tries[s] > 0
        BY <1>0, <3>2 DEF TypedAt
      <4>2. pending[s]
        BY <2>1, <4>1 DEF PerShare
      <4> QED
        BY <2>2, <3>2, <4>2
    <3> QED
      BY <3>1, <3>2
  <2> QED
    BY <1>0, <1>4, <2>1, <2>3, <2>4 DEF TypedAt, Try, PerShare, CallInv
<1>5. CASE StopTrying(s)
  <2>1. stage[s] = "active" /\ stage'[s] = "closed"
    BY <1>5 DEF StopTrying, Erased, TypeOK
  <2>2. CASE stillPending[s]
    <3>1. tries[s] > 0
      BY <1>0, <1>5, <2>2 DEF TypedAt, StopTrying, KeepTrying
    <3>2. ~pending'[s] /\ never'[s] = "exhausted"
      BY <1>5, <2>2 DEF StopTrying, AfterGivingUp, TypeOK
    <3> QED
      BY <1>0, <1>5, <2>1, <2>2, <3>1, <3>2 DEF TypedAt, StopTrying, PerShare, CallInv
  <2>3. CASE ~stillPending[s]
    BY <1>0, <1>5, <2>1, <2>3 DEF TypedAt, StopTrying, PerShare, CallInv
  <2> QED
    BY <2>2, <2>3
<1>6. CASE Respond(s)
  <2>1. asked[s] > 0 /\ asked'[s] = asked[s] - 1
    BY <1>6 DEF Respond, TypeOK
  <2>2. CASE pending[s]
    <3>1. ~pending'[s] /\ ~stillPending'[s] /\ reported'[s] = reported[s] + 1
      BY <1>6, <2>2 DEF Respond, PopHandler, Answered, TypeOK
    <3>2. stillPending[s] /\ reported[s] = 0 /\ never[s] # "exhausted" /\ tries[s] > 0
      BY <1>0, <2>1, <2>2 DEF TypedAt, PerShare, CallInv
    <3> QED
      BY <1>0, <1>6, <2>1, <3>1, <3>2 DEF TypedAt, Respond, PerShare, CallInv
  <2>3. CASE ~pending[s]
    BY <1>0, <1>6, <2>1, <2>3 DEF TypedAt, Respond, PerShare, CallInv
  <2> QED
    BY <2>2, <2>3
<1> QED
  BY <1>1, <1>2, <1>3, <1>4, <1>5, <1>6, <1>7 DEF Call

(* Types, the login, and what the shares know of the handler map: together *)
(* inductive, for both protocols.                                          *)
THEOREM InductiveInvariant == Spec => []IInv
<1>1. Init => IInv
  BY InitEstablishes
<1>2. ASSUME IInv, [Next]_vars PROVE IInv'
  <2>0. TypeOK /\ LoginInv /\ \A t \in Shares : PerShare(t)
    BY <1>2, IInvByShares
  <2>00. \A t \in Shares : CallInv(t)
    BY <2>0 DEF PerShare
  <2>1. CASE Next
    <3>1. TypeOK'
      BY <2>0, <2>00, <2>1, TypesServer, TypesShare, TypesReset DEF Next
    <3>2. LoginInv'
      BY <2>0, <2>1, LoginPreserved
    <3>3. ASSUME NEW t \in Shares PROVE PerShare(t)'
      <4>1. CASE Server
        BY <2>0, <4>1, ServerKeepsShares
      <4>2. CASE StopIo \/ ResetIo
        BY <2>0, <4>2, ResetKeepsShares
      <4>3. ASSUME NEW s \in Shares, FindShare(s) \/ JobDies(s) \/ Gpu(s) \/ Call(s) \/ Respond(s)
            PROVE  PerShare(t)'
        BY <2>0, <4>3, OwnShare, OtherShares
      <4> QED
        BY <2>1, <4>1, <4>2, <4>3 DEF Next
    <3>4. ConnectedCanSubmit'
      BY <3>2 DEF LoginInv, ConnectedCanSubmit
    <3>5. (\A s \in inQueue : s \in Shares)'
      BY <3>1 DEF TypeOK
    <3> QED
      BY <3>1, <3>2, <3>3, <3>4, <3>5 DEF IInv, PerShare, HandlerExists, NothingForgotten,
                                          QueueOfConnection
  <2>2. CASE UNCHANGED vars
    BY <1>2, <2>2 DEF IInv, TypeOK, LoginInv, CallInv, HandlerExists, NothingForgotten,
                      QueueOfConnection, ConnectedCanSubmit
  <2> QED
    BY <1>2, <2>1, <2>2
<1> QED
  BY <1>1, <1>2, PTL DEF Spec

(* A share is counted at most once, and never after it was given up,       *)
(* however often and however late the server answers.                      *)
THEOREM AnswersCountedOnce == Spec => []CountedOnce
<1>1. ASSUME IInv PROVE CountedOnce
  <2>1. ASSUME NEW s \in Shares
        PROVE  reported[s] <= 1 /\ (never[s] = "exhausted" => reported[s] = 0)
    <3>1. CallInv(s) /\ stillPending[s] \in BOOLEAN
      BY <1>1 DEF IInv, TypeOK
    <3> QED
      BY <3>1 DEF CallInv
  <2> QED
    BY <2>1 DEF CountedOnce
<1> QED
  BY <1>1, InductiveInvariant, PTL

(* No share is written to a connection whose login was not accepted.       *)
THEOREM SharesOnlyAfterLogin == Spec => []SharesAfterLogin
<1>1. ASSUME IInv PROVE SharesAfterLogin
  <2>1. ASSUME NEW s \in Shares, asked[s] > 0 PROVE login = "done"
    <3>1. handle[s] <= cxn /\ cxn <= session /\ link /\ handle[s] = session
      BY <1>1, <2>1 DEF IInv, CallInv, LoginInv
    <3>2. cxn = session
      BY <1>1, <3>1 DEF IInv, TypeOK
    <3> QED
      BY <1>1, <3>1, <3>2 DEF IInv, LoginInv
  <2> QED
    BY <2>1 DEF SharesAfterLogin
<1> QED
  BY <1>1, InductiveInvariant, PTL

(* The assertion of callAsyncRetryNTimes never fails.                      *)
THEOREM AssertionHolds == Spec => []HandlerExists
<1>1. IInv => HandlerExists
  BY DEF IInv
<1> QED
  BY <1>1, InductiveInvariant, PTL

(* A connected Ethash pool submits to its current, authorized connection.  *)
THEOREM EthashConnectedCanSubmit == Spec => []ConnectedCanSubmit
<1>1. IInv => ConnectedCanSubmit
  BY DEF IInv
<1> QED
  BY <1>1, InductiveInvariant, PTL

-----------------------------------------------------------------------------
(* Refinement: each share takes the way ShareDelivery describes.           *)

LEMMA NothingOfShare ==
    ASSUME NEW t \in Shares,
           WayOf(t)' = WayOf(t), ToldOf(t)' = ToldOf(t), asked'[t] = asked[t],
           CanWrite(t)' = CanWrite(t), LoggedIn' = LoggedIn
    PROVE  [Share(t)!Next]_(Share(t)!vars)
BY Zenon DEF Share!vars

LEMMA SameShare ==
    ASSUME NEW t \in Shares, SameAt(t), link' = link, session' = session, login' = login
    PROVE  [Share(t)!Next]_(Share(t)!vars)
<1>1. WayOf(t)' = WayOf(t) /\ ToldOf(t)' = ToldOf(t) /\ asked'[t] = asked[t]
  BY DEF SameAt, WayOf, ToldOf
<1>2. CanWrite(t)' = CanWrite(t) /\ LoggedIn' = LoggedIn
  BY DEF SameAt, CanWrite, LoggedIn
<1> QED
  BY <1>1, <1>2, NothingOfShare

(* What ends with the connection, for every share.                         *)
LEMMA ConnectionEnds ==
    ASSUME NEW t \in Shares, Disconnect
    PROVE  /\ LoggedIn' = FALSE
           /\ CanWrite(t)' = FALSE
           /\ asked'[t] = 0
BY DEF Disconnect, LoggedIn, CanWrite

(* To a share the login is one step, and a new connection none: its call   *)
(* stays with the connection it was made with.                             *)
LEMMA ServerStepOfShare ==
    ASSUME TypeOK, LoginInv, NEW t \in Shares, PerShare(t), Server
    PROVE  [Share(t)!Next]_(Share(t)!vars)
<1>0. TypedAt(t)
  BY Typed
<1>1. WayOf(t)' = WayOf(t) /\ ToldOf(t)' = ToldOf(t)
  BY DEF Server, onConnected, ConnectionLost, FirstAccepted, LoginRefused, Authorized,
         JobTemplate, NoJobTemplate, JobArrives, WayOf, ToldOf
<1>2. CASE ConnectionLost
  <2>1. LoggedIn' = FALSE /\ CanWrite(t)' = FALSE /\ asked'[t] = 0
    BY <1>2, ConnectionEnds DEF ConnectionLost
  <2>2. Share(t)!Lose
    BY <1>1, <2>1, Zenon DEF Share!Lose, Share!Hangup
  <2> QED
    BY <2>2, Zenon DEF Share!Next
<1>3. CASE Authorized \/ JobTemplate
  <2>1. ~LoggedIn /\ LoggedIn' = TRUE
    BY <1>3 DEF Authorized, JobTemplate, Listening, LoggedIn
  <2>2. asked'[t] = asked[t] /\ CanWrite(t)' = CanWrite(t)
    BY <1>3 DEF Authorized, JobTemplate, CanWrite
  <2>3. Share(t)!Accept
    BY <1>1, <2>1, <2>2, Zenon DEF Share!Accept
  <2> QED
    BY <2>3, Zenon DEF Share!Next
<1>4. CASE onConnected
  <2>1. CanWrite(t)' = CanWrite(t) /\ LoggedIn' = LoggedIn
    BY <1>0, <1>4 DEF onConnected, TypedAt, PerShare, CallInv, LoginInv, CanWrite, LoggedIn
  <2>2. asked'[t] = asked[t]
    BY <1>4 DEF onConnected
  <2> QED
    BY <1>1, <2>1, <2>2, NothingOfShare
<1>5. CASE FirstAccepted \/ LoginRefused \/ NoJobTemplate \/ JobArrives
  <2>1. asked'[t] = asked[t] /\ CanWrite(t)' = CanWrite(t)
    BY <1>5 DEF FirstAccepted, LoginRefused, NoJobTemplate, JobArrives, CanWrite
  <2>2. LoggedIn' = LoggedIn
    BY <1>5 DEF FirstAccepted, LoginRefused, NoJobTemplate, JobArrives, LoggedIn
  <2> QED
    BY <1>1, <2>1, <2>2, NothingOfShare
<1> QED
  BY <1>2, <1>3, <1>4, <1>5 DEF Server

(* disconnectAll aborts the calls under way and forgets those that were    *)
(* posted.                                                                 *)
LEMMA ResetStepOfShare ==
    ASSUME TypeOK, NEW t \in Shares, PerShare(t), StopIo \/ ResetIo
    PROVE  [Share(t)!Next]_(Share(t)!vars)
<1>1. CASE StopIo
  BY <1>1, SameShare DEF StopIo, SameAt
<1>2. CASE ResetIo
  <2>1. LoggedIn' = FALSE /\ CanWrite(t)' = FALSE /\ asked'[t] = 0
    BY <1>2, ConnectionEnds DEF ResetIo
  <2>2. stage'[t] = AfterReset(t) /\ stillPending'[t] = stillPending[t]
          /\ never'[t] = IF t \in Aborted THEN "aborted" ELSE never[t]
    BY <1>2 DEF ResetIo
  <2>3. CASE stage[t] = "active"
    <3>1. WayOf(t) = "calling" /\ WayOf(t)' = "over"
      BY <2>2, <2>3 DEF WayOf, AfterReset
    <3>2. ToldOf(t)' = ToldOf(t) \cup {"aborted"}
      BY <2>2, <2>3 DEF ToldOf, Aborted, PerShare, CallInv
    <3>3. Share(t)!Abort
      BY <2>1, <3>1, <3>2, Zenon DEF Share!Abort, Share!Hangup
    <3> QED
      BY <3>3, Zenon DEF Share!Next
  <2>4. CASE stage[t] # "active"
    <3>1. ToldOf(t)' = ToldOf(t)
      BY <2>2, <2>4 DEF ToldOf, Aborted
    <3>2. CASE stage[t] = "posted"
      <4>1. WayOf(t) = "found" /\ WayOf(t)' = "over"
        BY <2>2, <3>2 DEF WayOf, AfterReset
      <4>2. Share(t)!Abort
        BY <2>1, <3>1, <4>1, Zenon DEF Share!Abort, Share!Hangup
      <4> QED
        BY <4>2, Zenon DEF Share!Next
    <3>3. CASE stage[t] # "posted"
      <4>1. WayOf(t)' = WayOf(t)
        BY <2>2, <2>4, <3>3 DEF WayOf, AfterReset
      <4>2. Share(t)!Lose
        BY <2>1, <3>1, <4>1, Zenon DEF Share!Lose, Share!Hangup
      <4> QED
        BY <4>2, Zenon DEF Share!Next
    <3> QED
      BY <3>2, <3>3
  <2> QED
    BY <2>3, <2>4
<1> QED
  BY <1>1, <1>2

(* A share on its way to the connection it may be written to.              *)
LEMMA WayStepOfShare ==
    ASSUME TypeOK, LoginInv, NEW s \in Shares, PerShare(s),
           FindShare(s) \/ JobDies(s) \/ Gpu(s) \/ StartCall(s)
    PROVE  [Share(s)!Next]_(Share(s)!vars)
<1>1. ToldOf(s)' = ToldOf(s) /\ asked'[s] = asked[s] /\ LoggedIn' = LoggedIn
  BY DEF FindShare, JobDies, Gpu, LockJob, CheckConnected, PostShare, StartCall, ToldOf, LoggedIn
<1>2. handle'[s] = handle[s] => CanWrite(s)' = CanWrite(s)
  BY DEF FindShare, JobDies, Gpu, LockJob, CheckConnected, PostShare, StartCall, CanWrite
<1>3. CASE FindShare(s)
  <2>1. WayOf(s) = "none" /\ WayOf(s)' = "found" /\ CanWrite(s)' = CanWrite(s)
    BY <1>2, <1>3 DEF FindShare, WayOf, TypeOK
  <2>2. Share(s)!Find
    BY <1>1, <2>1, Zenon DEF Share!Find
  <2> QED
    BY <2>2, Zenon DEF Share!Next
<1>4. CASE JobDies(s) \/ Gpu(s) \/ (StartCall(s) /\ jobOf[s] = NoJob)
  <2>1. /\ stage[s] \in {"found", "held", "checked", "posted"}
        /\ stage'[s] \in {"found", "held", "checked", "posted", "dropped"}
    BY <1>4 DEF JobDies, Gpu, LockJob, CheckConnected, PostShare, StartCall, Drop, TypeOK
  <2>2. CanWrite(s)' = CanWrite(s)
    BY <1>2, <1>4 DEF JobDies, Gpu, LockJob, CheckConnected, PostShare, StartCall
  <2>3. WayOf(s) = "found"
    BY <2>1 DEF WayOf
  <2>4. CASE stage'[s] = "dropped"
    <3>1. WayOf(s)' = "over"
      BY <2>4 DEF WayOf
    <3>2. Share(s)!Discard
      BY <1>1, <2>2, <2>3, <3>1, Zenon DEF Share!Discard
    <3> QED
      BY <3>2, Zenon DEF Share!Next
  <2>5. CASE stage'[s] # "dropped"
    <3>1. WayOf(s)' = "found"
      BY <2>1, <2>5 DEF WayOf
    <3> QED
      BY <1>1, <2>2, <2>3, <3>1, NothingOfShare
  <2> QED
    BY <2>4, <2>5
<1>5. CASE StartCall(s) /\ jobOf[s] # NoJob
  <2>1. stage[s] = "posted" /\ stage'[s] = "active" /\ handle'[s] = cxn
    BY <1>5 DEF StartCall, TypeOK
  <2>2. WayOf(s) = "found" /\ WayOf(s)' = "calling"
    BY <2>1 DEF WayOf
  <2>3. CanWrite(s)' => LoggedIn
    BY <1>5, <2>1 DEF StartCall, CanWrite, LoggedIn, LoginInv
  <2>4. CanWrite(s)' \in {FALSE, LoggedIn}
    BY <2>3 DEF CanWrite, LoggedIn
  <2>5. Share(s)!Call
    BY <1>1, <2>2, <2>4, Zenon DEF Share!Call
  <2> QED
    BY <2>5, Zenon DEF Share!Next
<1> QED
  BY <1>3, <1>4, <1>5

(* Trying, giving up and settling.                                         *)
LEMMA CallStepOfShare ==
    ASSUME TypeOK, NEW s \in Shares, PerShare(s), Try(s) \/ StopTrying(s)
    PROVE  [Share(s)!Next]_(Share(s)!vars)
<1>1. LoggedIn' = LoggedIn /\ CanWrite(s)' = CanWrite(s)
  BY DEF Try, StopTrying, LoggedIn, CanWrite
<1>2. stage[s] = "active" /\ never[s] = "no"
  BY DEF Try, StopTrying, PerShare, CallInv
<1>3. WayOf(s) = "calling"
  BY <1>2 DEF WayOf
<1>4. CASE Try(s)
  <2>1. ToldOf(s) = {}
    BY <1>2, <1>4 DEF Try, KeepTrying, ToldOf
  <2>2. WayOf(s)' = "calling" /\ ToldOf(s)' = ToldOf(s)
    BY <1>2, <1>4 DEF Try, WayOf, ToldOf
  <2>3. CASE CanWrite(s)
    <3>1. asked'[s] = asked[s] + 1
      BY <1>4, <2>3 DEF Try, TypeOK
    <3>2. Share(s)!Write
      BY <1>1, <1>3, <2>1, <2>2, <2>3, <3>1, Zenon DEF Share!Write
    <3> QED
      BY <3>2, Zenon DEF Share!Next
  <2>4. CASE ~CanWrite(s)
    <3>1. asked'[s] = asked[s]
      BY <1>4, <2>4 DEF Try
    <3> QED
      BY <1>1, <1>3, <2>2, <3>1, NothingOfShare
  <2> QED
    BY <2>3, <2>4
<1>5. CASE StopTrying(s)
  <2>1. stage'[s] = "closed" /\ asked'[s] = asked[s] /\ stillPending'[s] = stillPending[s]
    BY <1>5 DEF StopTrying, Erased, TypeOK
  <2>2. WayOf(s)' = "over"
    BY <2>1 DEF WayOf
  <2>3. CASE stillPending[s]
    <3>1. never'[s] = "exhausted"
      BY <1>5, <2>3 DEF StopTrying, TypeOK
    <3>2. ToldOf(s) = {} /\ ToldOf(s)' = {"exhausted"}
      BY <1>2, <2>1, <2>3, <3>1 DEF ToldOf
    <3>3. Share(s)!GiveUp
      BY <1>1, <1>3, <2>1, <2>2, <3>2, Zenon DEF Share!GiveUp
    <3> QED
      BY <3>3, Zenon DEF Share!Next
  <2>4. CASE ~stillPending[s]
    <3>1. never'[s] = "no"
      BY <1>2, <1>5, <2>4 DEF StopTrying
    <3>2. ToldOf(s) = {"answered"} /\ ToldOf(s)' = ToldOf(s)
      BY <1>2, <2>1, <2>4, <3>1 DEF ToldOf
    <3>3. Share(s)!Settle
      BY <1>1, <1>3, <2>1, <2>2, <3>2, Zenon DEF Share!Settle
    <3> QED
      BY <3>3, Zenon DEF Share!Next
  <2> QED
    BY <2>3, <2>4
<1> QED
  BY <1>4, <1>5

(* The handler map has the handler exactly if the answer counts.           *)
LEMMA AnswerStepOfShare ==
    ASSUME TypeOK, NEW s \in Shares, PerShare(s), Respond(s)
    PROVE  [Share(s)!Next]_(Share(s)!vars)
<1>0. TypedAt(s)
  BY Typed
<1>1. LoggedIn' = LoggedIn /\ CanWrite(s)' = CanWrite(s) /\ WayOf(s)' = WayOf(s)
  BY DEF Respond, LoggedIn, CanWrite, WayOf
<1>2. asked[s] > 0 /\ asked'[s] = asked[s] - 1 /\ never' = never
  BY DEF Respond, TypeOK
<1>3. ToldOf(s)' = IF ToldOf(s) = {} THEN {"answered"} ELSE ToldOf(s)
  <2>1. CASE pending[s]
    <3>1. stillPending[s] /\ never[s] = "no"
      BY <1>0, <1>2, <2>1 DEF TypedAt, TypeOK, PerShare, CallInv
    <3>2. stillPending'[s] = FALSE
      BY <2>1 DEF Respond, Answered, TypeOK
    <3> QED
      BY <1>2, <3>1, <3>2 DEF ToldOf
  <2>2. CASE ~pending[s]
    <3>1. ~(stillPending[s] /\ never[s] = "no")
      BY <1>0, <1>2, <2>2 DEF TypedAt, PerShare, CallInv
    <3>2. stillPending' = stillPending
      BY <2>2 DEF Respond
    <3>3. ToldOf(s) # {} /\ ToldOf(s)' = ToldOf(s)
      BY <1>2, <3>1, <3>2 DEF ToldOf
    <3> QED
      BY <3>3
  <2> QED
    BY <2>1, <2>2
<1>4. Share(s)!Answer
  BY <1>1, <1>2, <1>3, Zenon DEF Share!Answer
<1> QED
  BY <1>4, Zenon DEF Share!Next

(* Whatever the retry timers, late answers, lost connections and           *)
(* disconnectAll do to the calls of the other shares and to the handler    *)
(* map they have in common, every share takes the way ShareDelivery allows *)
(* (network/JsonRpcUtil.cpp, pool/PoolEthash.cpp, pool/PoolGrin.cpp).      *)
THEOREM EveryShareIsDelivered == Spec => SharesDelivered
<1>1. Init => \A s \in Shares : Share(s)!Init
  <2> SUFFICES ASSUME Init, NEW s \in Shares PROVE Share(s)!Init
    OBVIOUS
  <2>1. WayOf(s) = "none" /\ ToldOf(s) = {} /\ asked[s] = 0
    BY DEF Init, WayOf, ToldOf
  <2>2. CanWrite(s) = FALSE /\ LoggedIn = FALSE
    BY DEF Init, CanWrite, LoggedIn
  <2> QED
    BY <2>1, <2>2, Zenon DEF Share!Init
<1>2. IInv /\ [Next]_vars => [\A s \in Shares : [Share(s)!Next]_(Share(s)!vars)]_vars
  <2> SUFFICES ASSUME IInv, [Next]_vars, NEW t \in Shares
               PROVE  [Share(t)!Next]_(Share(t)!vars)
    OBVIOUS
  <2>0. TypeOK /\ LoginInv /\ \A s \in Shares : PerShare(s)
    BY IInvByShares
  <2>1. CASE Server
    BY <2>0, <2>1, ServerStepOfShare
  <2>2. CASE StopIo \/ ResetIo
    BY <2>0, <2>2, ResetStepOfShare
  <2>3. ASSUME NEW s \in Shares, FindShare(s) \/ JobDies(s) \/ Gpu(s) \/ Call(s) \/ Respond(s)
        PROVE  [Share(t)!Next]_(Share(t)!vars)
    <3>1. CASE s = t
      <4>1. CASE FindShare(s) \/ JobDies(s) \/ Gpu(s) \/ StartCall(s)
        BY <2>0, <3>1, <4>1, WayStepOfShare
      <4>2. CASE Try(s) \/ StopTrying(s)
        BY <2>0, <3>1, <4>2, CallStepOfShare
      <4>3. CASE Respond(s)
        BY <2>0, <3>1, <4>3, AnswerStepOfShare
      <4> QED
        BY <2>3, <4>1, <4>2, <4>3 DEF Call
    <3>2. CASE s # t
      <4>1. SameAt(t) /\ link' = link /\ session' = session /\ login' = login
        BY <2>0, <2>3, <3>2, OthersKept
      <4> QED
        BY <4>1, SameShare
    <3> QED
      BY <3>1, <3>2
  <2>4. CASE UNCHANGED vars
    BY <2>4, SameShare DEF SameAt
  <2> QED
    BY <2>1, <2>2, <2>3, <2>4 DEF Next
<1> QED
  BY <1>1, <1>2, InductiveInvariant, PTL DEF Spec, SharesDelivered
=============================================================================
