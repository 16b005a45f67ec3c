-------------------------- MODULE ApplicationProofs --------------------------
(***************************************************************************)
(* Proofs about Application.                                               *)
(***************************************************************************)
EXTENDS Application, FiniteSetTheorems, SequenceTheorems, TLAPS

-----------------------------------------------------------------------------
(* Lookups.                                                                *)

LEMMA LeastNat ==
    ASSUME NEW T, T \subseteq Nat, T # {}
    PROVE  \E m \in T : \A n \in T : m <= n
  <1> DEFINE R == OpToRel(<, Nat)
  <1>1. \E m \in T : \A n \in T : <<n, m>> \notin R
    <2>1. IsWellFoundedOn(R, Nat)
      BY NatLessThanWellFounded
    <2> HIDE DEF R
    <2>2. QED
      BY <2>1, WFMin
  <1>2. \A m \in Nat : \A n \in Nat : n < m => <<n, m>> \in R
    BY DEF OpToRel
  <1>3. QED
    <2>1. PICK m \in T : \A n \in T : <<n, m>> \notin R
      BY <1>1
    <2>2. \A n \in T : ~(n < m)
      BY <2>1, <1>2
    <2>3. m \in Nat /\ \A n \in T : n \in Nat
      OBVIOUS
    <2>4. QED
      BY <2>2, <2>3

(* Min of the community modules is that least one.                         *)
LEMMA MinIsOne ==
    ASSUME NEW n \in Nat, NEW I \in SUBSET (1 .. n), I # {}
    PROVE  Min(I) \in I /\ Min(I) \in 1 .. n
  <1>1. I \subseteq Nat
    OBVIOUS
  <1>2. \E i \in I : \A j \in I : i <= j
    BY <1>1, LeastNat
  <1>3. Min(I) \in I
    BY <1>2, Zenon DEF Min
  <1> QED
    BY <1>3

(* What a name has in the registry is registered.                          *)
LEMMA PowTypeIsKnown ==
    ASSUME NEW n
    PROVE  powTypeOfAlgoImpl(n) \in PowTypes \cup {Empty}
  <1> DEFINE I == {i \in 1 .. Len(AlgoImpls) : SameName(AlgoImpls[i].name, n)}
             e == IF I # {} THEN AlgoImpls[Min(I)] ELSE None
             f == FirstThat(AlgoImpls, LAMBDA x : SameName(x.name, n))
             k == SelectInSeq(AlgoImpls, LAMBDA x : SameName(x.name, n))
  <1>1. k = IF I # {} THEN Min(I) ELSE 0
    BY Zenon DEF SelectInSeq
  <1>2. f = IF k = 0 THEN None ELSE AlgoImpls[k]
    BY Zenon DEF FirstThat
  <1>3. powTypeOfAlgoImpl(n) = IF f = None THEN Empty ELSE f.powType
    BY Zenon DEF powTypeOfAlgoImpl
  <1>4. I # {} => Min(I) \in I /\ Min(I) \in 1 .. Len(AlgoImpls)
    <2>1. I \in SUBSET (1 .. Len(AlgoImpls)) /\ Len(AlgoImpls) \in Nat
      BY ConfigurationAssumption
    <2> HIDE DEF I
    <2> QED
      BY <2>1, MinIsOne
  <1> HIDE DEF f, k
  <1>5. f # None => \E i \in DOMAIN AlgoImpls : f = AlgoImpls[i]
    <2> HIDE DEF I
    <2>1. DOMAIN AlgoImpls = 1 .. Len(AlgoImpls)
      BY ConfigurationAssumption
    <2> QED
      BY <1>1, <1>2, <1>4, <2>1
  <1> QED
    BY <1>3, <1>5, ConfigurationAssumption DEF PowTypes

(* The first of names is one of them.                                      *)
LEMMA FirstIsOne ==
    ASSUME NEW names \in SUBSET ImplNames, names # {}
    PROVE  FirstOf(names) \in names
  <1> DEFINE I == {i \in 1 .. Len(ImplOrder) : ImplOrder[i] \in names}
             k == SelectInSeq(ImplOrder, LAMBDA n : n \in names)
  <1>1. k = IF I # {} THEN Min(I) ELSE 0
    BY Zenon DEF SelectInSeq
  <1>2. FirstOf(names) = IF k = 0 THEN None ELSE ImplOrder[k]
    BY Zenon DEF FirstThat, FirstOf
  <1>3. I # {}
    BY ConfigurationAssumption DEF ImplNames, Range
  <1>4. Min(I) \in I /\ Min(I) \in 1 .. Len(ImplOrder)
    <2>1. I \in SUBSET (1 .. Len(ImplOrder)) /\ Len(ImplOrder) \in Nat
      BY ConfigurationAssumption
    <2> HIDE DEF I
    <2> QED
      BY <1>3, <2>1, MinIsOne
  <1> HIDE DEF k
  <1> QED
    BY <1>1, <1>2, <1>3, <1>4

LEMMA ProfileIsConfigured ==
    ASSUME NEW c, c.deviceProfiles \in Seq(Range(c.deviceProfiles)), NEW name,
           getDeviceProfile(c, name) # None
    PROVE  getDeviceProfile(c, name) \in Range(c.deviceProfiles)
  <1> DEFINE s == c.deviceProfiles
             I == {i \in 1 .. Len(s) : s[i].name = name}
             k == SelectInSeq(s, LAMBDA p : p.name = name)
  <1>1. k = IF I # {} THEN Min(I) ELSE 0
    BY Zenon DEF SelectInSeq
  <1>2. getDeviceProfile(c, name) = IF k = 0 THEN None ELSE s[k]
    BY Zenon DEF FirstThat, getDeviceProfile
  <1>3. s \in Seq(Range(s))
    OBVIOUS
  <1> HIDE DEF s
  <1>4. I # {} => Min(I) \in I /\ Min(I) \in 1 .. Len(s)
    <2>1. I \in SUBSET (1 .. Len(s)) /\ Len(s) \in Nat
      BY <1>3
    <2> HIDE DEF I
    <2> QED
      BY <2>1, MinIsOne
  <1> HIDE DEF k
  <1>5. getDeviceProfile(c, name) \in Range(s)
    <2> HIDE DEF I
    <2>1. DOMAIN s = 1 .. Len(s)
      BY <1>3
    <2> QED
      BY <1>1, <1>2, <1>4, <2>1 DEF Range
  <1> QED
    BY <1>5 DEF s

LEMMA SettingsAreChecked ==
    ASSUME NEW c, IsConfig(c), NEW task, NEW n, HasSettings(c, task, n)
    PROVE  AlgoSettingsAreValid(DeviceWith(c, n, task).settings)
  <1> DEFINE p == getDeviceProfile(c, task.deviceProfile)
  <1>1. p # None /\ n \in DOMAIN p.settings
    BY DEF HasSettings
  <1>2. p \in Range(c.deviceProfiles)
    BY <1>1, ProfileIsConfigured DEF IsConfig, IsText
  <1>3. AlgoSettingsAreValid(p.settings[n])
    BY <1>1, <1>2 DEF IsConfig, validateConfig
  <1>4. DeviceWith(c, n, task).settings = p.settings[n]
    BY DEF DeviceWith
  <1> QED
    BY <1>3, <1>4

LEMMA DeviceIsInUse ==
    ASSUME NEW c, NEW n, NEW task
    PROVE  DeviceWith(c, n, task) # None /\ DeviceWith(c, n, task).implName = n
  <1>1. DOMAIN DeviceWith(c, n, task) = {"implName", "settings"}
    BY DEF DeviceWith
  <1>2. DOMAIN None = {}
    BY DEF None
  <1> QED
    BY <1>1, <1>2 DEF DeviceWith

-----------------------------------------------------------------------------
(* The shutdown.                                                           *)

ShutdownPart == ShutdownTypeOK /\ pc \in Places /\ TasksOutlastApplication

(* What main does with the mutex.                                          *)
LEMMA MainKeepsShutdown ==
    ASSUME ShutdownPart, Launch \/ MainStep \/ CloseAlgorithm
    PROVE  ShutdownPart'
  <1> USE DEF ShutdownPart, ShutdownTypeOK, TasksOutlastApplication, Places, MainAt, MainGoes, Over
  <1>1. CASE Construct
    BY <1>1 DEF Construct, shutdownVars
  <1>2. CASE LockPoolSwitchers
    BY <1>2 DEF LockPoolSwitchers, OthersStay, shutdownVars
  <1>3. CASE SkipUnknown
    BY <1>3 DEF SkipUnknown, Skip, OthersStay, shutdownVars
  <1>4. CASE AddPools
    <2>1. UNCHANGED shutdownVars /\ pc' \in {"next", "assign"} /\ pc = "next"
      BY <1>4 DEF AddPools, Skip
    <2> QED
      BY <2>1 DEF shutdownVars
  <1>5. CASE AssignDevices
    <2>1. UNCHANGED shutdownVars /\ pc' \in {"next", "make"} /\ pc = "assign"
      BY <1>5 DEF AssignDevices, Skip, OthersStay
    <2> QED
      BY <2>1 DEF shutdownVars
  <1>6. CASE MakeAlgo
    BY <1>6 DEF MakeAlgo, Skip, OthersStay, shutdownVars
  <1>7. CASE MakeAlgoThrows
    BY <1>7 DEF MakeAlgoThrows, OthersStay, shutdownVars
  <1>8. CASE Launched
    BY <1>8 DEF Launched, OthersStay, shutdownVars
  <1>9. CASE RejectArguments
    BY <1>9 DEF RejectArguments, ProcessEnds, appVars
  <1>10. CASE RegisterHandlers
    BY <1>10 DEF RegisterHandlers, OthersStay, shutdownVars
  <1>11. CASE LoadConfig
    <2>1. UNCHANGED shutdownVars /\ pc' \in {"confirm", "construct"} /\ pc = "load"
      BY <1>11 DEF LoadConfig, OthersStay
    <2> QED
      BY <2>1 DEF shutdownVars
  <1>12. CASE EnterOrReenterWait
    BY <1>12 DEF EnterOrReenterWait, TakeMut
  <1>13. CASE WaitOrGoOn
    BY <1>13 DEF WaitOrGoOn, ReleaseMut
  <1>14. CASE CloseApi
    BY <1>14 DEF CloseApi, shutdownVars
  <1>15. CASE CloseSwitchers
    BY <1>15 DEF CloseSwitchers, OthersStay, shutdownVars
  <1>16. CASE EnterConfirm
    BY <1>16 DEF EnterConfirm, TakeMut
  <1>17. CASE Confirm
    BY <1>17 DEF Confirm, SetApplicationClosed
  <1>18. CASE Notify
    <2>1. /\ pc = "notify" /\ pc' = "reset"
          /\ UNCHANGED <<shutdownRequested, applicationClosed, mut, shutdownTask, awaits, outcome>>
      BY <1>18 DEF Notify, NotifyOneTask
    <2>2. tasks' = tasks \/ \E n \in Signals : tasks[n] = "waiting" /\ tasks' = [tasks EXCEPT ![n] = "relocking"]
      BY <1>18 DEF Notify, NotifyOneTask
    <2>3. /\ tasks' \in [Signals -> {"none", "starting", "waiting", "relocking", "done"}]
          /\ \A n \in Signals : tasks'[n] = "done" => tasks[n] = "done"
      BY <2>2
    <2> QED
      BY <2>1, <2>3
  <1>19. CASE Reset
    BY <1>19 DEF Reset, OthersStay, shutdownVars
  <1>20. CASE Return
    BY <1>20 DEF Return, ProcessEnds, appVars
  <1>21. CASE CloseAlgorithm
    BY <1>21 DEF CloseAlgorithm, OthersStay, shutdownVars
  <1> QED
    BY <1>1, <1>2, <1>3, <1>4, <1>5, <1>6, <1>7, <1>8, <1>9, <1>10, <1>11, <1>12, <1>13, <1>14,
       <1>15, <1>16, <1>17, <1>18, <1>19, <1>20, <1>21 DEF Launch, MainStep

(* What signals and tasks do, of which none ends before main has closed.   *)
LEMMA TasksKeepShutdown ==
    ASSUME ShutdownPart,
           (\E t \in Threads : Signal(t) \/ HandlerEnds(t)) \/ (\E n \in Signals : TaskStep(n))
    PROVE  ShutdownPart'
  <1> USE DEF ShutdownPart, ShutdownTypeOK, TasksOutlastApplication, Places, Over
  <1>1. ASSUME NEW t \in Threads, launchShutdownTask(t), UNCHANGED pc
        PROVE  ShutdownPart'
    <2>1. /\ shutdownTask + 1 \in Signals /\ shutdownTask' = shutdownTask + 1
          /\ shutdownTask' \in 0 .. MaxSignals
      BY <1>1, ApplicationAssumption DEF launchShutdownTask, Signals
    <2>2. /\ tasks' \in [Signals -> {"none", "starting", "waiting", "relocking", "done"}]
          /\ \A n \in Signals : tasks'[n] = "done" => tasks[n] = "done"
      BY <1>1, <2>1 DEF launchShutdownTask
    <2>3. {shutdownTask} \ {0} \subseteq Signals
      BY ApplicationAssumption DEF Signals
    <2>4. awaits' \in [Threads -> SUBSET Signals]
      BY <1>1, <2>3 DEF launchShutdownTask
    <2> QED
      BY <1>1, <2>1, <2>2, <2>4 DEF launchShutdownTask
  <1>2. ASSUME NEW t \in Threads, Signal(t)
        PROVE  ShutdownPart'
    <2>1. CASE pc = "start"
      BY <1>2, <2>1 DEF Signal, DefaultAction, appVars
    <2>2. CASE pc = "join"
      BY <1>2, <2>2 DEF Signal, NullIsDereferenced, appVars
    <2>3. CASE pc \notin {"start", "join"}
      BY <1>1, <1>2, <2>3 DEF Signal, appVars
    <2> QED
      BY <2>1, <2>2, <2>3
  <1>3. ASSUME NEW t \in Threads, HandlerEnds(t)
        PROVE  ShutdownPart'
    <2>1. awaits' \in [Threads -> SUBSET Signals]
      BY <1>3 DEF HandlerEnds, HandlerReturns
    <2> QED
      BY <1>3, <2>1 DEF HandlerEnds, HandlerReturns, OthersGoOn, appVars
  <1>4. ASSUME NEW n \in Signals, TaskRequestsShutdown(n)
        PROVE  ShutdownPart'
    <2>1. /\ pc' \in Places /\ (pc' \in {"test", "confirming"} <=> pc \in {"test", "confirming"})
          /\ pc' \in {"notify", "reset", "join"} <=> pc \in {"notify", "reset", "join"}
      BY <1>4 DEF TaskRequestsShutdown
    <2>2. /\ tasks' \in [Signals -> {"none", "starting", "waiting", "relocking", "done"}]
          /\ \A k \in Signals : tasks'[k] = "done" => tasks[k] = "done" \/ applicationClosed
      BY <1>4 DEF TaskRequestsShutdown, RequestShutdown
    <2> QED
      BY <1>4, <2>1, <2>2 DEF TaskRequestsShutdown, RequestShutdown
  <1>5. ASSUME NEW n \in Signals, TaskTimesOut(n)
        PROVE  ShutdownPart'
    BY <1>5 DEF TaskTimesOut, TimeOut, OthersGoOn, appVars
  <1>6. ASSUME NEW n \in Signals, TaskFinishes(n)
        PROVE  ShutdownPart'
    BY <1>6 DEF TaskFinishes, TaskEnds, OthersGoOn, appVars
  <1> QED
    BY <1>2, <1>3, <1>4, <1>5, <1>6 DEF TaskStep

-----------------------------------------------------------------------------
(* The API.                                                                *)

ApiPart ==
    ApiTypeOK /\ scenario \in Scenarios /\ RequestsInv /\ RequestsAreSafe /\ pc \in Places

(* The next message of a client, and what is answered to it.               *)
LEMMA AnswersAreAnswers ==
    ASSUME NEW m \in AllMessages
    PROVE  AnswerTo(m) \in Seq(Answers)
  <1>1. [id |-> m.id, outcome |-> Outcome(m)] \in Answers
    BY DEF Answers
  <1>2. <<[id |-> m.id, outcome |-> Outcome(m)]>> \in Seq(Answers)
    BY <1>1
  <1>3. <<>> \in Seq(Answers)
    BY EmptySeq
  <1> QED
    BY <1>2, <1>3, Zenon DEF AnswerTo

LEMMA ScriptsAreSequences ==
    ASSUME scenario \in Scenarios, NEW c \in Clients
    PROVE  /\ scenario.script[c] \in Seq(Range(scenario.script[c]))
           /\ Range(scenario.script[c]) \subseteq AllMessages
  <1>1. scenario.script[c] \in Seq(Range(scenario.script[c]))
    BY ApplicationAssumption
  <1> QED
    BY <1>1 DEF AllMessages

LEMMA NextIsMessage ==
    ASSUME scenario \in Scenarios, NEW c \in Clients, IsConnection(c, cxn[c]),
           cxn[c].taken < cxn[c].asked
    PROVE  MessageOf(c) \in AllMessages
  <1>1. cxn[c].taken + 1 \in 1 .. Len(scenario.script[c])
    BY ScriptsAreSequences DEF IsConnection, Connections
  <1>2. DOMAIN scenario.script[c] = 1 .. Len(scenario.script[c])
    BY ScriptsAreSequences
  <1>3. MessageOf(c) \in Range(scenario.script[c])
    BY <1>1, <1>2 DEF MessageOf, Range
  <1> QED
    BY <1>3, ScriptsAreSequences

(* What closes a connection changes nothing else.                          *)
LEMMA KeptIsConnection ==
    ASSUME NEW c, NEW r, IsConnection(c, r)
    PROVE  IsConnection(c, Kept(r))
  <1>1. CASE Kept(r) = r
    BY <1>1
  <1>2. CASE Kept(r) = [r EXCEPT !.link = "closed"]
    BY <1>2 DEF IsConnection, Connections
  <1> QED
    BY <1>1, <1>2 DEF Kept

(* What an answer changes of a connection, taken by the socket at once or  *)
(* not.                                                                    *)
LEMMA WrittenFields ==
    ASSUME NEW r \in Connections, r.rests <= r.writes, NEW a \in Seq(Answers),
           NEW atOnce \in BOOLEAN
    PROVE  /\ Written(r, a, atOnce) \in Connections
           /\ Written(r, a, atOnce).rests <= Written(r, a, atOnce).writes
           /\ Written(r, a, atOnce).link = r.link
           /\ Written(r, a, atOnce).taken = r.taken
           /\ Written(r, a, atOnce).asked = r.asked
           /\ Written(r, a, atOnce).reading = r.reading
           /\ Written(r, a, atOnce).whole = (r.whole /\ atOnce)
           /\ Written(r, a, atOnce).got =
                 IF r.whole /\ atOnce /\ r.link = "open" THEN r.got \o a ELSE r.got
  <1> DEFINE w == r.writes + Len(a)
             n == IF atOnce THEN r.rests ELSE r.rests + Len(a)
             h == r.whole /\ atOnce
             g == IF r.whole /\ atOnce /\ r.link = "open" THEN r.got \o a ELSE r.got
  <1>0. r.writes \in Nat /\ r.rests \in Nat /\ r.whole \in BOOLEAN /\ r.got \in Seq(Answers)
    BY DEF Connections
  <1>1. Len(a) \in Nat
    OBVIOUS
  <1>2. w \in Nat /\ n \in Nat /\ n <= w
    <2>1. CASE atOnce
      BY <1>0, <1>1, <2>1
    <2>2. CASE ~atOnce
      BY <1>0, <1>1, <2>2
    <2> QED
      BY <2>1, <2>2
  <1>3. h \in BOOLEAN
    BY <1>0
  <1>4. g \in Seq(Answers)
    BY <1>0
  <1>5. Written(r, a, atOnce) =
           [r EXCEPT !.writes = w, !.rests = n, !.whole = h, !.got = g]
    BY DEF Written, Connections
  <1> DEFINE x == Written(r, a, atOnce)
  <1> SUFFICES /\ x \in Connections /\ x.rests <= x.writes /\ x.link = r.link
               /\ x.taken = r.taken /\ x.asked = r.asked /\ x.reading = r.reading
               /\ x.whole = h /\ x.got = g
    BY Zenon
  <1>6. x = [r EXCEPT !.writes = w, !.rests = n, !.whole = h, !.got = g]
    BY <1>5
  <1> HIDE DEF w, n, h, g, x
  <1>7. /\ x \in Connections /\ x.rests = n /\ x.writes = w /\ x.link = r.link
        /\ x.taken = r.taken /\ x.asked = r.asked /\ x.reading = r.reading
        /\ x.whole = h /\ x.got = g
    BY <1>2, <1>3, <1>4, <1>6 DEF Connections
  <1> QED
    BY <1>2, <1>7

LEMMA HandledFields ==
    ASSUME NEW c, IsConnection(c, cxn[c]), NEW a \in Seq(Answers), NEW atOnce \in BOOLEAN
    PROVE  /\ Handled(c, a, atOnce) \in Connections
           /\ Handled(c, a, atOnce).rests <= Handled(c, a, atOnce).writes
           /\ Handled(c, a, atOnce).link = cxn[c].link
           /\ Handled(c, a, atOnce).taken = cxn[c].taken + 1
           /\ Handled(c, a, atOnce).asked = cxn[c].asked
           /\ Handled(c, a, atOnce).reading = TRUE
           /\ Handled(c, a, atOnce).whole = (cxn[c].whole /\ atOnce)
           /\ Handled(c, a, atOnce).got =
                 IF cxn[c].whole /\ atOnce /\ cxn[c].link = "open"
                 THEN cxn[c].got \o a ELSE cxn[c].got
  <1> DEFINE t == cxn[c].taken + 1
             r == [cxn[c] EXCEPT !.taken = t, !.reading = TRUE]
  <1>1. cxn[c] \in Connections /\ cxn[c].rests <= cxn[c].writes
    BY DEF IsConnection
  <1>2. t \in Nat
    BY <1>1 DEF Connections
  <1> HIDE DEF t
  <1>3. /\ r \in Connections /\ r.rests = cxn[c].rests /\ r.writes = cxn[c].writes
        /\ r.link = cxn[c].link /\ r.taken = t /\ r.asked = cxn[c].asked
        /\ r.reading = TRUE /\ r.whole = cxn[c].whole /\ r.got = cxn[c].got
    BY <1>1, <1>2 DEF Connections
  <1>4. Handled(c, a, atOnce) = Written(r, a, atOnce)
    BY DEF Handled, t
  <1> HIDE DEF r
  <1> QED
    BY <1>1, <1>3, <1>4, WrittenFields DEF t

LEMMA HandledIsConnection ==
    ASSUME NEW c, IsConnection(c, cxn[c]), cxn[c].taken < cxn[c].asked,
           NEW a \in Seq(Answers), NEW atOnce \in BOOLEAN
    PROVE  IsConnection(c, Handled(c, a, atOnce))
  <1>1. cxn[c].link \notin {"none", "calling"}
    BY DEF IsConnection, NewCxn
  <1>2. /\ cxn[c] \in Connections /\ Handled(c, a, atOnce) \in Connections
        /\ Handled(c, a, atOnce).rests <= Handled(c, a, atOnce).writes
        /\ Handled(c, a, atOnce).link = cxn[c].link
        /\ Handled(c, a, atOnce).taken = cxn[c].taken + 1
        /\ Handled(c, a, atOnce).asked = cxn[c].asked
    BY HandledFields DEF IsConnection
  <1> QED
    BY <1>1, <1>2 DEF IsConnection, Connections

(* A step that leaves all connections but one as they are.                 *)
LEMMA OneConnectionChanges ==
    ASSUME RequestsInv, NEW c \in Clients, NEW r, IsConnection(c, r),
           cxn' = [cxn EXCEPT ![c] = r], UNCHANGED scenario
    PROVE  /\ DOMAIN cxn' = Clients /\ cxn' \in [Clients -> Connections]
           /\ \A k \in Clients : IsConnection(k, cxn[k])'
           /\ cxn'[c] = r
           /\ \A k \in Clients \ {c} : cxn'[k] = cxn[k]
  <1>1. r \in Connections
    BY DEF IsConnection
  <1>2. /\ DOMAIN cxn' = Clients /\ cxn' \in [Clients -> Connections] /\ cxn'[c] = r
        /\ \A k \in Clients \ {c} : cxn'[k] = cxn[k]
    BY <1>1 DEF RequestsInv
  <1>3. ASSUME NEW k \in Clients
        PROVE  IsConnection(k, cxn[k])'
    <2>1. IsConnection(k, cxn'[k])
      BY <1>2 DEF RequestsInv
    <2> QED
      BY <2>1 DEF IsConnection
  <1> QED
    BY <1>2, <1>3

(* A step of the API's thread while it is idle, or of a client.            *)
LEMMA ConnectionStep ==
    ASSUME ApiPart, NEW c \in Clients, NEW r, IsConnection(c, r),
           cxn' = [cxn EXCEPT ![c] = r], UNCHANGED <<api, serving, scenario, pc>>,
           serving = c => r.taken < r.asked
    PROVE  ApiPart'
  <1>1. /\ DOMAIN cxn' = Clients /\ cxn' \in [Clients -> Connections]
        /\ \A k \in Clients : IsConnection(k, cxn[k])'
        /\ cxn'[c] = r
        /\ \A k \in Clients \ {c} : cxn'[k] = cxn[k]
    BY OneConnectionChanges DEF ApiPart
  <1>2. \A k \in Clients :
           /\ cxn'[k].link \in {"none", "calling", "open", "closing", "closed"}
           /\ cxn'[k].taken <= cxn'[k].asked
    BY <1>1 DEF IsConnection, Connections
  <1>3. ApiTypeOK'
    BY <1>2 DEF ApiPart, ApiTypeOK
  <1>4. serving' # NoClient => cxn'[serving'].taken < cxn'[serving'].asked
    BY <1>1 DEF ApiPart, RequestsInv, ApiTypeOK
  <1>5. RequestsInv'
    BY <1>1, <1>4 DEF RequestsInv
  <1>6. RequestsAreSafe' /\ scenario' \in Scenarios /\ pc' \in Places
    BY DEF ApiPart, RequestsAreSafe, HasSwitchersLocked
  <1> QED
    BY <1>3, <1>5, <1>6 DEF ApiPart

LEMMA IdleServesNobody ==
    ASSUME ApiPart, api = "idle"
    PROVE  \A c \in Clients : serving # c
  BY ApiServerAssumption DEF ApiPart, ApiTypeOK

LEMMA ApiKeepsRequests ==
    ASSUME ApiPart, ApiStep
    PROVE  ApiPart'
  <1>0. UNCHANGED <<scenario, pc>>
    BY DEF ApiStep, appVars
  <1>1. ASSUME NEW c \in Clients, Accept(c)
        PROVE  ApiPart'
    <2> DEFINE r == [cxn[c] EXCEPT !.link = "open", !.reading = TRUE]
    <2>1. IsConnection(c, r)
      BY <1>1 DEF Accept, ApiPart, RequestsInv, IsConnection, Connections
    <2>2. cxn' = [cxn EXCEPT ![c] = Kept(r)] /\ UNCHANGED <<api, serving>> /\ api = "idle"
      BY <1>1 DEF Accept, Set, Stays
    <2> HIDE DEF r
    <2> QED
      BY <1>0, <2>1, <2>2, KeptIsConnection, IdleServesNobody, ConnectionStep
  <1>2. ASSUME NEW c \in Clients, ReadEof(c)
        PROVE  ApiPart'
    <2> DEFINE r == [cxn[c] EXCEPT !.reading = FALSE]
    <2>0. IsConnection(c, cxn[c]) /\ cxn[c] \in Connections /\ cxn[c].link = "closing"
      BY <1>2 DEF ReadEof, ApiPart, RequestsInv
    <2>3. /\ r \in Connections /\ r.link = "closing" /\ r.taken = cxn[c].taken
          /\ r.asked = cxn[c].asked /\ r.rests = cxn[c].rests /\ r.writes = cxn[c].writes
      BY <2>0 DEF Connections
    <2>1. IsConnection(c, r)
      <3> HIDE DEF r
      <3> QED
        BY <2>0, <2>3 DEF IsConnection
    <2>2. cxn' = [cxn EXCEPT ![c] = Kept(r)] /\ UNCHANGED <<api, serving>> /\ api = "idle"
      BY <1>2 DEF ReadEof, Set, Stays
    <2> HIDE DEF r
    <2> QED
      BY <1>0, <2>1, <2>2, KeptIsConnection, IdleServesNobody, ConnectionStep
  <1>3. ASSUME NEW c \in Clients, WriteEnds(c)
        PROVE  ApiPart'
    <2> DEFINE w == cxn[c].writes - 1
               r == [cxn[c] EXCEPT !.writes = w]
    <2>0. IsConnection(c, cxn[c]) /\ cxn[c] \in Connections /\ cxn[c].writes > cxn[c].rests
      BY <1>3 DEF WriteEnds, ApiPart, RequestsInv
    <2>1. w \in Nat /\ cxn[c].rests <= w
      BY <2>0 DEF Connections
    <2>2. cxn' = [cxn EXCEPT ![c] = Kept(r)] /\ UNCHANGED <<api, serving>> /\ api = "idle"
      BY <1>3 DEF WriteEnds, Set, Stays
    <2>3. cxn[c].link \notin {"none", "calling"}
      BY <2>0 DEF IsConnection, NewCxn
    <2> HIDE DEF w
    <2>4. /\ r \in Connections /\ r.link = cxn[c].link /\ r.taken = cxn[c].taken
          /\ r.asked = cxn[c].asked /\ r.rests <= r.writes
      BY <2>0, <2>1 DEF Connections
    <2>5. IsConnection(c, r)
      BY <2>0, <2>3, <2>4 DEF IsConnection
    <2> HIDE DEF r
    <2> QED
      BY <1>0, <2>2, <2>5, KeptIsConnection, IdleServesNobody, ConnectionStep
  <1>4. ASSUME NEW c \in Clients, HasNext(c), Receive(c, MessageOf(c))
        PROVE  ApiPart'
    <2>0. /\ IsConnection(c, cxn[c]) /\ cxn[c] \in Connections
          /\ cxn[c].taken < cxn[c].asked /\ cxn[c].reading
      BY <1>4 DEF HasNext, ApiPart, RequestsInv
    <2>1. MessageOf(c) \in AllMessages
      BY <2>0, NextIsMessage DEF ApiPart
    <2>2. AnswerTo(MessageOf(c)) \in Seq(Answers) /\ <<>> \in Seq(Answers)
      BY <2>1, AnswersAreAnswers, EmptySeq
    <2>3. CASE ReceiveBroken(c, MessageOf(c))
      <3> DEFINE r == [cxn[c] EXCEPT !.taken = @ + 1, !.reading = FALSE]
      <3>1. cxn[c].link \notin {"none", "calling"}
        BY <2>0 DEF IsConnection, NewCxn
      <3>2. /\ r \in Connections /\ r.link = cxn[c].link
            /\ r.taken = cxn[c].taken + 1 /\ r.asked = cxn[c].asked /\ r.rests <= r.writes
        <4> DEFINE t == cxn[c].taken + 1
        <4>1. t \in Nat /\ cxn[c].rests <= cxn[c].writes
          BY <2>0 DEF Connections, IsConnection
        <4>2. r = [cxn[c] EXCEPT !.taken = t, !.reading = FALSE]
          OBVIOUS
        <4> HIDE DEF r, t
        <4>3. /\ r \in Connections /\ r.link = cxn[c].link /\ r.taken = t
              /\ r.asked = cxn[c].asked /\ r.rests <= r.writes
          BY <2>0, <4>1, <4>2 DEF Connections
        <4> QED
          BY <4>3 DEF t
      <3>4. IsConnection(c, r)
        <4> HIDE DEF r
        <4> QED
          BY <2>0, <3>1, <3>2 DEF IsConnection, Connections
      <3>3. cxn' = [cxn EXCEPT ![c] = Kept(r)] /\ UNCHANGED <<api, serving>> /\ api = "idle"
        BY <1>4, <2>3 DEF Receive, ReceiveBroken, Set, Stays
      <3> HIDE DEF r
      <3> QED
        BY <1>0, <3>4, <3>3, KeptIsConnection, IdleServesNobody, ConnectionStep
    <2>4. ASSUME NEW a \in Seq(Answers), SetHandled(c, a), Stays
          PROVE  ApiPart'
      <3>0. PICK atOnce \in BOOLEAN : Set(c, Handled(c, a, atOnce))
        BY <2>4 DEF SetHandled, AtOnce
      <3>1. IsConnection(c, Handled(c, a, atOnce))
        BY <2>0, HandledIsConnection
      <3>2. /\ cxn' = [cxn EXCEPT ![c] = Kept(Handled(c, a, atOnce))]
            /\ UNCHANGED <<api, serving>> /\ api = "idle"
        BY <1>4, <2>4, <3>0 DEF Receive, Set, Stays
      <3> QED
        BY <1>0, <3>1, <3>2, KeptIsConnection, IdleServesNobody, ConnectionStep
    <2>5. CASE ReceiveResponse(c, MessageOf(c))
      BY <2>2, <2>4, <2>5 DEF ReceiveResponse
    <2>6. CASE ReceiveRequest(c, MessageOf(c))
      BY <2>2, <2>4, <2>6 DEF ReceiveRequest
    <2>7. CASE ReceiveStatsRequest(c, MessageOf(c))
      <3>1. api = "idle" /\ api' \in {"gpus", "wait"} /\ serving' = c /\ UNCHANGED cxn
        BY <1>4, <2>7 DEF Receive, ReceiveStatsRequest
      <3>2. ApiTypeOK'
        BY <3>1, ApiServerAssumption DEF ApiPart, ApiTypeOK
      <3>3. \A k \in Clients : IsConnection(k, cxn[k])'
        BY <1>0, <3>1 DEF ApiPart, RequestsInv, IsConnection
      <3>4. RequestsInv'
        BY <2>0, <3>1, <3>3 DEF ApiPart, RequestsInv
      <3> QED
        BY <1>0, <3>1, <3>2, <3>4 DEF ApiPart, RequestsAreSafe
    <2> QED
      BY <1>4, <2>3, <2>5, <2>6, <2>7 DEF Receive
  <1>5. CASE ~HasSwitchersLocked /\ BeginPoolStats
    <2>1. api = "wait" /\ api' = "pools" /\ UNCHANGED <<serving, cxn>> /\ ~HasSwitchersLocked'
      BY <1>0, <1>5 DEF BeginPoolStats, HasSwitchersLocked
    <2>2. \A k \in Clients : IsConnection(k, cxn[k])'
      BY <1>0, <2>1 DEF ApiPart, RequestsInv, IsConnection
    <2> QED
      BY <1>0, <2>1, <2>2 DEF ApiPart, ApiTypeOK, RequestsInv, RequestsAreSafe
  <1>6. CASE IsReading /\ EndStats(MessageOf(serving))
    <2>0. /\ serving \in Clients /\ api # "off"
          /\ IsConnection(serving, cxn[serving]) /\ cxn[serving].taken < cxn[serving].asked
      BY <1>6 DEF IsReading, ApiPart, ApiTypeOK, RequestsInv
    <2>1. AnswerTo(MessageOf(serving)) \in Seq(Answers)
      BY <2>0, NextIsMessage, AnswersAreAnswers DEF ApiPart
    <2>7. PICK atOnce \in BOOLEAN :
             Set(serving, Handled(serving, AnswerTo(MessageOf(serving)), atOnce))
      BY <1>6 DEF EndStats, AnswerOn, SetHandled, AtOnce
    <2> DEFINE r == Kept(Handled(serving, AnswerTo(MessageOf(serving)), atOnce))
    <2>2. IsConnection(serving, r)
      BY <2>0, <2>1, HandledIsConnection, KeptIsConnection
    <2>3. cxn' = [cxn EXCEPT ![serving] = r] /\ api' = "idle" /\ serving' = NoClient
      BY <1>6, <2>7 DEF EndStats, Set
    <2> HIDE DEF r
    <2>4. /\ DOMAIN cxn' = Clients /\ cxn' \in [Clients -> Connections]
          /\ \A k \in Clients : IsConnection(k, cxn[k])'
      BY <1>0, <2>0, <2>2, <2>3, OneConnectionChanges DEF ApiPart
    <2>5. \A k \in Clients :
             /\ cxn'[k].link \in {"none", "calling", "open", "closing", "closed"}
             /\ cxn'[k].taken <= cxn'[k].asked
      BY <2>4 DEF IsConnection, Connections
    <2>6. ApiTypeOK' /\ RequestsInv'
      BY <2>3, <2>4, <2>5 DEF ApiTypeOK, RequestsInv
    <2> QED
      BY <1>0, <2>0, <2>3, <2>6 DEF ApiPart, RequestsAreSafe
  <1> QED
    BY <1>1, <1>2, <1>3, <1>4, <1>5, <1>6 DEF ApiStep

LEMMA ClientsKeepRequests ==
    ASSUME ApiPart, ClientStep
    PROVE  ApiPart'
  <1>0. UNCHANGED <<scenario, pc>>
    BY DEF ClientStep, appVars
  <1>1. PICK c \in Clients :
           \/ Connect(c)
           \/ HangUp(c)
           \/ cxn[c].asked < Len(scenario.script[c]) /\ Ask(c)
           \/ Free("api") /\ SendRest(c)
    BY Zenon DEF ClientStep
  <1>2. IsConnection(c, cxn[c]) /\ cxn[c] \in Connections
    BY DEF ApiPart, RequestsInv
  <1>3. serving = c => cxn[c].taken < cxn[c].asked
    BY ApiServerAssumption DEF ApiPart, RequestsInv
  <1>4. CASE Connect(c)
    <2> DEFINE r == [cxn[c] EXCEPT !.link = "calling"]
    <2>1. cxn' = [cxn EXCEPT ![c] = r] /\ UNCHANGED <<api, serving>> /\ cxn[c].link = "none"
      BY <1>4 DEF Connect, Stays
    <2>2. IsConnection(c, r)
      BY <1>2, <2>1 DEF IsConnection, Connections, NewCxn
    <2>3. serving # c
      BY <1>2, <1>3, <2>1 DEF IsConnection, NewCxn
    <2> HIDE DEF r
    <2> QED
      BY <1>0, <2>1, <2>2, <2>3, ConnectionStep
  <1>5. CASE HangUp(c)
    <2> DEFINE r == [cxn[c] EXCEPT !.link = "closing"]
    <2>1. cxn' = [cxn EXCEPT ![c] = r] /\ UNCHANGED <<api, serving>>
      BY <1>5 DEF HangUp, Stays
    <2>2. IsConnection(c, r) /\ r.taken = cxn[c].taken /\ r.asked = cxn[c].asked
      BY <1>2 DEF IsConnection, Connections
    <2> HIDE DEF r
    <2> QED
      BY <1>0, <1>3, <2>1, <2>2, ConnectionStep
  <1>6. CASE cxn[c].asked < Len(scenario.script[c]) /\ Ask(c)
    <2> DEFINE r == [cxn[c] EXCEPT !.asked = @ + 1]
    <2>1. /\ cxn' = [cxn EXCEPT ![c] = r] /\ UNCHANGED <<api, serving>>
          /\ cxn[c].link = "open" /\ cxn[c].asked < Len(scenario.script[c])
      BY <1>6 DEF Ask, Stays
    <2>2. Len(scenario.script[c]) \in Nat
      BY ScriptsAreSequences DEF ApiPart
    <2>3. /\ r \in Connections /\ r.link = "open" /\ r.taken = cxn[c].taken
          /\ r.asked = cxn[c].asked + 1 /\ r.rests = cxn[c].rests /\ r.writes = cxn[c].writes
      BY <1>2, <2>1 DEF Connections
    <2>4. IsConnection(c, r)
      <3> HIDE DEF r
      <3> QED
        BY <1>2, <2>1, <2>2, <2>3 DEF IsConnection, Connections
    <2>5. serving = c => r.taken < r.asked
      BY <1>2, <1>3, <2>3 DEF Connections
    <2> HIDE DEF r
    <2> QED
      BY <1>0, <2>1, <2>4, <2>5, ConnectionStep
  <1>7. CASE Free("api") /\ SendRest(c)
    <2> DEFINE n == cxn[c].rests - 1
               r == [cxn[c] EXCEPT !.rests = n]
    <2>1. /\ cxn' = [cxn EXCEPT ![c] = Kept(r)] /\ UNCHANGED <<api, serving>>
          /\ api = "idle" /\ cxn[c].rests > 0
      BY <1>7 DEF SendRest, Set, Stays
    <2>2. n \in Nat /\ n <= cxn[c].writes
      BY <1>2, <2>1 DEF Connections, IsConnection
    <2>3. cxn[c].link \notin {"none", "calling"}
      BY <1>2, <2>1 DEF IsConnection, NewCxn
    <2> HIDE DEF n
    <2>4. /\ r \in Connections /\ r.link = cxn[c].link /\ r.taken = cxn[c].taken
          /\ r.asked = cxn[c].asked /\ r.rests <= r.writes
      BY <1>2, <2>2 DEF Connections
    <2>5. IsConnection(c, r)
      BY <1>2, <2>3, <2>4 DEF IsConnection
    <2> HIDE DEF r
    <2> QED
      BY <1>0, <2>1, <2>5, KeptIsConnection, IdleServesNobody, ConnectionStep
  <1> QED
    BY <1>1, <1>4, <1>5, <1>6, <1>7

LEMMA OthersKeepRequests ==
    ASSUME ApiPart, UNCHANGED <<apiVars, scenario>>, pc' \in Places, RequestsAreSafe'
    PROVE  ApiPart'
  <1>1. UNCHANGED <<api, serving, cxn, scenario>>
    BY DEF apiVars
  <1>2. \A c \in Clients : IsConnection(c, cxn[c])'
    BY <1>1 DEF ApiPart, RequestsInv, IsConnection
  <1> QED
    BY <1>1, <1>2 DEF ApiPart, ApiTypeOK, RequestsInv

(* The server is there from the constructor on until main closes it, and   *)
(* main locks the pools only when no request has them.                     *)
LEMMA MainKeepsRequests ==
    ASSUME ApiPart, Launch \/ MainStep \/ CloseAlgorithm
    PROVE  ApiPart'
  <1> USE DEF MainAt, MainGoes
  <1>1. CASE Construct
    <2>1. /\ pc' \in {"enterWait", "launch"} /\ api' \in {"idle", "off"}
          /\ UNCHANGED <<serving, cxn, scenario>> /\ pc = "construct"
      BY <1>1 DEF Construct, LaunchServer
    <2>2. serving = NoClient
      BY <2>1 DEF ApiPart, RequestsAreSafe, ApiTypeOK
    <2>3. \A c \in Clients : IsConnection(c, cxn[c])'
      BY <2>1 DEF ApiPart, RequestsInv, IsConnection
    <2> QED
      BY <2>1, <2>2, <2>3 DEF ApiPart, ApiTypeOK, RequestsInv, RequestsAreSafe, HasSwitchersLocked, Places
  <1>2. CASE CloseApi
    <2>1. /\ pc' = "closeAlgorithms" /\ api \in {"idle", "off"} /\ api' = "off"
          /\ UNCHANGED <<serving, scenario>>
          /\ cxn' = [c \in Clients |->
                       [cxn[c] EXCEPT !.link = "closed", !.reading = FALSE, !.writes = 0, !.rests = 0]]
      BY <1>2 DEF CloseApi, StopServer
    <2>2. ASSUME NEW c \in Clients
          PROVE  cxn'[c] \in Connections /\ IsConnection(c, cxn[c])'
      <3>1. cxn[c] \in Connections /\ IsConnection(c, cxn[c])
        BY DEF ApiPart, RequestsInv
      <3>2. /\ cxn'[c] \in Connections /\ cxn'[c].link = "closed"
            /\ cxn'[c].taken = cxn[c].taken /\ cxn'[c].asked = cxn[c].asked
            /\ cxn'[c].rests = 0 /\ cxn'[c].writes = 0
        BY <2>1, <3>1 DEF Connections
      <3>3. cxn'[c].rests <= cxn'[c].writes
        BY <3>2
      <3>4. IsConnection(c, cxn'[c])
        BY <3>1, <3>2, <3>3 DEF IsConnection
      <3> QED
        BY <2>1, <3>2, <3>4 DEF IsConnection
    <2>3. DOMAIN cxn' = Clients /\ cxn' \in [Clients -> Connections]
      BY <2>1, <2>2
    <2>4. \A c \in Clients :
             /\ cxn'[c].link \in {"none", "calling", "open", "closing", "closed"}
             /\ cxn'[c].taken <= cxn'[c].asked
      BY <2>2 DEF IsConnection, Connections
    <2>5. serving = NoClient
      BY <2>1 DEF ApiPart, ApiTypeOK
    <2> QED
      BY <2>1, <2>2, <2>3, <2>4, <2>5 DEF ApiPart, ApiTypeOK, RequestsInv, RequestsAreSafe, Places
  <1>3. CASE LockPoolSwitchers
    <2>1. pc' = "next" /\ pc = "launch" /\ api # "pools" /\ UNCHANGED <<apiVars, scenario>>
      BY <1>3 DEF LockPoolSwitchers, OthersStay
    <2> QED
      BY <2>1, OthersKeepRequests DEF ApiPart, RequestsAreSafe, HasSwitchersLocked, Places, apiVars
  <1>4. CASE SkipUnknown \/ AddPools \/ AssignDevices \/ MakeAlgo \/ MakeAlgoThrows \/ Launched
    <2>1. /\ pc \in {"next", "assign", "make"} /\ UNCHANGED <<apiVars, scenario>>
          /\ pc' \in {"next", "assign", "make", "closeApi", "enterWait"}
      <3>1. CASE SkipUnknown
        BY <3>1 DEF SkipUnknown, Skip, OthersStay
      <3>2. CASE AddPools
        BY <3>2 DEF AddPools, Skip, apiVars
      <3>3. CASE AssignDevices
        BY <3>3 DEF AssignDevices, Skip, OthersStay
      <3>4. CASE MakeAlgo
        BY <3>4 DEF MakeAlgo, Skip, OthersStay
      <3>5. CASE MakeAlgoThrows
        BY <3>5 DEF MakeAlgoThrows, OthersStay
      <3>6. CASE Launched
        BY <3>6 DEF Launched, OthersStay
      <3> QED
        BY <1>4, <3>1, <3>2, <3>3, <3>4, <3>5, <3>6
    <2> QED
      BY <2>1, OthersKeepRequests DEF ApiPart, RequestsAreSafe, HasSwitchersLocked, Places, apiVars
  <1>5. CASE RejectArguments \/ Return
    <2>1. UNCHANGED <<apiVars, scenario, pc>>
      BY <1>5 DEF RejectArguments, Return, appVars
    <2> QED
      BY <2>1, OthersKeepRequests DEF ApiPart, RequestsAreSafe, HasSwitchersLocked, apiVars
  <1>6. CASE \/ RegisterHandlers \/ LoadConfig \/ CloseSwitchers \/ CloseAlgorithm
             \/ EnterConfirm \/ Confirm \/ Notify \/ Reset
    <2>1. /\ pc \in {"start", "load", "closeAlgorithms", "confirm", "confirming", "notify", "reset"}
          /\ UNCHANGED <<apiVars, scenario>> /\ pc' \in Places /\ ~HasSwitchersLocked'
      <3>1. CASE RegisterHandlers
        BY <3>1 DEF RegisterHandlers, OthersStay, HasSwitchersLocked, Places
      <3>2. CASE LoadConfig
        <4>1. pc = "load" /\ pc' \in {"confirm", "construct"} /\ UNCHANGED <<apiVars, scenario>>
          BY <3>2 DEF LoadConfig, OthersStay
        <4> QED
          BY <4>1 DEF HasSwitchersLocked, Places
      <3>3. CASE CloseSwitchers
        BY <3>3 DEF CloseSwitchers, OthersStay, HasSwitchersLocked, Places
      <3>4. CASE CloseAlgorithm
        BY <3>4 DEF CloseAlgorithm, OthersStay, HasSwitchersLocked, Places
      <3>5. CASE EnterConfirm
        BY <3>5 DEF EnterConfirm, HasSwitchersLocked, Places
      <3>6. CASE Confirm
        BY <3>6 DEF Confirm, HasSwitchersLocked, Places
      <3>7. CASE Notify
        BY <3>7 DEF Notify, HasSwitchersLocked, Places
      <3>8. CASE Reset
        BY <3>8 DEF Reset, OthersStay, HasSwitchersLocked, Places
      <3> QED
        BY <1>6, <3>1, <3>2, <3>3, <3>4, <3>5, <3>6, <3>7, <3>8
    <2>2. api = "off" /\ api' = "off"
      BY <2>1 DEF ApiPart, RequestsAreSafe, apiVars
    <2> QED
      BY <2>1, <2>2, OthersKeepRequests DEF RequestsAreSafe
  <1>7. CASE WaitOrGoOn \/ EnterOrReenterWait
    <2>1. /\ pc \in {"test", "enterWait", "woken"} /\ UNCHANGED <<apiVars, scenario>>
          /\ pc' \in {"test", "closeApi", "asleep"}
      BY <1>7 DEF WaitOrGoOn, EnterOrReenterWait
    <2> QED
      BY <2>1, OthersKeepRequests DEF ApiPart, RequestsAreSafe, HasSwitchersLocked, Places, apiVars
  <1> QED
    BY <1>1, <1>2, <1>3, <1>4, <1>5, <1>6, <1>7 DEF Launch, MainStep

LEMMA SignalsKeepRequests ==
    ASSUME ApiPart,
           (\E t \in Threads : Signal(t) \/ HandlerEnds(t)) \/ (\E n \in Signals : TaskStep(n))
    PROVE  ApiPart'
  <1>1. UNCHANGED <<apiVars, scenario>> /\ (pc' = pc \/ (pc = "asleep" /\ pc' = "woken"))
    <2>1. ASSUME NEW t \in Threads, Signal(t) \/ HandlerEnds(t)
          PROVE  UNCHANGED <<apiVars, scenario, pc>>
      BY <2>1 DEF Signal, HandlerEnds, OthersGoOn, appVars
    <2>2. ASSUME NEW n \in Signals, TaskTimesOut(n) \/ TaskFinishes(n)
          PROVE  UNCHANGED <<apiVars, scenario, pc>>
      BY <2>2 DEF TaskTimesOut, TaskFinishes, OthersGoOn, appVars
    <2>3. ASSUME NEW n \in Signals, TaskRequestsShutdown(n)
          PROVE  UNCHANGED <<apiVars, scenario>> /\ (pc' = pc \/ (pc = "asleep" /\ pc' = "woken"))
      BY <2>3 DEF TaskRequestsShutdown
    <2> QED
      BY <2>1, <2>2, <2>3 DEF TaskStep
  <1> QED
    BY <1>1, OthersKeepRequests DEF ApiPart, RequestsAreSafe, HasSwitchersLocked, Places, apiVars

-----------------------------------------------------------------------------
(* The configuration.                                                      *)

LEMMA DefaultIsOptional ==
    ASSUME NEW field \in Seq(Nat), NEW n \in Nat
    PROVE  DefaultTo(field, n) \in Seq(Nat)
  <1>1. <<n>> \in Seq(Nat)
    OBVIOUS
  <1> QED
    BY <1>1 DEF DefaultTo

LEMMA DefaultSettings ==
    ASSUME NEW s \in AlgoSettings
    PROVE  AlgoSettingsWithDefaults(s) \in AlgoSettings
  <1>1. DefaultIntensity \in Nat
    BY SMT DEF DefaultIntensity
  <1> DEFINE a == DefaultTo(s.numThreads, 1)
             b == DefaultTo(s.workSize, 128)
             c == DefaultTo(s.rawIntensity, DefaultIntensity)
  <1>2. a \in Seq(Nat) /\ b \in Seq(Nat) /\ c \in Seq(Nat)
    <2>1. s.numThreads \in Seq(Nat) /\ s.workSize \in Seq(Nat) /\ s.rawIntensity \in Seq(Nat)
      BY DEF AlgoSettings
    <2> QED
      BY <1>1, <2>1, DefaultIsOptional
  <1>3. AlgoSettingsWithDefaults(s) = [s EXCEPT !.numThreads = a, !.workSize = b, !.rawIntensity = c]
    BY DEF AlgoSettingsWithDefaults
  <1> HIDE DEF a, b, c
  <1> QED
    BY <1>2, <1>3 DEF AlgoSettings

LEMMA DefaultsKeepText ==
    ASSUME NEW text, IsText(text)
    PROVE  IsText(fillInDefaultValuesIfNeeded(text))
  <1> DEFINE Filled(dp) == [dp EXCEPT !.settings =
                 [n \in DOMAIN dp.settings |-> AlgoSettingsWithDefaults(dp.settings[n])]]
             port == DefaultTo(text.apiPort, 4028)
             profiles == [i \in DOMAIN text.deviceProfiles |-> Filled(text.deviceProfiles[i])]
             c == fillInDefaultValuesIfNeeded(text)
  <1>1. c = [text EXCEPT !.apiPort = port, !.deviceProfiles = profiles]
    BY DEF fillInDefaultValuesIfNeeded
  <1>2. port \in Seq(Nat)
    BY DefaultIsOptional DEF IsText
  <1>3. text.deviceProfiles \in Seq(Range(text.deviceProfiles))
    BY DEF IsText
  <1>4. profiles \in Seq(Range(profiles))
    <2>1. DOMAIN text.deviceProfiles = 1 .. Len(text.deviceProfiles) /\ Len(text.deviceProfiles) \in Nat
      BY <1>3
    <2>2. DOMAIN profiles = 1 .. Len(text.deviceProfiles)
      BY <2>1
    <2>3. profiles = [i \in 1 .. Len(text.deviceProfiles) |-> profiles[i]]
      BY <2>1
    <2>4. \A i \in 1 .. Len(text.deviceProfiles) : profiles[i] \in Range(profiles)
      BY <2>2 DEF Range
    <2> HIDE DEF profiles
    <2> QED
      BY <2>1, <2>3, <2>4
  <1>5. ASSUME NEW p \in Range(profiles)
        PROVE  IsDeviceProfile(p)
    <2>1. PICK i \in DOMAIN text.deviceProfiles : p = Filled(text.deviceProfiles[i])
      BY <1>5 DEF Range
    <2> DEFINE q == text.deviceProfiles[i]
               s == [n \in DOMAIN q.settings |-> AlgoSettingsWithDefaults(q.settings[n])]
    <2>2. IsDeviceProfile(q)
      BY <2>1 DEF IsText, Range
    <2>3. p = [q EXCEPT !.settings = s]
      BY <2>1
    <2> HIDE DEF q
    <2>4. \A n \in DOMAIN q.settings : AlgoSettingsWithDefaults(q.settings[n]) \in AlgoSettings
      BY <2>2, DefaultSettings DEF IsDeviceProfile
    <2>5. s \in [DOMAIN q.settings -> AlgoSettings]
      BY <2>4
    <2>6. DOMAIN s = DOMAIN q.settings
      OBVIOUS
    <2> HIDE DEF s
    <2>7. p.settings = s /\ p = [name |-> q.name, settings |-> s] /\ q.name \in STRING
      BY <2>2, <2>3 DEF IsDeviceProfile
    <2> QED
      BY <2>2, <2>5, <2>6, <2>7 DEF IsDeviceProfile
  <1> HIDE DEF port, profiles, c
  <1>6. c.deviceProfiles = profiles
    BY <1>1 DEF IsText
  <1>7. c \in [wellFormed : BOOLEAN, apiPort : Seq(Nat), startProfileName : Seq(STRING),
               profiles : Seq([name : STRING, tasks : Seq(TaskFields)]),
               deviceProfiles : Seq(Range(profiles)),
               pools : Seq([powType : STRING, protocol : STRING])]
    BY <1>1, <1>2, <1>4 DEF IsText
  <1>8. IsText(c)
    BY <1>5, <1>6, <1>7 DEF IsText
  <1> QED
    BY <1>8 DEF c

LEMMA FilesAreTexts ==
    ASSUME scenario \in Scenarios, NEW path \in DOMAIN FilesToRead
    PROVE  IsText(FilesToRead[path])
  <1>1. \A p \in DOMAIN scenario.files : IsText(scenario.files[p])
    BY ApplicationAssumption
  <1>2. IsText(TutorialConfig)
    BY ApplicationAssumption
  <1>3. CASE FilesToRead = scenario.files
    BY <1>1, <1>3
  <1>4. CASE FilesToRead = [p \in DOMAIN scenario.files \cup {TutorialPath} |->
                 IF p \in DOMAIN scenario.files THEN scenario.files[p] ELSE TutorialConfig]
    BY <1>1, <1>2, <1>4
  <1> QED
    BY <1>3, <1>4 DEF FilesToRead, FilesWithTutorial

LEMMA LoadedIsConfig ==
    ASSUME scenario \in Scenarios, LoadedConfig # None
    PROVE  IsConfig(LoadedConfig)
  <1>1. PICK path : LoadedConfig = loadConfig(FilesToRead, path)
    BY DEF LoadedConfig
  <1>2. path \in DOMAIN FilesToRead /\ LoadedConfig = parseConfig(FilesToRead[path])
    BY <1>1 DEF loadConfig
  <1>3. LoadedConfig = fillInDefaultValuesIfNeeded(FilesToRead[path]) /\ validateConfig(LoadedConfig)
    BY <1>2 DEF parseConfig
  <1> QED
    BY <1>2, <1>3, FilesAreTexts, DefaultsKeepText DEF IsConfig

-----------------------------------------------------------------------------
(* The launch.                                                             *)

LaunchPart ==
    /\ scenario \in Scenarios /\ pc \in Places /\ DOMAIN devicesInUse = Devices
    /\ DevicesAreExclusive /\ AlgorithmsHavePools /\ LaunchInv
    /\ \A d \in Devices : devicesInUse[d] # None => AlgoSettingsAreValid(devicesInUse[d].settings)

launchVars == <<scenario, config, todo, poolSwitchers, devicesInUse, algorithms>>

LEMMA AlgorithmsOnDevices ==
    ASSUME LaunchInv
    PROVE  \A i \in DOMAIN algorithms : algorithms[i].devices \subseteq Devices
  <1>1. \A i \in DOMAIN algorithms :
           algorithms[i] \in [implName : ImplNames, powType : PowTypes, devices : SUBSET Devices]
    <2> DEFINE S == [implName : ImplNames, powType : PowTypes, devices : SUBSET Devices]
    <2>1. algorithms \in Seq(S)
      BY DEF LaunchInv
    <2> HIDE DEF S
    <2>2. \A i \in DOMAIN algorithms : algorithms[i] \in S
      BY <2>1
    <2> QED
      BY <2>2 DEF S
  <1> QED
    BY <1>1

LEMMA OthersKeepLaunch ==
    ASSUME LaunchPart, UNCHANGED launchVars, pc' \in Places,
           \/ pc' = pc
           \/ /\ pc \notin {"assign", "make"} /\ pc' \notin {"assign", "make"}
              /\ BeforeLaunch' => BeforeLaunch
              /\ config = None =>
                    pc' \in {"start", "load", "confirm", "confirming", "notify", "reset", "join"}
    PROVE  LaunchPart'
  <1>1. UNCHANGED <<scenario, config, todo, poolSwitchers, devicesInUse, algorithms>>
    BY DEF launchVars
  <1>2. UNCHANGED Current
    BY <1>1 DEF Current
  <1>3. DevicesAreExclusive' /\ AlgorithmsHavePools'
    BY <1>1 DEF LaunchPart, DevicesAreExclusive, AlgorithmsHavePools
  <1>4. LaunchInv'
    BY <1>1, <1>2 DEF LaunchPart, LaunchInv, BeforeLaunch
  <1> QED
    BY <1>1, <1>3, <1>4 DEF LaunchPart

LEMMA LoadKeepsLaunch ==
    ASSUME LaunchPart, LoadConfig
    PROVE  LaunchPart'
  <1>1. /\ pc = "load" /\ config' = LoadedConfig
        /\ pc' = IF config' = None THEN "confirm" ELSE "construct"
        /\ UNCHANGED <<scenario, todo, poolSwitchers, devicesInUse, algorithms>>
    BY DEF LoadConfig, MainAt, memberVars
  <1>2. config' # None => IsConfig(config')
    BY <1>1, LoadedIsConfig DEF LaunchPart
  <1>3. DevicesAreExclusive' /\ AlgorithmsHavePools'
    BY <1>1 DEF LaunchPart, DevicesAreExclusive, AlgorithmsHavePools
  <1>4. LaunchInv'
    BY <1>1, <1>2 DEF LaunchPart, LaunchInv, BeforeLaunch
  <1> QED
    BY <1>1, <1>3, <1>4 DEF LaunchPart, Places

(* A name that is taken from todo, without an algorithm or with one.       *)
LEMMA SkipKeepsLaunch ==
    ASSUME LaunchPart, pc \in {"next", "assign"}, Skip,
           UNCHANGED <<poolSwitchers, devicesInUse, algorithms>>
    PROVE  LaunchPart'
  <1>1. /\ pc' = "next" /\ todo' \subseteq todo /\ config # None
        /\ UNCHANGED <<scenario, config, poolSwitchers, devicesInUse, algorithms>>
    BY DEF Skip, MainGoes, LaunchPart, LaunchInv
  <1>2. DevicesAreExclusive' /\ AlgorithmsHavePools'
    BY <1>1 DEF LaunchPart, DevicesAreExclusive, AlgorithmsHavePools
  <1>3. LaunchInv'
    BY <1>1 DEF LaunchPart, LaunchInv, BeforeLaunch
  <1> QED
    BY <1>1, <1>2, <1>3 DEF LaunchPart, Places

LEMMA PoolsAreCounted ==
    ASSUME IsConfig(config), NEW powType
    PROVE  Cardinality(PoolsToAdd(config, powType)) \in Nat
  <1>1. config.pools \in Seq([powType : STRING, protocol : STRING])
    BY DEF IsConfig, IsText
  <1>2. IsFiniteSet(1 .. Len(config.pools)) /\ DOMAIN config.pools = 1 .. Len(config.pools)
    BY <1>1, FS_Interval
  <1>3. PoolsToAdd(config, powType) \subseteq 1 .. Len(config.pools)
    BY <1>2 DEF PoolsToAdd, getConfigPoolsForPowType
  <1>4. IsFiniteSet(PoolsToAdd(config, powType))
    BY <1>2, <1>3, FS_Subset
  <1> QED
    BY <1>4, FS_CardinalityType

LEMMA AddKeepsLaunch ==
    ASSUME LaunchPart, AddPools
    PROVE  LaunchPart'
  <1> DEFINE powType == powTypeOfAlgoImpl(Current)
             before == IF powType \in DOMAIN poolSwitchers THEN poolSwitchers[powType] ELSE 0
             after == before + Cardinality(PoolsToAdd(config, powType))
  <1>1. /\ pc = "next" /\ todo # {} /\ powType # Empty
        /\ poolSwitchers' = [p \in DOMAIN poolSwitchers \cup {powType} |->
               IF p = powType THEN after ELSE poolSwitchers[p]]
        /\ IF after = 0 THEN Skip ELSE MainGoes("assign") /\ UNCHANGED todo
        /\ UNCHANGED <<devicesInUse, algorithms>>
    BY DEF AddPools, MainAt
  <1>2. config # None /\ IsConfig(config) /\ Current \in todo /\ powType \in PowTypes
    BY <1>1, FirstIsOne, PowTypeIsKnown DEF LaunchPart, LaunchInv, Current
  <1>3. before \in Nat /\ after \in Nat /\ after >= before
    BY <1>2, PoolsAreCounted DEF LaunchPart, LaunchInv
  <1>4. /\ poolSwitchers' \in [DOMAIN poolSwitchers' -> Nat] /\ DOMAIN poolSwitchers' \subseteq PowTypes
        /\ powType \in DOMAIN poolSwitchers' /\ poolSwitchers'[powType] = after
        /\ \A p \in DOMAIN poolSwitchers :
               p \in DOMAIN poolSwitchers' /\ poolSwitchers'[p] >= poolSwitchers[p]
    <2> HIDE DEF powType, after
    <2>1. DOMAIN poolSwitchers' = DOMAIN poolSwitchers \cup {powType}
      BY <1>1
    <2>2. \A p \in DOMAIN poolSwitchers' : poolSwitchers'[p] \in Nat
      BY <1>1, <1>3, <2>1 DEF LaunchPart, LaunchInv
    <2>3. poolSwitchers' \in [DOMAIN poolSwitchers' -> Nat]
      BY <1>1, <2>1, <2>2
    <2>4. ASSUME NEW p \in DOMAIN poolSwitchers
          PROVE  poolSwitchers'[p] >= poolSwitchers[p]
      <3>1. poolSwitchers[p] \in Nat
        BY DEF LaunchPart, LaunchInv
      <3>2. poolSwitchers'[p] = IF p = powType THEN after ELSE poolSwitchers[p]
        BY <1>1
      <3>3. p = powType => before = poolSwitchers[p]
        OBVIOUS
      <3> HIDE DEF before
      <3> QED
        BY <1>3, <3>1, <3>2, <3>3
    <2> QED
      BY <1>1, <1>2, <2>1, <2>3, <2>4 DEF LaunchPart, LaunchInv
  <1>5. /\ pc' \in {"next", "assign"} /\ todo' \subseteq todo /\ UNCHANGED <<scenario, config>>
        /\ pc' = "assign" => after > 0 /\ UNCHANGED todo
    <2> HIDE DEF after
    <2>1. CASE after = 0
      BY <1>1, <2>1 DEF Skip, MainGoes
    <2>2. CASE after # 0
      <3>1. MainGoes("assign") /\ UNCHANGED todo
        BY <1>1, <2>2
      <3>2. after > 0
        BY <1>3, <2>2
      <3> QED
        BY <3>1, <3>2 DEF MainGoes
    <2> QED
      BY <2>1, <2>2
  <1>6. pc' = "assign" => Current' = Current
    BY <1>5 DEF Current
  <1> HIDE DEF before, after
  <1>10. UNCHANGED <<devicesInUse, algorithms>>
    BY <1>1
  <1>7. DevicesAreExclusive'
    BY <1>10 DEF LaunchPart, DevicesAreExclusive
  <1>8. AlgorithmsHavePools'
    <2>1. ASSUME NEW i \in DOMAIN algorithms
          PROVE  /\ algorithms[i].powType \in DOMAIN poolSwitchers'
                 /\ poolSwitchers'[algorithms[i].powType] > 0
      <3>1. /\ algorithms[i].powType \in DOMAIN poolSwitchers
            /\ poolSwitchers[algorithms[i].powType] > 0
        BY DEF LaunchPart, AlgorithmsHavePools
      <3> DEFINE a == poolSwitchers[algorithms[i].powType]
                 b == poolSwitchers'[algorithms[i].powType]
      <3>2. b >= a /\ a \in Nat /\ b \in Nat /\ algorithms[i].powType \in DOMAIN poolSwitchers'
        BY <1>4, <3>1 DEF LaunchPart, LaunchInv
      <3>3. a > 0
        BY <3>1
      <3> HIDE DEF a, b
      <3>4. b > 0
        BY <3>2, <3>3
      <3> QED
        BY <3>2, <3>4 DEF b
    <2> QED
      BY <1>10, <2>1 DEF AlgorithmsHavePools
  <1>9. LaunchInv'
    BY <1>1, <1>2, <1>4, <1>5, <1>6 DEF LaunchPart, LaunchInv, BeforeLaunch
  <1> QED
    BY <1>1, <1>5, <1>7, <1>8, <1>9 DEF LaunchPart, Places

(* Devices that are not in use are not those of an algorithm.              *)
LEMMA AssignKeepsLaunch ==
    ASSUME LaunchPart, AssignDevices
    PROVE  LaunchPart'
  <1>1. /\ pc = "assign"
        /\ devicesInUse' = [d \in Devices |->
              IF d \in Assigned THEN DeviceWith(config, Current, getTaskForDevice(profile, d))
              ELSE devicesInUse[d]]
        /\ IF Assigned = {} THEN Skip ELSE MainGoes("make") /\ UNCHANGED todo
        /\ UNCHANGED <<poolSwitchers, algorithms>>
    BY DEF AssignDevices, MainAt
  <1>2. CASE Assigned = {}
    <2>1. DOMAIN devicesInUse' = Devices /\ \A d \in Devices : devicesInUse'[d] = devicesInUse[d]
      BY <1>1, <1>2
    <2>2. pc' = "next" /\ todo' \subseteq todo /\ UNCHANGED <<scenario, config>> /\ config # None
      BY <1>1, <1>2 DEF Skip, MainGoes, LaunchPart, LaunchInv
    <2>3. DevicesAreExclusive'
      BY <1>1, <2>1, AlgorithmsOnDevices DEF LaunchPart, DevicesAreExclusive
    <2>4. AlgorithmsHavePools'
      BY <1>1 DEF LaunchPart, AlgorithmsHavePools
    <2>5. LaunchInv'
      BY <1>1, <2>1, <2>2 DEF LaunchPart, LaunchInv, BeforeLaunch
    <2> QED
      BY <1>1, <2>1, <2>2, <2>3, <2>4, <2>5 DEF LaunchPart, Places
  <1>3. CASE Assigned # {}
    <2>1. pc' = "make" /\ UNCHANGED <<todo, scenario, config>> /\ UNCHANGED Current
      BY <1>1, <1>3 DEF MainGoes, Current
    <2>2. config # None /\ IsConfig(config) /\ Current \in todo
      BY <1>1 DEF LaunchPart, LaunchInv
    <2>3. \A d \in Assigned :
             /\ d \in Devices /\ devicesInUse[d] = None
             /\ HasSettings(config, getTaskForDevice(profile, d), Current)
      BY DEF Assigned, prepareAssignedDevices
    <2>4. ASSUME NEW d \in Devices, devicesInUse'[d] # None
          PROVE  /\ AlgoSettingsAreValid(devicesInUse'[d].settings)
                 /\ d \in Assigned => devicesInUse'[d].implName = Current
                 /\ d \notin Assigned => devicesInUse'[d] = devicesInUse[d]
      <3>1. CASE d \in Assigned
        <4>1. devicesInUse'[d] = DeviceWith(config, Current, getTaskForDevice(profile, d))
          BY <1>1, <3>1
        <4> QED
          BY <2>2, <2>3, <3>1, <4>1, SettingsAreChecked, DeviceIsInUse
      <3>2. CASE d \notin Assigned
        BY <1>1, <2>4, <3>2 DEF LaunchPart
      <3> QED
        BY <3>1, <3>2
    <2>5. \A d \in Devices : devicesInUse[d] # None => devicesInUse'[d] = devicesInUse[d]
      BY <1>1, <2>3
    <2>6. DevicesAreExclusive'
      BY <1>1, <2>5, AlgorithmsOnDevices DEF LaunchPart, DevicesAreExclusive
    <2>7. AlgorithmsHavePools'
      BY <1>1 DEF LaunchPart, AlgorithmsHavePools
    <2>8. \A d \in Devices : devicesInUse'[d] # None => devicesInUse'[d].implName \notin todo \ {Current}
      BY <1>1, <2>4 DEF LaunchPart, LaunchInv
    <2>9. LaunchInv'
      BY <1>1, <2>1, <2>2, <2>8 DEF LaunchPart, LaunchInv, BeforeLaunch
    <2> QED
      BY <1>1, <2>1, <2>4, <2>6, <2>7, <2>9 DEF LaunchPart, Places
  <1> QED
    BY <1>2, <1>3

LEMMA MakeKeepsLaunch ==
    ASSUME LaunchPart, MakeAlgo
    PROVE  LaunchPart'
  <1> DEFINE new == [implName |-> Current, powType |-> powTypeOfAlgoImpl(Current), devices |-> GivenDevices]
             S == [implName : ImplNames, powType : PowTypes, devices : SUBSET Devices]
             n == Len(algorithms)
  <1>1. /\ pc = "make" /\ pc' = "next" /\ todo' = todo \ {Current}
        /\ algorithms' = Append(algorithms, new)
        /\ UNCHANGED <<scenario, config, poolSwitchers, devicesInUse>>
    BY DEF MakeAlgo, MainAt, Skip, MainGoes
  <1>2. /\ Current \in todo /\ Current \in ImplNames /\ config # None
        /\ powTypeOfAlgoImpl(Current) \in DOMAIN poolSwitchers
        /\ powTypeOfAlgoImpl(Current) \in PowTypes
        /\ poolSwitchers[powTypeOfAlgoImpl(Current)] > 0
    BY <1>1 DEF LaunchPart, LaunchInv
  <1>3. GivenDevices \subseteq Devices
    BY DEF GivenDevices
  <1>4. new \in S
    BY <1>2, <1>3
  <1>5. new.implName = Current /\ new.powType = powTypeOfAlgoImpl(Current) /\ new.devices = GivenDevices
    OBVIOUS
  <1>6. algorithms \in Seq(S)
    BY DEF LaunchPart, LaunchInv
  <1> HIDE DEF new, S
  <1>7. /\ algorithms' \in Seq(S) /\ n \in Nat /\ DOMAIN algorithms = 1 .. n
        /\ DOMAIN algorithms' = 1 .. n + 1 /\ algorithms'[n + 1] = new
        /\ \A i \in 1 .. n : algorithms'[i] = algorithms[i]
    BY <1>1, <1>4, <1>6
  <1>8. \A i \in 1 .. n + 1 : i \in 1 .. n \/ i = n + 1
    BY <1>7
  <1>9. \A d \in GivenDevices : devicesInUse[d] # None /\ devicesInUse[d].implName = Current
    BY DEF GivenDevices
  <1>10. \A i \in 1 .. n : algorithms[i].implName # Current
    BY <1>2, <1>7 DEF LaunchPart, LaunchInv
  <1>11. \A i \in 1 .. n : \A d \in algorithms[i].devices : d \notin GivenDevices
    BY <1>7, <1>9, <1>10 DEF LaunchPart, DevicesAreExclusive
  <1> HIDE DEF n
  <1>12. DevicesAreExclusive'
    <2>1. ASSUME NEW i \in 1 .. n + 1, NEW d \in algorithms'[i].devices
          PROVE  /\ devicesInUse'[d] # None /\ devicesInUse'[d].implName = algorithms'[i].implName
                 /\ \A j \in (1 .. n + 1) \ {i} : d \notin algorithms'[j].devices
      <3>1. CASE i = n + 1
        BY <1>1, <1>5, <1>7, <1>8, <1>9, <1>11, <2>1, <3>1
      <3>2. CASE i \in 1 .. n
        <4>1. /\ d \in algorithms[i].devices /\ devicesInUse[d] # None
              /\ devicesInUse[d].implName = algorithms[i].implName
              /\ \A j \in (1 .. n) \ {i} : d \notin algorithms[j].devices
          BY <1>7, <2>1, <3>2 DEF LaunchPart, DevicesAreExclusive
        <4> QED
          BY <1>1, <1>5, <1>7, <1>8, <1>11, <3>2, <4>1
      <3> QED
        BY <1>8, <3>1, <3>2
    <2> QED
      BY <1>7, <2>1 DEF DevicesAreExclusive
  <1>13. AlgorithmsHavePools'
    <2>1. ASSUME NEW i \in 1 .. n + 1
          PROVE  /\ algorithms'[i].powType \in DOMAIN poolSwitchers
                 /\ poolSwitchers[algorithms'[i].powType] > 0
      BY <1>2, <1>5, <1>7, <1>8 DEF LaunchPart, AlgorithmsHavePools
    <2> QED
      BY <1>1, <1>7, <2>1 DEF AlgorithmsHavePools
  <1>14. \A i \in DOMAIN algorithms' : algorithms'[i].implName \notin todo'
    BY <1>1, <1>5, <1>7, <1>8 DEF LaunchPart, LaunchInv
  <1>15. \A d \in Devices : devicesInUse'[d] # None => devicesInUse'[d].implName \notin todo'
    BY <1>1 DEF LaunchPart, LaunchInv
  <1>16. LaunchInv'
    BY <1>1, <1>2, <1>7, <1>14, <1>15 DEF LaunchPart, LaunchInv, BeforeLaunch, S
  <1> QED
    BY <1>1, <1>12, <1>13, <1>16 DEF LaunchPart, Places

LEMMA CloseKeepsLaunch ==
    ASSUME LaunchPart, CloseAlgorithm
    PROVE  LaunchPart'
  <1> DEFINE S == [implName : ImplNames, powType : PowTypes, devices : SUBSET Devices]
             n == Len(algorithms)
  <1>1. /\ pc = "closeAlgorithms" /\ pc' = "closeAlgorithms" /\ algorithms # <<>>
        /\ algorithms' = Tail(algorithms)
        /\ UNCHANGED <<scenario, config, todo, poolSwitchers, devicesInUse>>
    BY DEF CloseAlgorithm, MainAt, MainGoes
  <1>2. algorithms \in Seq(S)
    BY DEF LaunchPart, LaunchInv
  <1> HIDE DEF S
  <1>3. /\ algorithms' \in Seq(S) /\ n \in Nat \ {0} /\ DOMAIN algorithms = 1 .. n
        /\ DOMAIN algorithms' = 1 .. n - 1
        /\ \A i \in 1 .. n - 1 : algorithms'[i] = algorithms[i + 1]
    BY <1>1, <1>2
  <1> HIDE DEF n
  <1>4. \A i \in 1 .. n - 1 : i + 1 \in 1 .. n /\ \A j \in 1 .. n - 1 : i # j => i + 1 # j + 1
    BY <1>3
  <1>5. DevicesAreExclusive'
    <2>1. ASSUME NEW i \in 1 .. n - 1, NEW d \in algorithms'[i].devices
          PROVE  /\ devicesInUse[d] # None /\ devicesInUse[d].implName = algorithms'[i].implName
                 /\ \A j \in (1 .. n - 1) \ {i} : d \notin algorithms'[j].devices
      <3>1. i + 1 \in DOMAIN algorithms /\ algorithms'[i] = algorithms[i + 1]
        BY <1>3, <1>4
      <3>2. /\ devicesInUse[d] # None /\ devicesInUse[d].implName = algorithms[i + 1].implName
            /\ \A k \in DOMAIN algorithms \ {i + 1} : d \notin algorithms[k].devices
        BY <2>1, <3>1 DEF LaunchPart, DevicesAreExclusive
      <3>3. ASSUME NEW j \in (1 .. n - 1) \ {i}
            PROVE  d \notin algorithms'[j].devices
        <4>1. j + 1 \in DOMAIN algorithms \ {i + 1} /\ algorithms'[j] = algorithms[j + 1]
          BY <1>3, <1>4
        <4> QED
          BY <3>2, <4>1
      <3> QED
        BY <3>1, <3>2, <3>3
    <2>2. DOMAIN algorithms' = 1 .. n - 1 /\ UNCHANGED devicesInUse
      BY <1>1, <1>3
    <2> QED
      BY <2>1, <2>2, Zenon DEF DevicesAreExclusive
  <1>6. AlgorithmsHavePools'
    <2>1. ASSUME NEW i \in 1 .. n - 1
          PROVE  /\ algorithms'[i].powType \in DOMAIN poolSwitchers
                 /\ poolSwitchers[algorithms'[i].powType] > 0
      BY <1>3, <1>4 DEF LaunchPart, AlgorithmsHavePools
    <2> QED
      BY <1>1, <1>3, <2>1 DEF AlgorithmsHavePools
  <1>7. \A i \in DOMAIN algorithms' : algorithms'[i].implName \notin todo'
    BY <1>1, <1>3, <1>4 DEF LaunchPart, LaunchInv
  <1>8. LaunchInv'
    BY <1>1, <1>3, <1>7 DEF LaunchPart, LaunchInv, BeforeLaunch, S
  <1> QED
    BY <1>1, <1>5, <1>6, <1>8 DEF LaunchPart, Places

LEMMA MainKeepsLaunch ==
    ASSUME LaunchPart, Launch \/ MainStep \/ CloseAlgorithm
    PROVE  LaunchPart'
  <1> USE DEF MainAt, MainGoes, memberVars
  <1>0. \A p \in Places : p \in {"start", "load", "confirm", "confirming", "notify", "reset", "join"}
           \/ pc # p \/ config # None
    BY DEF LaunchPart, LaunchInv
  <1>1. CASE LockPoolSwitchers
    <2>1. /\ pc = "launch" /\ pc' = "next" /\ todo' = getUniqueAlgoImplNamesForProfile(profile)
          /\ UNCHANGED <<scenario, config, poolSwitchers, devicesInUse, algorithms>>
      BY <1>1 DEF LockPoolSwitchers
    <2>2. todo' \subseteq ImplNames
      BY <2>1 DEF getUniqueAlgoImplNamesForProfile, ImplNames
    <2>3. DevicesAreExclusive' /\ AlgorithmsHavePools'
      BY <2>1 DEF LaunchPart, DevicesAreExclusive, AlgorithmsHavePools
    <2>4. algorithms = <<>> /\ \A d \in Devices : devicesInUse[d] = None
      BY <2>1 DEF LaunchPart, LaunchInv, BeforeLaunch
    <2>5. LaunchInv'
      BY <2>1, <2>2, <2>4 DEF LaunchPart, LaunchInv, BeforeLaunch
    <2> QED
      BY <2>1, <2>3, <2>5 DEF LaunchPart, Places
  <1>2. CASE SkipUnknown
    <2>1. pc = "next" /\ Skip /\ UNCHANGED <<poolSwitchers, devicesInUse, algorithms>>
      BY <1>2 DEF SkipUnknown
    <2> QED
      BY <2>1, SkipKeepsLaunch
  <1>3. CASE AddPools
    BY <1>3, AddKeepsLaunch
  <1>4. CASE AssignDevices
    BY <1>4, AssignKeepsLaunch
  <1>5. CASE MakeAlgo
    BY <1>5, MakeKeepsLaunch
  <1>6. CASE MakeAlgoThrows
    <2>1. /\ pc = "make" /\ pc' = "closeApi" /\ todo' = {}
          /\ UNCHANGED <<scenario, config, poolSwitchers, devicesInUse, algorithms>>
      BY <1>6 DEF MakeAlgoThrows
    <2>2. DevicesAreExclusive' /\ AlgorithmsHavePools'
      BY <2>1 DEF LaunchPart, DevicesAreExclusive, AlgorithmsHavePools
    <2>3. LaunchInv'
      BY <2>1 DEF LaunchPart, LaunchInv, BeforeLaunch
    <2> QED
      BY <2>1, <2>2, <2>3 DEF LaunchPart, Places
  <1>7. CASE LoadConfig
    BY <1>7, LoadKeepsLaunch
  <1>8. CASE CloseAlgorithm
    BY <1>8, CloseKeepsLaunch
  <1>9. CASE CloseSwitchers
    <2>1. /\ pc = "closeAlgorithms" /\ pc' = "confirm" /\ algorithms = <<>>
          /\ poolSwitchers' = NoSwitchers /\ devicesInUse' = [d \in Devices |-> None]
          /\ UNCHANGED <<scenario, config, todo, algorithms>>
      BY <1>9 DEF CloseSwitchers
    <2>2. DevicesAreExclusive' /\ AlgorithmsHavePools'
      BY <2>1 DEF DevicesAreExclusive, AlgorithmsHavePools
    <2>3. LaunchInv'
      BY <2>1 DEF LaunchPart, LaunchInv, BeforeLaunch, NoSwitchers
    <2> QED
      BY <2>1, <2>2, <2>3 DEF LaunchPart, Places
  <1>10. CASE RejectArguments \/ Return
    <2>1. UNCHANGED launchVars /\ UNCHANGED pc
      BY <1>10 DEF RejectArguments, Return, appVars, launchVars
    <2> QED
      BY <2>1, OthersKeepLaunch DEF LaunchPart
  <1>11. CASE RegisterHandlers
    <2>1. UNCHANGED launchVars /\ pc = "start" /\ pc' = "load"
      BY <1>11 DEF RegisterHandlers, launchVars
    <2> QED
      BY <2>1, OthersKeepLaunch DEF Places, BeforeLaunch
  <1>12. CASE Construct
    <2>1. UNCHANGED launchVars /\ pc = "construct" /\ pc' \in {"enterWait", "launch"}
      BY <1>12 DEF Construct, launchVars
    <2> QED
      BY <1>0, <2>1, OthersKeepLaunch DEF Places, BeforeLaunch
  <1>13. CASE Launched \/ EnterOrReenterWait \/ WaitOrGoOn \/ CloseApi
    <2>1. /\ UNCHANGED launchVars /\ pc \in {"next", "enterWait", "woken", "test", "closeApi"}
          /\ pc' \in {"enterWait", "test", "asleep", "closeApi", "closeAlgorithms"}
      <3>1. CASE Launched
        BY <3>1 DEF Launched, launchVars
      <3>2. CASE EnterOrReenterWait
        BY <3>2 DEF EnterOrReenterWait, launchVars
      <3>3. CASE WaitOrGoOn
        BY <3>3 DEF WaitOrGoOn, launchVars
      <3>4. CASE CloseApi
        BY <3>4 DEF CloseApi, launchVars
      <3> QED
        BY <1>13, <3>1, <3>2, <3>3, <3>4
    <2> QED
      BY <1>0, <2>1, OthersKeepLaunch DEF Places, BeforeLaunch
  <1>14. CASE EnterConfirm \/ Confirm \/ Notify \/ Reset
    <2>1. /\ UNCHANGED launchVars /\ pc \in {"confirm", "confirming", "notify", "reset"}
          /\ pc' \in {"confirming", "notify", "reset", "join"}
      <3>1. CASE EnterConfirm
        BY <3>1 DEF EnterConfirm, launchVars
      <3>2. CASE Confirm
        BY <3>2 DEF Confirm, launchVars
      <3>3. CASE Notify
        BY <3>3 DEF Notify, launchVars
      <3>4. CASE Reset
        BY <3>4 DEF Reset, launchVars
      <3> QED
        BY <1>14, <3>1, <3>2, <3>3, <3>4
    <2> QED
      BY <2>1, OthersKeepLaunch DEF Places, BeforeLaunch
  <1> QED
    BY <1>1, <1>2, <1>3, <1>4, <1>5, <1>6, <1>7, <1>8, <1>9, <1>10, <1>11, <1>12, <1>13, <1>14
       DEF Launch, MainStep

-----------------------------------------------------------------------------
(* The records.                                                            *)

LEMMA Nodes ==
    ASSUME NEW n \in PoolNodes
    PROVE  /\ n[1] \in PowTypes /\ n[2] \in 1 .. MaxPools
           /\ n \in RecordNodes /\ SwitcherNode(n[1]) \in RecordNodes
           /\ n # SwitcherNode(n[1]) /\ NodeOfPool[n] = n
           /\ \A p \in PowTypes : n # SwitcherNode(p) /\ SwitcherNode(p) \notin PoolNodes
  <1>1. n[1] \in PowTypes /\ n[2] \in 1 .. MaxPools
    BY DEF PoolNodes
  <1>2. n \in RecordNodes /\ SwitcherNode(n[1]) \in RecordNodes
    BY ApplicationAssumption, <1>1 DEF PoolNodes, RecordNodes, SwitcherNode
  <1>3. \A p \in PowTypes : n # SwitcherNode(p) /\ SwitcherNode(p) \notin PoolNodes
    BY DEF PoolNodes, SwitcherNode
  <1> QED
    BY <1>1, <1>2, <1>3 DEF NodeOfPool

(* The stages of a report: it is begun, has changed the pool's node, has   *)
(* read its listeners, and has changed the switcher's.                     *)
Calls(m) == [toCall |-> {m}, toRead |-> {}]
Reads(m) == [toCall |-> {}, toRead |-> {m}]

LEMMA StageIs ==
    ASSUME NEW n
    PROVE  Stages(n) = {Stats!Idle, Calls(n), Reads(n), Calls(SwitcherNode(n[1])),
                        Reads(SwitcherNode(n[1]))}
  BY DEF Stages, Calls, Reads

IsStage(r, n, s) == r \in {Stats!Idle, Calls(n), Reads(n), Calls(s), Reads(s)}

LEMMA StageHas ==
    ASSUME NEW n, NEW s, NEW r, IsStage(r, n, s)
    PROVE  /\ \A m \in r.toCall : r = Calls(m) /\ m \in {n, s}
           /\ \A m \in r.toRead : r = Reads(m) /\ m \in {n, s}
  <1>1. CASE r = Stats!Idle
    BY <1>1 DEF Stats!Idle
  <1>2. ASSUME NEW k \in {n, s}, r = Calls(k)
        PROVE  r.toRead = {} /\ r.toCall = {k}
    BY <1>2 DEF Calls
  <1>3. ASSUME NEW k \in {n, s}, r = Reads(k)
        PROVE  r.toCall = {} /\ r.toRead = {k}
    BY <1>3 DEF Reads
  <1>4. CASE \E k \in {n, s} : r = Calls(k)
    BY <1>2, <1>4
  <1>5. CASE \E k \in {n, s} : r = Reads(k)
    BY <1>3, <1>5
  <1> QED
    BY <1>1, <1>4, <1>5 DEF IsStage

LEMMA NextStage ==
    ASSUME NEW m, NEW L
    PROVE  /\ [toCall |-> Calls(m).toCall \ {m}, toRead |-> Calls(m).toRead \cup {m}] = Reads(m)
           /\ [toCall |-> Reads(m).toCall \cup L, toRead |-> Reads(m).toRead \ {m}]
                 = [toCall |-> L, toRead |-> {}]
  <1>1. {m} \ {m} = {} /\ {} \cup {m} = {m} /\ {} \cup L = L
    OBVIOUS
  <1> QED
    BY <1>1 DEF Calls, Reads

LEMMA StagesDiffer ==
    ASSUME NEW n \in PoolNodes, NEW s, s = SwitcherNode(n[1])
    PROVE  /\ Stats!Idle \notin {Reads(n), Calls(s)}
           /\ Calls(n) \notin {Reads(n), Calls(s)}
           /\ Reads(s) \notin {Reads(n), Calls(s)}
  <1>1. n # s
    BY Nodes
  <1> QED
    BY <1>1 DEF Stats!Idle, Calls, Reads

(* What a step of a report does.                                           *)
ReportSteps(n) ==
    LET s == SwitcherNode(n[1])
    IN  \/ /\ report[n] = Stats!Idle /\ report' = [report EXCEPT ![n] = Calls(n)]
           /\ UNCHANGED total
        \/ /\ report[n] = Calls(n) /\ report' = [report EXCEPT ![n] = Reads(n)]
           /\ total' = [total EXCEPT ![n] = @ + 1]
        \/ /\ report[n] = Reads(n) /\ report' = [report EXCEPT ![n] = Calls(s)]
           /\ UNCHANGED total
        \/ /\ report[n] = Calls(s) /\ report' = [report EXCEPT ![n] = Reads(s)]
           /\ total' = [total EXCEPT ![s] = @ + 1]
        \/ /\ report[n] = Reads(s) /\ report' = [report EXCEPT ![n] = Stats!Idle]
           /\ UNCHANGED total
        \/ UNCHANGED <<total, report>>

LEMMA PoolSteps ==
    ASSUME RecordsInv, PoolStep
    PROVE  /\ \E n \in PoolNodes : PoolExists(n) /\ ReportSteps(n)
           /\ UNCHANGED <<poolSwitchers, listeners>>
  <1>0. UNCHANGED <<poolSwitchers, listeners>>
    BY DEF PoolStep, appVars, memberVars, Stats!reportShare, Stats!ChangeContent,
       Stats!ReadListeners, Stats!resetInterval
  <1>1. PICK n \in PoolNodes :
           /\ PoolExists(n)
           /\ \/ Stats!reportShare(n)
              \/ Stats!ChangeContent(n)
              \/ Stats!ReadListeners(n)
              \/ Stats!resetInterval(n)
    BY DEF PoolStep
  <1> DEFINE s == SwitcherNode(n[1])
  <1>2. /\ n # s /\ NodeOfPool[n] = n /\ n[1] \in PowTypes
        /\ listeners[n] = {s} /\ listeners[s] = {}
        /\ report[n] \in {Stats!Idle, Calls(n), Reads(n), Calls(s), Reads(s)}
    BY <1>1, Nodes, StageIs DEF RecordsInv
  <1> HIDE DEF s
  <1>3. CASE Stats!reportShare(n)
    <2>1. report[n] = Stats!Idle /\ report' = [report EXCEPT ![n] = Calls(n)] /\ UNCHANGED total
      BY <1>2, <1>3 DEF Stats!reportShare, Stats!Reporting, Calls
    <2> QED
      BY <1>0, <1>1, <2>1 DEF ReportSteps
  <1>4. CASE Stats!ChangeContent(n)
    <2>1. PICK m \in report[n].toCall :
             /\ total' = [total EXCEPT ![m] = @ + 1]
             /\ report' = [report EXCEPT ![n] =
                              [toCall |-> @.toCall \ {m}, toRead |-> @.toRead \cup {m}]]
      BY <1>4 DEF Stats!ChangeContent
    <2>2. report[n] = Calls(m) /\ m \in {n, s}
      <3>0. IsStage(report[n], n, s)
        BY <1>2 DEF IsStage
      <3>1. \A k \in report[n].toCall : report[n] = Calls(k) /\ k \in {n, s}
        BY <3>0, StageHas
      <3> QED
        BY <2>1, <3>1
    <2>3. report' = [report EXCEPT ![n] = Reads(m)]
      BY <2>1, <2>2, NextStage
    <2> QED
      BY <1>0, <1>1, <2>1, <2>2, <2>3 DEF ReportSteps, s
  <1>5. CASE Stats!ReadListeners(n)
    <2>1. PICK m \in report[n].toRead :
             /\ report' = [report EXCEPT ![n] =
                              [toCall |-> @.toCall \cup listeners[m], toRead |-> @.toRead \ {m}]]
             /\ UNCHANGED total
      BY <1>5 DEF Stats!ReadListeners
    <2>2. report[n] = Reads(m) /\ m \in {n, s}
      <3>0. IsStage(report[n], n, s)
        BY <1>2 DEF IsStage
      <3>1. \A k \in report[n].toRead : report[n] = Reads(k) /\ k \in {n, s}
        BY <3>0, StageHas
      <3> QED
        BY <2>1, <3>1
    <2>5. report' = [report EXCEPT ![n] = [toCall |-> listeners[m], toRead |-> {}]]
      BY <2>1, <2>2, NextStage
    <2>3. CASE m = n
      <3>1. report' = [report EXCEPT ![n] = Calls(s)]
        BY <1>2, <2>3, <2>5 DEF Calls
      <3> QED
        BY <1>0, <1>1, <2>1, <2>2, <2>3, <3>1 DEF ReportSteps, s
    <2>4. CASE m = s
      <3>1. report' = [report EXCEPT ![n] = Stats!Idle]
        BY <1>2, <2>4, <2>5 DEF Stats!Idle
      <3> QED
        BY <1>0, <1>1, <2>1, <2>2, <2>4, <3>1 DEF ReportSteps, s
    <2> QED
      BY <2>2, <2>3, <2>4
  <1>6. CASE Stats!resetInterval(n)
    BY <1>0, <1>1, <1>6 DEF Stats!resetInterval, ReportSteps
  <1> QED
    BY <1>1, <1>3, <1>4, <1>5, <1>6

LEMMA ReportsKeepRecords ==
    ASSUME RecordsInv, PoolStep
    PROVE  RecordsInv'
  <1>1. PICK n \in PoolNodes : PoolExists(n) /\ ReportSteps(n)
    BY PoolSteps
  <1>2. UNCHANGED <<poolSwitchers, listeners>>
    BY PoolSteps
  <1> DEFINE s == SwitcherNode(n[1])
  <1>3. n \in RecordNodes /\ s \in RecordNodes /\ n[1] \in PowTypes /\ n # s /\ s \notin PoolNodes
    BY Nodes
  <1>4. listeners[n] # {} /\ listeners[s] = {} /\ total[n] \in Nat /\ total[s] \in Nat
    BY <1>1, <1>3 DEF RecordsInv
  <1>5. /\ total' \in [RecordNodes -> Nat]
        /\ \A m \in PoolNodes \ {n} : total'[m] = total[m]
    <2> HIDE DEF s
    <2>1. CASE UNCHANGED total
      BY <2>1 DEF RecordsInv
    <2>2. ASSUME NEW m \in {n, s}, total' = [total EXCEPT ![m] = @ + 1]
          PROVE  /\ total' \in [RecordNodes -> Nat]
                 /\ \A k \in PoolNodes \ {n} : total'[k] = total[k]
      <3> DEFINE t == total[m] + 1
      <3>1. t \in Nat /\ total' = [total EXCEPT ![m] = t] /\ m \in RecordNodes
        BY <1>3, <1>4, <2>2
      <3> HIDE DEF t
      <3>2. PoolNodes \subseteq RecordNodes
        BY Nodes
      <3> QED
        BY <1>3, <2>2, <3>1, <3>2 DEF RecordsInv
    <2> QED
      BY <1>1, <2>1, <2>2 DEF ReportSteps, s
  <1>6. /\ DOMAIN report' = PoolNodes /\ report'[n] \in Stages(n)
        /\ \A m \in PoolNodes \ {n} : report'[m] = report[m]
    BY <1>1, StageIs DEF ReportSteps, RecordsInv
  <1>7. \A m \in PoolNodes : PoolExists(m)' => PoolExists(m)
    BY <1>2 DEF PoolExists
  <1>8. \A m \in PoolNodes :
           /\ listeners'[m] \in {{}, {SwitcherNode(m[1])}}
           /\ PoolExists(m)' => listeners'[m] # {}
           /\ listeners'[m] = {} => total'[m] = 0 /\ report'[m] = Stats!Idle
           /\ report'[m] \in Stages(m)
    BY <1>2, <1>4, <1>5, <1>6, <1>7 DEF RecordsInv
  <1> QED
    BY <1>2, <1>5, <1>6, <1>8 DEF RecordsInv

LEMMA AddKeepsRecords ==
    ASSUME RecordsInv, LaunchPart, AddPools
    PROVE  RecordsInv'
  <1> DEFINE powType == powTypeOfAlgoImpl(Current)
             before == IF powType \in DOMAIN poolSwitchers THEN poolSwitchers[powType] ELSE 0
             after == before + Cardinality(PoolsToAdd(config, powType))
  <1>1. /\ pc = "next" /\ todo # {} /\ powType # Empty
        /\ poolSwitchers' = [p \in DOMAIN poolSwitchers \cup {powType} |->
               IF p = powType THEN after ELSE poolSwitchers[p]]
        /\ ConnectRecords(powType, before + 1 .. after)
        /\ UNCHANGED <<total, report>>
    BY DEF AddPools, MainAt
  <1>2. config # None /\ IsConfig(config) /\ Current \in todo /\ powType \in PowTypes
    BY <1>1, FirstIsOne, PowTypeIsKnown DEF LaunchPart, LaunchInv, Current
  <1>3. before \in Nat /\ after \in Nat
    BY <1>2, PoolsAreCounted DEF LaunchPart, LaunchInv
  <1>4. before = IF powType \in DOMAIN poolSwitchers THEN poolSwitchers[powType] ELSE 0
    OBVIOUS
  <1> HIDE DEF powType, before, after
  <1>5. /\ DOMAIN listeners' = RecordNodes
        /\ \A n \in RecordNodes :
              listeners'[n] = IF n[1] = powType /\ n[2] \in before + 1 .. after
                              THEN {SwitcherNode(powType)} ELSE listeners[n]
    BY <1>1 DEF ConnectRecords, RecordsInv
  <1>6. \A p \in PowTypes : listeners'[SwitcherNode(p)] = {}
    <2> TAKE p \in PowTypes
    <2>1. SwitcherNode(p)[2] = 0 /\ SwitcherNode(p) \in RecordNodes
      BY ApplicationAssumption DEF SwitcherNode, RecordNodes
    <2>2. 0 \notin before + 1 .. after
      BY <1>3
    <2> QED
      BY <1>5, <2>1, <2>2 DEF RecordsInv
  <1>7. ASSUME NEW n \in PoolNodes
        PROVE  /\ listeners'[n] \in {{}, {SwitcherNode(n[1])}}
               /\ PoolExists(n)' => listeners'[n] # {}
               /\ listeners'[n] = {} => total[n] = 0 /\ report[n] = Stats!Idle
    <2>1. n \in RecordNodes /\ n[2] \in 1 .. MaxPools
      BY Nodes
    <2>2. CASE n[1] = powType /\ n[2] \in before + 1 .. after
      BY <1>5, <2>1, <2>2
    <2>3. CASE ~(n[1] = powType /\ n[2] \in before + 1 .. after)
      <3>1. listeners'[n] = listeners[n]
        BY <1>5, <2>1, <2>3
      <3>2. ASSUME PoolExists(n)' PROVE PoolExists(n)
        <4>1. n[1] \in DOMAIN poolSwitchers' /\ n[2] <= poolSwitchers'[n[1]]
          BY <3>2 DEF PoolExists
        <4>2. CASE n[1] # powType
          BY <1>1, <4>1, <4>2 DEF PoolExists
        <4>3. CASE n[1] = powType
          <5>1. poolSwitchers'[n[1]] = after
            BY <1>1, <4>1, <4>3
          <5>2. n[2] <= before
            BY <1>3, <2>1, <2>3, <4>1, <4>3, <5>1, ApplicationAssumption
          <5>3. powType \in DOMAIN poolSwitchers
            BY <1>4, <2>1, <5>2
          <5> QED
            BY <1>4, <4>3, <5>2, <5>3 DEF PoolExists
        <4> QED
          BY <4>2, <4>3
      <3> QED
        BY <3>1, <3>2 DEF RecordsInv
    <2> QED
      BY <2>2, <2>3
  <1>8. total' = total /\ report' = report
    BY <1>1
  <1> QED
    BY <1>5, <1>6, <1>7, <1>8 DEF RecordsInv

LEMMA OthersKeepRecords ==
    ASSUME RecordsInv, UNCHANGED statVars,
           poolSwitchers' = poolSwitchers \/ poolSwitchers' = NoSwitchers
    PROVE  RecordsInv'
  <1>1. UNCHANGED <<total, listeners, report>>
    BY DEF statVars
  <1>2. \A n \in PoolNodes : PoolExists(n)' => PoolExists(n)
    BY DEF PoolExists, NoSwitchers
  <1> QED
    BY <1>1, <1>2 DEF RecordsInv

LEMMA OtherStepsKeepStatistics ==
    ASSUME [Next]_vars, ~AddPools, ~PoolStep
    PROVE  UNCHANGED statVars /\ (poolSwitchers' = poolSwitchers \/ poolSwitchers' = NoSwitchers)
  <1>1. CASE Launch
    <2> USE DEF OthersStay, memberVars
    <2>1. CASE Construct
      BY <2>1 DEF Construct
    <2>2. CASE LockPoolSwitchers \/ Launched
      BY <2>2 DEF LockPoolSwitchers, Launched
    <2>3. CASE SkipUnknown
      BY <2>3 DEF SkipUnknown
    <2>4. CASE AssignDevices
      BY <2>4 DEF AssignDevices
    <2>5. CASE MakeAlgo
      BY <2>5 DEF MakeAlgo
    <2>6. CASE MakeAlgoThrows
      BY <2>6 DEF MakeAlgoThrows
    <2> QED
      BY <1>1, <2>1, <2>2, <2>3, <2>4, <2>5, <2>6 DEF Launch
  <1>2. CASE MainStep
    <2> USE DEF OthersStay, memberVars
    <2>1. CASE RejectArguments \/ Return
      BY <2>1 DEF RejectArguments, Return, appVars
    <2>2. CASE RegisterHandlers \/ LoadConfig
      BY <2>2 DEF RegisterHandlers, LoadConfig
    <2>3. CASE EnterOrReenterWait \/ WaitOrGoOn
      BY <2>3 DEF EnterOrReenterWait, WaitOrGoOn
    <2>4. CASE CloseSwitchers
      BY <2>4 DEF CloseSwitchers
    <2>5. CASE EnterConfirm \/ Confirm \/ Notify \/ Reset \/ CloseApi
      BY <2>5 DEF CloseApi, EnterConfirm, Confirm, Notify, Reset
    <2> QED
      BY <1>2, <2>1, <2>2, <2>3, <2>4, <2>5 DEF MainStep
  <1>3. CASE CloseAlgorithm
    BY <1>3 DEF CloseAlgorithm, OthersStay
  <1>4. CASE ApiStep \/ ClientStep \/ AssertionFails
    BY <1>4 DEF ApiStep, ClientStep, AssertionFails, appVars, memberVars
  <1>5. CASE \/ \E t \in Threads : Signal(t) \/ HandlerEnds(t)
             \/ \E n \in Signals : TaskStep(n)
    BY <1>5 DEF Signal, HandlerEnds, TaskStep, TaskRequestsShutdown, TaskTimesOut,
       TaskFinishes, OthersGoOn, appVars, memberVars
  <1>6. CASE UNCHANGED vars
    BY <1>6 DEF vars, appVars, memberVars
  <1> QED
    BY <1>1, <1>2, <1>3, <1>4, <1>5, <1>6 DEF Next

LEMMA NextKeepsRecords ==
    ASSUME RecordsInv, LaunchPart, [Next]_vars
    PROVE  RecordsInv'
  <1>1. CASE AddPools
    BY <1>1, AddKeepsRecords
  <1>2. CASE PoolStep
    BY <1>2, ReportsKeepRecords
  <1>3. CASE [Next]_vars /\ ~AddPools /\ ~PoolStep
    <2>1. UNCHANGED statVars /\ (poolSwitchers' = poolSwitchers \/ poolSwitchers' = NoSwitchers)
      BY <1>3, OtherStepsKeepStatistics
    <2> QED
      BY <2>1, OthersKeepRecords
  <1> QED
    BY <1>1, <1>2, <1>3

-----------------------------------------------------------------------------
(* The invariant.                                                          *)

LEMMA PartsOfInvariant ==
    AppInv <=> ShutdownPart /\ ApiPart /\ LaunchPart /\ RecordsInv
  <1>1. AppInv => ShutdownPart /\ ApiPart /\ LaunchPart /\ RecordsInv
    BY DEF AppInv, TypeOK, SettingsAreUsable, ShutdownPart, ApiPart, LaunchPart
  <1>2. ASSUME ShutdownPart, ApiPart, LaunchPart, RecordsInv
        PROVE  AppInv
    <2>1. api # "off" => config # None
      BY <1>2 DEF ApiPart, RequestsAreSafe, LaunchPart, LaunchInv
    <2>2. api # "off" => Between(config.apiPort, 1, 65535)
      BY <1>2, <2>1 DEF LaunchPart, LaunchInv, IsConfig, validateConfig
    <2> QED
      BY <1>2, <2>2 DEF AppInv, TypeOK, SettingsAreUsable, ShutdownPart, ApiPart, LaunchPart
  <1> QED
    BY <1>1, <1>2

LEMMA PartsOfNext ==
    AppInv' <=> ShutdownPart' /\ ApiPart' /\ LaunchPart' /\ RecordsInv'
  BY PartsOfInvariant, PTL

LEMMA InitAppInv == Init => AppInv
  <1> SUFFICES ASSUME Init PROVE AppInv
    OBVIOUS
  <1>1. ShutdownPart
    <2>1. /\ shutdownRequested = FALSE /\ applicationClosed = FALSE /\ mut = "free"
          /\ tasks = [n \in Signals |-> "none"] /\ shutdownTask = 0
          /\ awaits = [t \in Threads |-> {}] /\ outcome = "running" /\ pc = "start"
      BY DEF Init, ShutdownInit
    <2>2. shutdownTask \in 0 .. MaxSignals
      BY <2>1, ApplicationAssumption
    <2>3. awaits \in [Threads -> SUBSET Signals]
      BY <2>1
    <2>4. /\ tasks \in [Signals -> {"none", "starting", "waiting", "relocking", "done"}]
          /\ \A n \in Signals : tasks[n] # "done"
      BY <2>1
    <2> QED
      BY <2>1, <2>2, <2>3, <2>4 DEF ShutdownPart, ShutdownTypeOK, TasksOutlastApplication, Places, Over
  <1>2. ApiPart
    <2>1. /\ api = "off" /\ serving = NoClient /\ cxn = [c \in Clients |-> NewCxn]
          /\ scenario \in Scenarios /\ pc = "start"
      BY DEF Init, ApiInit
    <2>2. <<>> \in Seq(Answers)
      BY EmptySeq
    <2>3. NewCxn \in Connections
      BY <2>2 DEF NewCxn, Connections
    <2>4. ASSUME NEW c \in Clients
          PROVE  IsConnection(c, cxn[c])
      <3>1. Len(scenario.script[c]) \in Nat
        BY <2>1, ScriptsAreSequences
      <3>2. NewCxn = [NewCxn EXCEPT !.link = NewCxn.link]
        BY DEF NewCxn
      <3>3. NewCxn.taken <= NewCxn.asked /\ NewCxn.asked = 0 /\ NewCxn.rests <= NewCxn.writes
        BY DEF NewCxn
      <3> QED
        BY <2>1, <2>3, <3>1, <3>2, <3>3 DEF IsConnection
    <2>5. ApiTypeOK
      BY <2>1 DEF ApiTypeOK, NewCxn
    <2>6. RequestsInv
      BY <2>1, <2>3, <2>4 DEF RequestsInv
    <2> QED
      BY <2>1, <2>5, <2>6 DEF ApiPart, RequestsAreSafe, Places
  <1>3. LaunchPart
    <2>1. /\ scenario \in Scenarios /\ pc = "start" /\ config = None /\ todo = {}
          /\ poolSwitchers = NoSwitchers /\ algorithms = <<>>
          /\ devicesInUse = [d \in Devices |-> None]
      BY DEF Init
    <2>2. DevicesAreExclusive /\ AlgorithmsHavePools
      BY <2>1 DEF DevicesAreExclusive, AlgorithmsHavePools
    <2>3. algorithms \in Seq([implName : ImplNames, powType : PowTypes, devices : SUBSET Devices])
      BY <2>1, EmptySeq
    <2>4. LaunchInv
      BY <2>1, <2>3 DEF LaunchInv, NoSwitchers, BeforeLaunch
    <2> QED
      BY <2>1, <2>2, <2>4 DEF LaunchPart, Places
  <1>4. RecordsInv
    <2>1. /\ total = [n \in RecordNodes |-> 0] /\ listeners = [n \in RecordNodes |-> {}]
          /\ report = [n \in PoolNodes |-> Stats!Idle] /\ poolSwitchers = NoSwitchers
      BY DEF Init, Stats!StatInit
    <2>2. \A n \in PoolNodes :
             n \in RecordNodes /\ ~PoolExists(n) /\ report[n] \in Stages(n)
      BY <2>1, Nodes, StageIs DEF PoolExists, NoSwitchers
    <2>3. \A p \in PowTypes : SwitcherNode(p) \in RecordNodes
      BY ApplicationAssumption DEF SwitcherNode, RecordNodes
    <2>4. total \in [RecordNodes -> Nat] /\ DOMAIN report = PoolNodes /\ DOMAIN listeners = RecordNodes
      BY <2>1
    <2> QED
      BY <2>1, <2>2, <2>3, <2>4 DEF RecordsInv
  <1> QED
    BY <1>1, <1>2, <1>3, <1>4, PartsOfInvariant

LEMMA NextAppInv ==
    ASSUME AppInv, [Next]_vars
    PROVE  AppInv'
  <1>0. ShutdownPart /\ ApiPart /\ LaunchPart
    BY PartsOfInvariant
  <1>5. RecordsInv'
    BY PartsOfInvariant, NextKeepsRecords
  <1>1. CASE Launch \/ MainStep \/ CloseAlgorithm
    BY <1>0, <1>1, <1>5, MainKeepsShutdown, MainKeepsRequests, MainKeepsLaunch, PartsOfNext
  <1>2. CASE ApiStep \/ ClientStep
    <2>1. UNCHANGED <<appVars, shutdownVars>>
      BY <1>2 DEF ApiStep, ClientStep
    <2>2. ShutdownPart'
      BY <1>0, <2>1 DEF appVars, shutdownVars, ShutdownPart, ShutdownTypeOK,
         TasksOutlastApplication, Over
    <2>3. UNCHANGED launchVars /\ UNCHANGED pc
      BY <2>1 DEF appVars, memberVars, launchVars
    <2>4. LaunchPart'
      BY <1>0, <2>3, OthersKeepLaunch DEF LaunchPart
    <2> QED
      BY <1>0, <1>2, <1>5, <2>2, <2>4, ApiKeepsRequests, ClientsKeepRequests, PartsOfNext
  <1>3. CASE PoolStep \/ UNCHANGED vars
    <2>1. UNCHANGED <<appVars, apiVars, shutdownVars>>
      BY <1>3 DEF PoolStep, vars
    <2>2. ShutdownPart'
      BY <1>0, <2>1 DEF appVars, shutdownVars, ShutdownPart, ShutdownTypeOK,
         TasksOutlastApplication, Over
    <2>3. UNCHANGED launchVars /\ UNCHANGED pc
      BY <2>1 DEF appVars, memberVars, launchVars
    <2>4. LaunchPart'
      BY <1>0, <2>3, OthersKeepLaunch DEF LaunchPart
    <2>5. ApiPart'
      <3>1. UNCHANGED <<apiVars, scenario, pc, api>>
        BY <2>1 DEF appVars, apiVars
      <3> QED
        BY <1>0, <3>1, OthersKeepRequests DEF ApiPart, RequestsAreSafe, HasSwitchersLocked
    <2> QED
      BY <1>5, <2>2, <2>4, <2>5, PartsOfNext
  <1>4. CASE \/ \E t \in Threads : Signal(t) \/ HandlerEnds(t)
             \/ \E n \in Signals : TaskStep(n)
    <2>1. ShutdownPart' /\ ApiPart'
      BY <1>0, <1>4, TasksKeepShutdown, SignalsKeepRequests
    <2>2. UNCHANGED launchVars /\ (pc' = pc \/ (pc = "asleep" /\ pc' = "woken"))
      <3>1. ASSUME NEW t \in Threads, Signal(t) \/ HandlerEnds(t)
            PROVE  UNCHANGED launchVars /\ UNCHANGED pc
        BY <3>1 DEF Signal, HandlerEnds, OthersGoOn, appVars, memberVars, launchVars
      <3>2. ASSUME NEW n \in Signals, TaskTimesOut(n) \/ TaskFinishes(n)
            PROVE  UNCHANGED launchVars /\ UNCHANGED pc
        BY <3>2 DEF TaskTimesOut, TaskFinishes, OthersGoOn, appVars, memberVars, launchVars
      <3>3. ASSUME NEW n \in Signals, TaskRequestsShutdown(n)
            PROVE  UNCHANGED launchVars /\ (pc' = pc \/ (pc = "asleep" /\ pc' = "woken"))
        BY <3>3 DEF TaskRequestsShutdown, memberVars, launchVars
      <3> QED
        BY <1>4, <3>1, <3>2, <3>3 DEF TaskStep
    <2>3. LaunchPart'
      <3>1. pc' \in Places
        BY <2>1 DEF ApiPart
      <3>2. pc = "asleep" => config # None
        BY <1>0 DEF LaunchPart, LaunchInv
      <3> QED
        BY <1>0, <2>2, <3>1, <3>2, OthersKeepLaunch DEF BeforeLaunch
    <2> QED
      BY <1>5, <2>1, <2>3, PartsOfNext
  <1>6. CASE AssertionFails
    <2>1. UNCHANGED <<appVars, apiVars>> /\ Terminate
      BY <1>6 DEF AssertionFails
    <2>2. ShutdownPart'
      BY <1>0, <2>1 DEF Terminate, appVars, ShutdownPart, ShutdownTypeOK,
         TasksOutlastApplication, Over
    <2>3. UNCHANGED launchVars /\ UNCHANGED pc
      BY <2>1 DEF appVars, memberVars, launchVars
    <2>4. LaunchPart'
      BY <1>0, <2>3, OthersKeepLaunch DEF LaunchPart
    <2>5. ApiPart'
      <3>1. UNCHANGED <<apiVars, scenario, pc, api>>
        BY <2>1 DEF appVars, apiVars
      <3> QED
        BY <1>0, <3>1, OthersKeepRequests DEF ApiPart, RequestsAreSafe, HasSwitchersLocked
    <2> QED
      BY <1>5, <2>2, <2>4, <2>5, PartsOfNext
  <1> QED
    BY <1>1, <1>2, <1>3, <1>4, <1>6 DEF Next

(* Devices belong to one algorithm at most and run with settings that have *)
(* been checked; algorithms have pools as long as they exist; requests and *)
(* tasks use nothing that main is changing or has destroyed.               *)
THEOREM ApplicationInvariant == Spec => []AppInv
  BY InitAppInv, NextAppInv, PTL DEF Spec

-----------------------------------------------------------------------------
(* FlattenSeq, by the equation of the function in its definition.          *)

IsFlat(f, q) == f = [i \in 1 .. Len(q) |-> IF i = 1 THEN q[i] ELSE f[i - 1] \o q[i]]

LEMMA FlatExists ==
    ASSUME NEW S, NEW q \in Seq(Seq(S))
    PROVE  \E f : IsFlat(f, q)
  <1> DEFINE Step(f, i) == IF i = 1 THEN q[i] ELSE f[i - 1] \o q[i]
             Upto(f, k) == DOMAIN f = 1 .. k /\ \A i \in 1 .. k : f[i] = Step(f, i)
             n == Len(q)
             T == {k \in 0 .. n : ~\E f : f = [i \in 1 .. k |-> f[i]] /\ Upto(f, k)}
  <1>0. n \in Nat
    OBVIOUS
  <1>1. T = {}
    <2> SUFFICES ASSUME T # {} PROVE FALSE
      OBVIOUS
    <2>1. PICK m \in T : \A k \in T : m <= k
      <3>1. T \subseteq Nat
        BY <1>0
      <3> HIDE DEF T
      <3> QED
        BY <3>1, LeastNat
    <2>2. m \in 0 .. n /\ ~\E f : f = [i \in 1 .. m |-> f[i]] /\ Upto(f, m)
      OBVIOUS
    <2>3. m # 0
      <3> DEFINE e == [i \in 1 .. m |-> 0]
      <3>1. e = [i \in 1 .. m |-> e[i]] /\ DOMAIN e = 1 .. m
        OBVIOUS
      <3>2. ASSUME m = 0 PROVE \A i \in 1 .. m : e[i] = Step(e, i)
        BY <3>2
      <3> HIDE DEF e
      <3> QED
        BY <2>2, <3>1, <3>2
    <2>4. m - 1 \in 0 .. n /\ m - 1 \notin T
      <3>1. ~(m <= m - 1) /\ m - 1 \in 0 .. n
        BY <1>0, <2>2, <2>3
      <3> QED
        BY <2>1, <3>1
    <2>5. PICK f : f = [i \in 1 .. m - 1 |-> f[i]] /\ Upto(f, m - 1)
      BY <2>4
    <2> DEFINE g == [i \in 1 .. m |-> IF i = m THEN Step(f, m) ELSE f[i]]
    <2>6. g = [i \in 1 .. m |-> g[i]] /\ DOMAIN g = 1 .. m
      OBVIOUS
    <2>7. \A i \in 1 .. m : g[i] = IF i = m THEN Step(f, m) ELSE f[i]
      OBVIOUS
    <2>8. \A i \in 1 .. m : g[i] = Step(g, i)
      <3> TAKE i \in 1 .. m
      <3> HIDE DEF g
      <3>1. CASE i = 1
        <4>1. 1 \in 1 .. m /\ (1 # m => 1 \in 1 .. m - 1)
          BY <2>2, <2>3
        <4>2. g[1] = IF 1 = m THEN Step(f, m) ELSE f[1]
          BY <2>7, <4>1
        <4>3. 1 # m => f[1] = q[1]
          BY <2>5, <4>1
        <4> QED
          BY <3>1, <4>2, <4>3
      <3>2. CASE i # 1
        <4>1. /\ i - 1 \in 1 .. m /\ i - 1 # m /\ i - 1 \in 1 .. m - 1
              /\ i # m => i \in 1 .. m - 1
          BY <2>2, <3>2
        <4>2. g[i - 1] = f[i - 1]
          BY <2>7, <4>1
        <4>3. i # m => f[i] = f[i - 1] \o q[i]
          BY <2>5, <3>2, <4>1
        <4> QED
          BY <2>7, <3>2, <4>2, <4>3
      <3> QED
        BY <3>1, <3>2
    <2> QED
      BY <2>2, <2>6, <2>8
  <1>2. n \notin T /\ n \in 0 .. n
    <2> HIDE DEF T
    <2> QED
      BY <1>0, <1>1
  <1>3. PICK f : f = [i \in 1 .. n |-> f[i]] /\ Upto(f, n)
    BY <1>2
  <1>4. f = [i \in 1 .. n |-> Step(f, i)]
    BY <1>3
  <1> QED
    BY <1>4 DEF IsFlat

LEMMA FlatValues ==
    ASSUME NEW S, NEW q \in Seq(Seq(S)), NEW f, IsFlat(f, q)
    PROVE  /\ \A i \in 1 .. Len(q) : f[i] = IF i = 1 THEN q[i] ELSE f[i - 1] \o q[i]
           /\ \A i \in 1 .. Len(q) : f[i] \in Seq(S)
  <1>1. \A i \in 1 .. Len(q) : f[i] = IF i = 1 THEN q[i] ELSE f[i - 1] \o q[i]
    BY Zenon DEF IsFlat
  <1> DEFINE T == {i \in 1 .. Len(q) : f[i] \notin Seq(S)}
  <1>2. ASSUME T # {} PROVE FALSE
    <2>1. T \subseteq Nat
      OBVIOUS
    <2> HIDE DEF T
    <2>2. PICK m \in T : \A k \in T : m <= k
      BY <1>2, <2>1, LeastNat
    <2>3. m \in 1 .. Len(q) /\ f[m] \notin Seq(S) /\ q[m] \in Seq(S)
      BY DEF T
    <2>4. m # 1
      BY <1>1, <2>3
    <2>5. m - 1 \in 1 .. Len(q) /\ ~(m <= m - 1)
      BY <2>3, <2>4
    <2>6. f[m - 1] \in Seq(S)
      BY <2>2, <2>5 DEF T
    <2>7. f[m] = f[m - 1] \o q[m]
      BY <1>1, <2>3, <2>4
    <2> QED
      BY <2>3, <2>6, <2>7
  <1> QED
    BY <1>1, <1>2

LEMMA FlattenIsFlat ==
    ASSUME NEW S, NEW q \in Seq(Seq(S)), Len(q) # 0
    PROVE  \E f : IsFlat(f, q) /\ FlattenSeq(q) = f[Len(q)]
  <1>1. FlattenSeq(q) =
           (CHOOSE f : f = [i \in 1 .. Len(q) |-> IF i = 1 THEN q[i] ELSE f[i - 1] \o q[i]])[Len(q)]
    BY Zenon DEF FlattenSeq
  <1>2. \E f : f = [i \in 1 .. Len(q) |-> IF i = 1 THEN q[i] ELSE f[i - 1] \o q[i]]
    BY FlatExists, Zenon DEF IsFlat
  <1> QED
    BY <1>1, <1>2, Zenon DEF IsFlat

(* What is flattened grows by what is appended.                            *)
LEMMA FlattenAppend ==
    ASSUME NEW S, NEW q \in Seq(Seq(S)), NEW x \in Seq(S)
    PROVE  /\ FlattenSeq(q) \in Seq(S)
           /\ FlattenSeq(Append(q, x)) = FlattenSeq(q) \o x
  <1> DEFINE p == Append(q, x)
             n == Len(q)
  <1>1. /\ p \in Seq(Seq(S)) /\ Len(p) = n + 1 /\ p[n + 1] = x /\ n \in Nat
        /\ \A i \in 1 .. n : p[i] = q[i]
    OBVIOUS
  <1>2. PICK g : IsFlat(g, p) /\ FlattenSeq(p) = g[n + 1]
    <2> HIDE DEF p, n
    <2>1. Len(p) # 0
      BY <1>1
    <2>2. \E f : IsFlat(f, p) /\ FlattenSeq(p) = f[Len(p)]
      BY <1>1, <2>1, FlattenIsFlat
    <2> QED
      BY <1>1, <2>2
  <1>6. q = <<>> <=> n = 0
    OBVIOUS
  <1> HIDE DEF p, n
  <1>3. /\ \A i \in 1 .. n + 1 : g[i] = IF i = 1 THEN p[i] ELSE g[i - 1] \o p[i]
        /\ \A i \in 1 .. n + 1 : g[i] \in Seq(S)
    <2>1. /\ \A i \in 1 .. Len(p) : g[i] = IF i = 1 THEN p[i] ELSE g[i - 1] \o p[i]
          /\ \A i \in 1 .. Len(p) : g[i] \in Seq(S)
      BY <1>1, <1>2, FlatValues
    <2> QED
      BY <1>1, <2>1
  <1>4. CASE n = 0
    <2>1. q = <<>> /\ FlattenSeq(q) = q
      <3>1. q = <<>>
        BY <1>4, <1>6
      <3>2. FlattenSeq(q) = q
        BY <1>4, Zenon DEF FlattenSeq, n
      <3> QED
        BY <3>1, <3>2
    <2>2. g[n + 1] = x
      BY <1>1, <1>3, <1>4
    <2> QED
      <3>1. <<>> \o x = x /\ <<>> \in Seq(S)
        BY EmptySeq
      <3> QED
        BY <1>2, <2>1, <2>2, <3>1 DEF p
  <1>5. CASE n # 0
    <2>1. PICK f : IsFlat(f, q) /\ FlattenSeq(q) = f[n]
      BY <1>5, FlattenIsFlat DEF n
    <2>2. /\ \A i \in 1 .. n : f[i] = IF i = 1 THEN q[i] ELSE f[i - 1] \o q[i]
          /\ \A i \in 1 .. n : f[i] \in Seq(S)
      BY <2>1, FlatValues DEF n
    <2> DEFINE T == {i \in 1 .. n : g[i] # f[i]}
    <2>3. ASSUME T # {} PROVE FALSE
      <3>1. T \subseteq Nat
        OBVIOUS
      <3> HIDE DEF T
      <3>2. PICK m \in T : \A k \in T : m <= k
        BY <2>3, <3>1, LeastNat
      <3>3. m \in 1 .. n /\ g[m] # f[m] /\ p[m] = q[m] /\ m \in 1 .. n + 1
        BY <1>1 DEF T
      <3>4. m # 1
        BY <1>3, <2>2, <3>3
      <3>5. m - 1 \in 1 .. n /\ ~(m <= m - 1)
        BY <1>1, <3>3, <3>4
      <3>6. g[m - 1] = f[m - 1]
        BY <3>2, <3>5 DEF T
      <3> QED
        BY <1>3, <2>2, <3>3, <3>4, <3>6
    <2>4. g[n] = f[n]
      <3> HIDE DEF T
      <3>1. T = {} /\ n \in 1 .. n
        BY <1>1, <1>5, <2>3
      <3> QED
        BY <3>1 DEF T
    <2>5. g[n + 1] = g[n] \o x
      <3>1. n + 1 \in 1 .. n + 1 /\ n + 1 # 1 /\ n + 1 - 1 = n
        BY <1>1, <1>5
      <3> QED
        <4>1. g[n + 1] = g[(n + 1) - 1] \o p[n + 1]
          BY <1>3, <3>1
        <4>2. (n + 1) - 1 = n
          BY <1>1
        <4> QED
          BY <1>1, <4>1, <4>2
    <2>6. f[n] \in Seq(S)
      BY <1>1, <1>5, <2>2
    <2> QED
      BY <1>2, <2>1, <2>4, <2>5, <2>6 DEF p
  <1> QED
    BY <1>4, <1>5

-----------------------------------------------------------------------------
(* The order of the answers.                                               *)

LEMMA PrefixOfConcat ==
    ASSUME NEW S, NEW s \in Seq(S), NEW t \in Seq(S)
    PROVE  IsPrefix(s, s \o t)
  <1>1. Len(s \o t) = Len(s) + Len(t) /\ Len(s) \in Nat /\ Len(t) \in Nat /\ s \o t \in Seq(S)
    OBVIOUS
  <1>2. SubSeq(s, 1, Len(s)) = SubSeq(s \o t, 1, Len(s))
    <2>1. \A i \in 1 .. Len(s) : (s \o t)[i] = s[i]
      OBVIOUS
    <2>2. SubSeq(s, 1, Len(s)) = [i \in 1 .. Len(s) |-> s[i]]
      BY <1>1
    <2>3. SubSeq(s \o t, 1, Len(s)) = [i \in 1 .. Len(s) |-> (s \o t)[i]]
      BY <1>1
    <2> QED
      BY <2>1, <2>2, <2>3
  <1> QED
    BY <1>1, <1>2 DEF IsPrefix

LEMMA PrefixOfLonger ==
    ASSUME NEW S, NEW s \in Seq(S), NEW t \in Seq(S), NEW u \in Seq(S), IsPrefix(s, t)
    PROVE  IsPrefix(s, t \o u)
  <1>1. /\ Len(t \o u) = Len(t) + Len(u) /\ Len(s) \in Nat /\ Len(t) \in Nat /\ Len(u) \in Nat
        /\ t \o u \in Seq(S) /\ Len(s) <= Len(t)
    BY DEF IsPrefix
  <1>2. SubSeq(t, 1, Len(s)) = SubSeq(t \o u, 1, Len(s))
    <2>1. \A i \in 1 .. Len(s) : i \in 1 .. Len(t) /\ (t \o u)[i] = t[i]
      BY <1>1
    <2>2. SubSeq(t, 1, Len(s)) = [i \in 1 .. Len(s) |-> t[i]]
      BY <1>1
    <2>3. SubSeq(t \o u, 1, Len(s)) = [i \in 1 .. Len(s) |-> (t \o u)[i]]
      BY <1>1
    <2> QED
      BY <2>1, <2>2, <2>3
  <1> QED
    BY <1>1, <1>2 DEF IsPrefix

(* The answers to the first k messages of a client.                        *)
Sent(c, k) ==
    LET handled == SubSeq(scenario.script[c], 1, k)
    IN  FlattenSeq([i \in DOMAIN handled |-> AnswerTo(handled[i])])

LEMMA SentGrows ==
    ASSUME scenario \in Scenarios, NEW c \in Clients, NEW k \in 0 .. Len(scenario.script[c])
    PROVE  /\ k = 0 => Sent(c, k) = <<>>
           /\ Sent(c, k) \in Seq(Answers)
           /\ k < Len(scenario.script[c]) =>
                 /\ AnswerTo(scenario.script[c][k + 1]) \in Seq(Answers)
                 /\ Sent(c, k + 1) = Sent(c, k) \o AnswerTo(scenario.script[c][k + 1])
  <1> DEFINE s == scenario.script[c]
             R == Range(s)
             q(n) == [i \in 1 .. n |-> AnswerTo(s[i])]
  <1>1. s \in Seq(R) /\ R \subseteq AllMessages
    BY ScriptsAreSequences
  <1>2. \A i \in 1 .. Len(s) : s[i] \in AllMessages
    BY <1>1
  <1>3. \A i \in 1 .. Len(s) : AnswerTo(s[i]) \in Seq(Answers)
    BY <1>2, AnswersAreAnswers
  <1>4. Len(s) \in Nat /\ k \in Nat
    BY <1>1
  <1>5. ASSUME NEW n \in 0 .. Len(s)
        PROVE  q(n) \in Seq(Seq(Answers)) /\ Sent(c, n) = FlattenSeq(q(n)) /\ Len(q(n)) = n
    <2>1. SubSeq(s, 1, n) = [i \in 1 .. n |-> s[i]]
      BY <1>1, <1>4
    <2>2. DOMAIN SubSeq(s, 1, n) = 1 .. n /\ \A i \in 1 .. n : SubSeq(s, 1, n)[i] = s[i]
      BY <2>1
    <2>3. [i \in DOMAIN SubSeq(s, 1, n) |-> AnswerTo(SubSeq(s, 1, n)[i])] = q(n)
      BY <2>2
    <2>4. Sent(c, n) = FlattenSeq(q(n))
      BY <2>3, Zenon DEF Sent
    <2>5. n \in Nat /\ \A i \in 1 .. n : q(n)[i] \in Seq(Answers)
      BY <1>3, <1>4
    <2>6. q(n) \in Seq(Seq(Answers)) /\ Len(q(n)) = n
      BY <2>5
    <2> QED
      BY <2>4, <2>5
  <1>6. Sent(c, k) \in Seq(Answers)
    <2>1. q(k) \in Seq(Seq(Answers)) /\ Sent(c, k) = FlattenSeq(q(k)) /\ <<>> \in Seq(Answers)
      BY <1>5, EmptySeq
    <2> HIDE DEF q
    <2> QED
      BY <2>1, FlattenAppend
  <1>7. k = 0 => Sent(c, k) = <<>>
    <2> SUFFICES ASSUME k = 0 PROVE Sent(c, k) = <<>>
      OBVIOUS
    <2>1. q(k) \in Seq(Seq(Answers)) /\ Sent(c, k) = FlattenSeq(q(k)) /\ Len(q(k)) = 0
      BY <1>5
    <2> HIDE DEF q
    <2>2. q(k) = <<>>
      BY <2>1
    <2>3. FlattenSeq(q(k)) = q(k)
      BY <2>1, Zenon DEF FlattenSeq
    <2> QED
      BY <2>1, <2>2, <2>3
  <1>8. ASSUME k < Len(s)
        PROVE  /\ AnswerTo(s[k + 1]) \in Seq(Answers)
               /\ Sent(c, k + 1) = Sent(c, k) \o AnswerTo(s[k + 1])
    <2>1. k + 1 \in 0 .. Len(s) /\ k + 1 \in 1 .. Len(s)
      BY <1>4, <1>8
    <2>2. /\ q(k) \in Seq(Seq(Answers)) /\ Sent(c, k) = FlattenSeq(q(k)) /\ Len(q(k)) = k
          /\ q(k + 1) \in Seq(Seq(Answers)) /\ Sent(c, k + 1) = FlattenSeq(q(k + 1))
          /\ Len(q(k + 1)) = k + 1
      BY <1>5, <2>1
    <2>3. AnswerTo(s[k + 1]) \in Seq(Answers)
      BY <1>3, <2>1
    <2>4. q(k + 1) = Append(q(k), AnswerTo(s[k + 1]))
      <3> DEFINE y == AnswerTo(s[k + 1])
                 v == q(k)
                 w == q(k + 1)
      <3>1. \A i \in 1 .. k + 1 : w[i] = AnswerTo(s[i])
        BY <1>4
      <3>2. \A i \in 1 .. k : v[i] = AnswerTo(s[i])
        BY <1>4
      <3>3. /\ v \in Seq(Seq(Answers)) /\ w \in Seq(Seq(Answers)) /\ y \in Seq(Answers)
            /\ Len(v) = k /\ Len(w) = k + 1
        BY <2>2, <2>3
      <3>4. \A i \in 1 .. k : w[i] = v[i]
        BY <1>4, <3>1, <3>2
      <3>5. w[k + 1] = y
        BY <1>4, <3>1
      <3> HIDE DEF q, y, v, w
      <3>6. w = Append(v, y)
        <4>1. /\ Append(v, y) \in Seq(Seq(Answers)) /\ Len(Append(v, y)) = Len(w)
              /\ Append(v, y)[k + 1] = y /\ \A i \in 1 .. k : Append(v, y)[i] = v[i]
          BY <1>4, <3>3
        <4>2. \A i \in 1 .. Len(w) : w[i] = Append(v, y)[i]
          <5>1. \A i \in 1 .. Len(w) : i \in 1 .. k \/ i = k + 1
            BY <1>4, <3>3
          <5> QED
            BY <3>4, <3>5, <4>1, <5>1
        <4> QED
          BY <3>3, <4>1, <4>2, SeqEqual
      <3> QED
        BY <3>6 DEF y, v, w
    <2> HIDE DEF q
    <2> QED
      BY <2>2, <2>3, <2>4, FlattenAppend
  <1> QED
    BY <1>6, <1>7, <1>8

(* What a step may do to a connection of c, r before and x after it: as    *)
(* long as every answer has been taken at once, that to the message it     *)
(* handles is received with it.                                            *)
Followed(r) == r.link = "open" /\ r.whole
Proceeds(c, r, x) ==
    \/ x.taken = r.taken /\ x.got = r.got /\ (Followed(x) => Followed(r))
    \/ x.taken = 0 /\ x.got = <<>>
    \/ r.taken < r.asked /\ x.taken = r.taken + 1 /\ x.got = r.got /\ ~Followed(x)
    \/ /\ r.taken < r.asked /\ x.taken = r.taken + 1 /\ Followed(r)
       /\ x.got = r.got \o AnswerTo(scenario.script[c][r.taken + 1])

Ordered(c, r) ==
    /\ IsPrefix(r.got, Sent(c, r.taken))
    /\ Followed(r) => r.got = Sent(c, r.taken)

LEMMA StaysOrdered ==
    ASSUME scenario \in Scenarios, NEW c \in Clients, NEW r, NEW x,
           IsConnection(c, r), Ordered(c, r), Proceeds(c, r, x)
    PROVE  Ordered(c, x)
  <1> DEFINE a == AnswerTo(scenario.script[c][r.taken + 1])
  <1>1. /\ r.taken \in 0 .. Len(scenario.script[c]) /\ r.got \in Seq(Answers)
        /\ r.taken < r.asked => r.taken < Len(scenario.script[c])
    <2>1. Len(scenario.script[c]) \in Nat
      BY ScriptsAreSequences
    <2> QED
      BY <2>1 DEF IsConnection, Connections
  <1>2. Sent(c, r.taken) \in Seq(Answers)
    BY <1>1, SentGrows
  <1>3. CASE x.taken = r.taken /\ x.got = r.got /\ (Followed(x) => Followed(r))
    BY <1>3 DEF Ordered
  <1>7. ASSUME NEW q \in Seq(Answers)
        PROVE  IsPrefix(q, q)
    <2>1. <<>> \in Seq(Answers) /\ q \o <<>> = q
      BY EmptySeq, ConcatEmptySeq
    <2> QED
      BY <2>1, PrefixOfConcat
  <1>4. CASE x.taken = 0 /\ x.got = <<>>
    <2>1. 0 \in 0 .. Len(scenario.script[c])
      BY <1>1
    <2>2. Sent(c, 0) = <<>>
      BY <2>1, SentGrows
    <2>3. IsPrefix(<<>>, <<>>)
      BY <1>7, EmptySeq
    <2> QED
      BY <1>4, <2>2, <2>3 DEF Ordered
  <1>5. ASSUME r.taken < r.asked, x.taken = r.taken + 1
        PROVE  a \in Seq(Answers) /\ Sent(c, x.taken) = Sent(c, r.taken) \o a
    BY <1>1, <1>5, SentGrows
  <1>6. CASE r.taken < r.asked /\ x.taken = r.taken + 1 /\ x.got = r.got /\ ~Followed(x)
    <2>1. a \in Seq(Answers) /\ Sent(c, x.taken) = Sent(c, r.taken) \o a
      BY <1>5, <1>6
    <2> HIDE DEF a
    <2>2. IsPrefix(x.got, Sent(c, x.taken))
      BY <1>1, <1>2, <1>6, <2>1, PrefixOfLonger DEF Ordered
    <2> QED
      BY <1>6, <2>2 DEF Ordered
  <1>8. CASE /\ r.taken < r.asked /\ x.taken = r.taken + 1 /\ Followed(r)
             /\ x.got = r.got \o a
    <2>1. a \in Seq(Answers) /\ Sent(c, x.taken) = Sent(c, r.taken) \o a
      BY <1>5, <1>8
    <2> HIDE DEF a
    <2>4. r.got = Sent(c, r.taken)
      BY <1>8 DEF Ordered
    <2>2. x.got = Sent(c, x.taken) /\ x.got \in Seq(Answers)
      <3>1. x.got = Sent(c, x.taken)
        BY <1>8, <2>1, <2>4, Zenon
      <3>2. r.got \o a \in Seq(Answers)
        <4> DEFINE g == r.got
        <4>1. g \in Seq(Answers)
          BY <1>1
        <4> HIDE DEF g
        <4>2. g \o a \in Seq(Answers)
          BY <2>1, <4>1
        <4> QED
          BY <4>2 DEF g
      <3> QED
        BY <1>8, <3>1, <3>2, Zenon
    <2>3. IsPrefix(x.got, x.got)
      BY <1>7, <2>2
    <2> QED
      BY <2>2, <2>3 DEF Ordered
  <1> QED
    BY <1>3, <1>4, <1>6, <1>8 DEF Proceeds

LEMMA KeptProceeds ==
    ASSUME NEW c, NEW r, NEW x \in Connections, Proceeds(c, r, x)
    PROVE  Proceeds(c, r, Kept(x))
  <1> DEFINE k == Kept(x)
  <1>1. /\ k.taken = x.taken /\ k.got = x.got /\ k.whole = x.whole
        /\ k.link = "open" => x.link = "open"
    BY DEF Kept, Connections
  <1> HIDE DEF k
  <1>2. Proceeds(c, r, k)
    BY <1>1 DEF Proceeds, Followed
  <1> QED
    BY <1>2 DEF k

LEMMA HandledProceeds ==
    ASSUME NEW c, IsConnection(c, cxn[c]), cxn[c].taken < cxn[c].asked,
           AnswerTo(MessageOf(c)) \in Seq(Answers), NEW atOnce \in BOOLEAN
    PROVE  Proceeds(c, cxn[c], Handled(c, AnswerTo(MessageOf(c)), atOnce))
  <1> DEFINE a == AnswerTo(MessageOf(c))
             x == Handled(c, a, atOnce)
  <1>1. a = AnswerTo(scenario.script[c][cxn[c].taken + 1])
    BY Zenon DEF MessageOf
  <1>2. a \in Seq(Answers)
    OBVIOUS
  <1> HIDE DEF a
  <1>3. /\ x.link = cxn[c].link /\ x.taken = cxn[c].taken + 1
        /\ x.whole = (cxn[c].whole /\ atOnce)
        /\ x.got = IF cxn[c].whole /\ atOnce /\ cxn[c].link = "open"
                   THEN cxn[c].got \o a ELSE cxn[c].got
    BY <1>2, HandledFields
  <1> SUFFICES Proceeds(c, cxn[c], x)
    BY Zenon DEF x, a
  <1> HIDE DEF x
  <1>4. CASE cxn[c].whole /\ atOnce /\ cxn[c].link = "open"
    <2>1. x.got = cxn[c].got \o AnswerTo(scenario.script[c][cxn[c].taken + 1])
      BY <1>1, <1>3, <1>4, Zenon
    <2>2. Followed(cxn[c]) /\ x.taken = cxn[c].taken + 1 /\ cxn[c].taken < cxn[c].asked
      BY <1>3, <1>4, Zenon DEF Followed
    <2> QED
      BY <2>1, <2>2, Zenon DEF Proceeds
  <1>5. CASE ~(cxn[c].whole /\ atOnce /\ cxn[c].link = "open")
    <2>1. x.got = cxn[c].got
      BY <1>3, <1>5, Zenon
    <2>2. ~Followed(x) /\ x.taken = cxn[c].taken + 1 /\ cxn[c].taken < cxn[c].asked
      BY <1>3, <1>5, Zenon DEF Followed
    <2> QED
      BY <2>1, <2>2, Zenon DEF Proceeds
  <1> QED
    BY <1>4, <1>5

LEMMA ConnectionsProceed ==
    ASSUME RequestsInv, NEW c \in Clients, NEW x, cxn' = [cxn EXCEPT ![c] = x],
           Proceeds(c, cxn[c], x)
    PROVE  \A k \in Clients : Proceeds(k, cxn[k], cxn'[k])
  <1>1. cxn'[c] = x /\ \A k \in Clients \ {c} : cxn'[k] = cxn[k]
    BY DEF RequestsInv
  <1>2. \A k \in Clients : Proceeds(k, cxn[k], cxn[k])
    BY DEF Proceeds
  <1> QED
    BY <1>1, <1>2

LEMMA ApiProceeds ==
    ASSUME ApiPart, ApiStep
    PROVE  \A k \in Clients : Proceeds(k, cxn[k], cxn'[k])
  <1>0. RequestsInv /\ \A c \in Clients : IsConnection(c, cxn[c]) /\ cxn[c] \in Connections
    BY DEF ApiPart, RequestsInv
  <1>1. ASSUME NEW c \in Clients, Accept(c)
        PROVE  \A k \in Clients : Proceeds(k, cxn[k], cxn'[k])
    <2> DEFINE r == [cxn[c] EXCEPT !.link = "open", !.reading = TRUE]
    <2>1. cxn[c].link = "calling" /\ cxn[c] \in Connections /\ cxn' = [cxn EXCEPT ![c] = Kept(r)]
      BY <1>0, <1>1 DEF Accept, Set
    <2>2. cxn[c].taken = 0 /\ cxn[c].got = <<>>
      BY <1>0, <2>1 DEF IsConnection, NewCxn
    <2>3. r \in Connections /\ r.taken = 0 /\ r.got = <<>>
      BY <2>1, <2>2 DEF Connections
    <2> HIDE DEF r
    <2>4. Proceeds(c, cxn[c], r)
      BY <2>3 DEF Proceeds
    <2> QED
      BY <1>0, <2>1, <2>3, <2>4, KeptProceeds, ConnectionsProceed
  <1>2. ASSUME NEW c \in Clients, ReadEof(c)
        PROVE  \A k \in Clients : Proceeds(k, cxn[k], cxn'[k])
    <2> DEFINE r == [cxn[c] EXCEPT !.reading = FALSE]
    <2>1. cxn[c] \in Connections /\ cxn' = [cxn EXCEPT ![c] = Kept(r)]
      BY <1>0, <1>2 DEF ReadEof, Set
    <2>2. /\ r \in Connections /\ r.taken = cxn[c].taken /\ r.got = cxn[c].got
          /\ r.whole = cxn[c].whole /\ r.link = cxn[c].link
      BY <2>1 DEF Connections
    <2> HIDE DEF r
    <2>3. Proceeds(c, cxn[c], r)
      BY <2>2 DEF Proceeds, Followed
    <2> QED
      BY <1>0, <2>1, <2>2, <2>3, KeptProceeds, ConnectionsProceed
  <1>3. ASSUME NEW c \in Clients, WriteEnds(c)
        PROVE  \A k \in Clients : Proceeds(k, cxn[k], cxn'[k])
    <2> DEFINE w == cxn[c].writes - 1
               r == [cxn[c] EXCEPT !.writes = w]
    <2>1. /\ cxn[c] \in Connections /\ cxn' = [cxn EXCEPT ![c] = Kept(r)]
          /\ cxn[c].writes > cxn[c].rests
      BY <1>0, <1>3 DEF WriteEnds, Set
    <2>2. w \in Nat
      BY <2>1 DEF Connections
    <2> HIDE DEF w
    <2>3. /\ r \in Connections /\ r.taken = cxn[c].taken /\ r.got = cxn[c].got
          /\ r.whole = cxn[c].whole /\ r.link = cxn[c].link
      BY <2>1, <2>2 DEF Connections
    <2> HIDE DEF r
    <2>4. Proceeds(c, cxn[c], r)
      BY <2>3 DEF Proceeds, Followed
    <2> QED
      BY <1>0, <2>1, <2>3, <2>4, KeptProceeds, ConnectionsProceed
  <1>4. ASSUME NEW c \in Clients, cxn[c].taken < cxn[c].asked,
               SetHandled(c, AnswerTo(MessageOf(c)))
        PROVE  \A k \in Clients : Proceeds(k, cxn[k], cxn'[k])
    <2>0. PICK atOnce \in BOOLEAN : Set(c, Handled(c, AnswerTo(MessageOf(c)), atOnce))
      BY <1>4 DEF SetHandled, AtOnce
    <2> DEFINE x == Handled(c, AnswerTo(MessageOf(c)), atOnce)
    <2>2. MessageOf(c) \in AllMessages
      BY <1>0, <1>4, NextIsMessage DEF ApiPart
    <2>1. Proceeds(c, cxn[c], x)
      BY <1>0, <1>4, <2>2, AnswersAreAnswers, HandledProceeds
    <2>3. IsConnection(c, x)
      BY <1>0, <1>4, <2>2, AnswersAreAnswers, HandledIsConnection
    <2>4. cxn' = [cxn EXCEPT ![c] = Kept(x)]
      BY <2>0 DEF Set
    <2> HIDE DEF x
    <2>5. x \in Connections
      BY <2>3 DEF IsConnection
    <2> QED
      BY <1>0, <2>1, <2>4, <2>5, KeptProceeds, ConnectionsProceed
  <1>5. ASSUME NEW c \in Clients, HasNext(c), Receive(c, MessageOf(c))
        PROVE  \A k \in Clients : Proceeds(k, cxn[k], cxn'[k])
    <2>0. cxn[c].taken < cxn[c].asked /\ cxn[c] \in Connections
      BY <1>0, <1>5 DEF HasNext
    <2>1. CASE ReceiveBroken(c, MessageOf(c))
      <3> DEFINE t == cxn[c].taken + 1
                 r == [cxn[c] EXCEPT !.taken = t, !.reading = FALSE]
                 a == AnswerTo(scenario.script[c][cxn[c].taken + 1])
      <3>1. AnswerTo(MessageOf(c)) = <<>>
        BY <2>1, Zenon DEF ReceiveBroken, AnswerTo
      <3>2. a = <<>>
        BY <3>1, Zenon DEF MessageOf
      <3>3. cxn' = [cxn EXCEPT ![c] = Kept(r)]
        BY <2>1 DEF ReceiveBroken, Set
      <3>4. t \in Nat /\ cxn[c].got \in Seq(Answers)
        BY <2>0 DEF Connections
      <3>5. cxn[c].got = cxn[c].got \o <<>>
        BY <3>4, ConcatEmptySeq
      <3> HIDE DEF t, a
      <3>6. /\ r \in Connections /\ r.taken = t /\ r.got = cxn[c].got
            /\ r.whole = cxn[c].whole /\ r.link = cxn[c].link
        BY <2>0, <3>4 DEF Connections
      <3> HIDE DEF r
      <3>7. r.got = cxn[c].got \o a
        BY <3>2, <3>5, <3>6
      <3>8. Proceeds(c, cxn[c], r)
        BY <2>0, <3>6, <3>7 DEF Proceeds, Followed, t, a
      <3> QED
        BY <1>0, <3>3, <3>6, <3>8, KeptProceeds, ConnectionsProceed
    <2>2. CASE ReceiveResponse(c, MessageOf(c))
      <3>1. AnswerTo(MessageOf(c)) = <<>>
        BY <2>2, Zenon DEF ReceiveResponse, AnswerTo
      <3> QED
        BY <1>4, <2>0, <2>2, <3>1, Zenon DEF ReceiveResponse
    <2>3. CASE ReceiveRequest(c, MessageOf(c))
      BY <1>4, <2>0, <2>3, Zenon DEF ReceiveRequest
    <2>4. CASE ReceiveStatsRequest(c, MessageOf(c))
      BY <2>4 DEF ReceiveStatsRequest, Proceeds
    <2> QED
      BY <1>5, <2>1, <2>2, <2>3, <2>4 DEF Receive
  <1>6. CASE BeginPoolStats
    BY <1>6 DEF BeginPoolStats, Proceeds
  <1>7. CASE IsReading /\ EndStats(MessageOf(serving))
    <2>1. serving \in Clients /\ cxn[serving].taken < cxn[serving].asked
      BY <1>7 DEF IsReading, ApiPart, ApiTypeOK, RequestsInv
    <2>2. SetHandled(serving, AnswerTo(MessageOf(serving)))
      BY <1>7, Zenon DEF EndStats, AnswerOn
    <2> QED
      BY <1>4, <2>1, <2>2
  <1> QED
    BY <1>1, <1>2, <1>3, <1>5, <1>6, <1>7 DEF ApiStep

(* No step but those of the server and of the clients touches connections, *)
(* except for the end of the server, which closes all.                     *)
LEMMA StepsProceed ==
    ASSUME ApiPart, [Next]_vars
    PROVE  (\A k \in Clients : Proceeds(k, cxn[k], cxn'[k])) /\ UNCHANGED scenario
  <1>1. CASE ApiStep
    BY <1>1, ApiProceeds DEF ApiStep, appVars
  <1>2. CASE ClientStep
    <2>1. PICK c \in Clients : Connect(c) \/ HangUp(c) \/ Ask(c) \/ SendRest(c)
      BY <1>2 DEF ClientStep
    <2>2. cxn[c] \in Connections /\ RequestsInv
      BY DEF ApiPart, RequestsInv
    <2> DEFINE n == cxn[c].asked + 1
    <2>3. PICK x : /\ cxn' = [cxn EXCEPT ![c] = x]
                   /\ x.taken = cxn[c].taken /\ x.got = cxn[c].got /\ x.whole = cxn[c].whole
                   /\ x.link = "open" => cxn[c].link = "open"
      <3>1. CASE Connect(c)
        <4> DEFINE y == [cxn[c] EXCEPT !.link = "calling"]
        <4>1. cxn' = [cxn EXCEPT ![c] = y]
          BY <3>1 DEF Connect
        <4>2. /\ y.taken = cxn[c].taken /\ y.got = cxn[c].got /\ y.whole = cxn[c].whole
              /\ y.link = "calling"
          BY <2>2 DEF Connections
        <4> HIDE DEF y
        <4> QED
          BY <4>1, <4>2
      <3>2. CASE HangUp(c)
        <4> DEFINE y == [cxn[c] EXCEPT !.link = "closing"]
        <4>1. cxn' = [cxn EXCEPT ![c] = y]
          BY <3>2 DEF HangUp
        <4>2. /\ y.taken = cxn[c].taken /\ y.got = cxn[c].got /\ y.whole = cxn[c].whole
              /\ y.link = "closing"
          BY <2>2 DEF Connections
        <4> HIDE DEF y
        <4> QED
          BY <4>1, <4>2
      <3>3. CASE Ask(c)
        <4> DEFINE y == [cxn[c] EXCEPT !.asked = n]
        <4>1. cxn' = [cxn EXCEPT ![c] = y]
          BY <3>3 DEF Ask
        <4> HIDE DEF n
        <4>2. /\ y.taken = cxn[c].taken /\ y.got = cxn[c].got /\ y.whole = cxn[c].whole
              /\ y.link = cxn[c].link
          BY <2>2 DEF Connections
        <4> HIDE DEF y
        <4> QED
          BY <4>1, <4>2
      <3>4. CASE SendRest(c)
        <4> DEFINE m == cxn[c].rests - 1
                   r == [cxn[c] EXCEPT !.rests = m]
                   y == Kept(r)
        <4>1. cxn' = [cxn EXCEPT ![c] = y] /\ cxn[c].rests > 0
          BY <3>4 DEF SendRest, Set
        <4>2. m \in Nat
          BY <2>2, <4>1 DEF Connections
        <4> HIDE DEF m
        <4>3. /\ r \in Connections /\ r.taken = cxn[c].taken /\ r.got = cxn[c].got
              /\ r.whole = cxn[c].whole /\ r.link = cxn[c].link
          BY <2>2, <4>2 DEF Connections
        <4> HIDE DEF r
        <4>4. /\ y.taken = r.taken /\ y.got = r.got /\ y.whole = r.whole
              /\ y.link = "open" => r.link = "open"
          BY <4>3 DEF Kept, Connections
        <4> HIDE DEF y
        <4> QED
          BY <4>1, <4>3, <4>4
      <3> QED
        BY <2>1, <3>1, <3>2, <3>3, <3>4
    <2>4. Proceeds(c, cxn[c], x)
      BY <2>3 DEF Proceeds, Followed
    <2>5. UNCHANGED scenario
      BY <1>2 DEF ClientStep, appVars
    <2> QED
      BY <2>2, <2>3, <2>4, <2>5, ConnectionsProceed
  <1>3. CASE CloseApi
    <2>1. ASSUME NEW k \in Clients
          PROVE  Proceeds(k, cxn[k], cxn'[k])
      <3>1. cxn[k] \in Connections
        BY DEF ApiPart, RequestsInv
      <3>2. cxn'[k] = [cxn[k] EXCEPT !.link = "closed", !.reading = FALSE, !.writes = 0,
                                    !.rests = 0]
        BY <1>3 DEF CloseApi, StopServer
      <3>3. cxn'[k].taken = cxn[k].taken /\ cxn'[k].got = cxn[k].got /\ cxn'[k].link = "closed"
        BY <3>1, <3>2 DEF Connections
      <3> QED
        BY <3>3 DEF Proceeds, Followed
    <2> QED
      BY <1>3, <2>1 DEF CloseApi, MainGoes
  <1>4. ASSUME UNCHANGED <<cxn, scenario>>
        PROVE  (\A k \in Clients : Proceeds(k, cxn[k], cxn'[k])) /\ UNCHANGED scenario
    BY <1>4 DEF Proceeds
  <1>5. CASE PoolStep \/ AssertionFails \/ UNCHANGED vars
    BY <1>4, <1>5 DEF PoolStep, AssertionFails, vars, appVars, apiVars
  <1>6. CASE Launch
    <2> USE DEF MainGoes, OthersStay, apiVars
    <2>1. CASE Construct
      BY <1>4, <2>1 DEF Construct, LaunchServer
    <2>2. CASE LockPoolSwitchers
      BY <1>4, <2>2 DEF LockPoolSwitchers
    <2>3. CASE SkipUnknown
      BY <1>4, <2>3 DEF SkipUnknown, Skip
    <2>4. CASE AddPools
      BY <1>4, <2>4 DEF AddPools, Skip
    <2>5. CASE AssignDevices
      BY <1>4, <2>5 DEF AssignDevices, Skip
    <2>6. CASE MakeAlgo
      BY <1>4, <2>6 DEF MakeAlgo, Skip
    <2>7. CASE MakeAlgoThrows
      BY <1>4, <2>7 DEF MakeAlgoThrows
    <2>8. CASE Launched
      BY <1>4, <2>8 DEF Launched
    <2> QED
      BY <1>6, <2>1, <2>2, <2>3, <2>4, <2>5, <2>6, <2>7, <2>8 DEF Launch
  <1>7. CASE MainStep /\ ~CloseApi
    <2> USE DEF MainGoes, OthersStay, apiVars
    <2>1. CASE RejectArguments \/ Return
      BY <1>4, <2>1 DEF RejectArguments, Return, appVars
    <2>2. CASE RegisterHandlers \/ LoadConfig
      BY <1>4, <2>2 DEF RegisterHandlers, LoadConfig
    <2>3. CASE EnterOrReenterWait \/ WaitOrGoOn
      BY <1>4, <2>3 DEF EnterOrReenterWait, WaitOrGoOn
    <2>4. CASE CloseSwitchers \/ EnterConfirm \/ Confirm \/ Notify \/ Reset
      BY <1>4, <2>4 DEF CloseSwitchers, EnterConfirm, Confirm, Notify, Reset
    <2> QED
      BY <1>7, <2>1, <2>2, <2>3, <2>4 DEF MainStep
  <1>8. CASE CloseAlgorithm
    BY <1>4, <1>8 DEF CloseAlgorithm, MainGoes, OthersStay, apiVars
  <1>9. CASE \/ \E t \in Threads : Signal(t) \/ HandlerEnds(t)
             \/ \E n \in Signals : TaskStep(n)
    BY <1>4, <1>9 DEF Signal, HandlerEnds, TaskStep, TaskRequestsShutdown, TaskTimesOut,
       TaskFinishes, OthersGoOn, appVars, apiVars
  <1> QED
    BY <1>1, <1>2, <1>3, <1>5, <1>6, <1>7, <1>8, <1>9 DEF Next

AllOrdered == \A c \in Clients : Ordered(c, cxn[c])

(* A client receives the answers to its messages, in the order of the      *)
(* messages, each once and none that is meant for another client, up to    *)
(* the first the socket does not take at once.                             *)
THEOREM AnswersAreInOrder == Spec => []AnswersInOrder
  <1>1. Init => AllOrdered
    <2> SUFFICES ASSUME Init, NEW c \in Clients PROVE Ordered(c, cxn[c])
      BY DEF AllOrdered
    <2>1. cxn[c] = NewCxn /\ scenario \in Scenarios
      BY DEF Init, ApiInit
    <2>2. cxn[c].link = "none" /\ cxn[c].got = <<>> /\ cxn[c].taken = 0
      BY <2>1 DEF NewCxn
    <2>3. 0 \in 0 .. Len(scenario.script[c])
      BY <2>1, ScriptsAreSequences
    <2>4. Sent(c, 0) = <<>>
      BY <2>1, <2>3, SentGrows
    <2>5. <<>> \in Seq(Answers) /\ <<>> \o <<>> = <<>>
      BY EmptySeq
    <2>6. IsPrefix(<<>>, <<>> \o <<>>)
      BY <2>5, PrefixOfConcat
    <2> QED
      BY <2>2, <2>4, <2>5, <2>6 DEF Ordered, Followed
  <1>2. AppInv /\ AllOrdered /\ [Next]_vars => AllOrdered'
    <2> SUFFICES ASSUME AppInv, AllOrdered, [Next]_vars PROVE AllOrdered'
      OBVIOUS
    <2>1. ApiPart
      BY PartsOfInvariant
    <2>2. (\A k \in Clients : Proceeds(k, cxn[k], cxn'[k])) /\ scenario' = scenario
      BY <2>1, StepsProceed
    <2>3. \A c \in Clients : Ordered(c, cxn'[c])
      BY <2>1, <2>2, StaysOrdered DEF AllOrdered, ApiPart, RequestsInv
    <2>4. ASSUME NEW c \in Clients
          PROVE  Ordered(c, cxn[c])'
      BY <2>2, <2>3 DEF Ordered, Followed, Sent
    <2> QED
      BY <2>4 DEF AllOrdered
  <1>3. AllOrdered => AnswersInOrder
    BY DEF AllOrdered, Ordered, Followed, Sent, AnswersInOrder
  <1> QED
    BY <1>1, <1>2, <1>3, ApplicationInvariant, PTL DEF Spec

-----------------------------------------------------------------------------
(* MapThenSumSet, by the equation of the function in its definition.      *)

SumOf(f, S) == MapThenSumSet(LAMBDA n : f[n], S)
Chosen(s) == CHOOSE x \in s : TRUE
SumStep(f, s, g) == IF s = {} THEN 0 ELSE f[Chosen(s)] + g[s \ {Chosen(s)}]
IsSum(g, f, S) == g = [s \in SUBSET S |-> SumStep(f, s, g)]

LEMMA SmallestSet ==
    ASSUME NEW F, F # {}, \A s \in F : IsFiniteSet(s)
    PROVE  \E m \in F : /\ \A s \in F : Cardinality(m) <= Cardinality(s)
                        /\ \A x \in m : m \ {x} \notin F
  <1> DEFINE C == {Cardinality(s) : s \in F}
  <1>1. C \subseteq Nat /\ C # {}
    BY FS_CardinalityType
  <1>2. PICK k \in C : \A j \in C : k <= j
    <2> HIDE DEF C
    <2> QED
      BY <1>1, LeastNat
  <1>3. PICK m \in F : Cardinality(m) = k
    OBVIOUS
  <1>4. \A s \in F : Cardinality(m) <= Cardinality(s)
    BY <1>2, <1>3
  <1>5. ASSUME NEW x \in m PROVE m \ {x} \notin F
    <2>1. IsFiniteSet(m) /\ Cardinality(m) \in Nat
      BY FS_CardinalityType
    <2>2. Cardinality(m \ {x}) = Cardinality(m) - 1
      BY <2>1, FS_RemoveElement
    <2>3. ~(Cardinality(m) <= Cardinality(m) - 1)
      BY <2>1
    <2> QED
      BY <1>4, <2>2, <2>3
  <1> QED
    BY <1>4, <1>5

LEMMA SumExists ==
    ASSUME NEW f, NEW S, IsFiniteSet(S)
    PROVE  \E g : IsSum(g, f, S)
  <1> DEFINE D(k) == {s \in SUBSET S : Cardinality(s) <= k}
             Solves(g, k) == g = [s \in D(k) |-> SumStep(f, s, g)]
             n == Cardinality(S)
             T == {k \in 0 .. n : ~\E g : Solves(g, k)}
  <1>0. n \in Nat /\ \A s \in SUBSET S : IsFiniteSet(s) /\ Cardinality(s) \in Nat /\ Cardinality(s) <= n
    BY FS_CardinalityType, FS_Subset
  <1>1. ASSUME T # {} PROVE FALSE
    <2>1. PICK m \in T : \A k \in T : m <= k
      <3>1. T \subseteq Nat
        BY <1>0
      <3> HIDE DEF T
      <3> QED
        BY <1>1, <3>1, LeastNat
    <2>2. m \in 0 .. n /\ ~\E g : Solves(g, m)
      OBVIOUS
    <2>3. PICK g : m # 0 => Solves(g, m - 1)
      <3>1. CASE m = 0
        BY <3>1
      <3>2. CASE m # 0
        <4>1. m - 1 \in 0 .. n /\ ~(m <= m - 1)
          BY <1>0, <2>2, <3>2
        <4>2. m - 1 \notin T
          BY <2>1, <4>1
        <4> QED
          BY <4>1, <4>2
      <3> QED
        BY <3>1, <3>2
    <2> DEFINE h == [s \in D(m) |-> SumStep(f, s, g)]
    <2>4. ASSUME NEW s \in D(m) PROVE SumStep(f, s, g) = SumStep(f, s, h)
      <3>1. CASE s = {}
        BY <3>1 DEF SumStep
      <3>2. CASE s # {}
        <4> DEFINE t == s \ {Chosen(s)}
        <4>1. Chosen(s) \in s
          BY <3>2 DEF Chosen
        <4>2. s \in SUBSET S /\ IsFiniteSet(s) /\ Cardinality(s) <= m /\ Cardinality(s) \in Nat
          BY <1>0
        <4>3. Cardinality(t) = Cardinality(s) - 1 /\ t \in SUBSET S
          BY <4>1, <4>2, FS_RemoveElement
        <4>4. m # 0 /\ Cardinality(t) <= m - 1 /\ Cardinality(t) <= m
          <5>1. Cardinality(t) \in Nat
            BY <1>0, <4>3
          <5> QED
            BY <2>2, <4>2, <4>3, <5>1
        <4>5. t \in D(m - 1) /\ t \in D(m)
          BY <4>3, <4>4
        <4>6. g[t] = SumStep(f, t, g)
          <5>1. Solves(g, m - 1)
            BY <2>3, <4>4
          <5>2. g = [u \in D(m - 1) |-> SumStep(f, u, g)]
            BY <5>1
          <5> HIDE DEF D, t
          <5> QED
            BY <4>5, <5>2
        <4>7. h[t] = SumStep(f, t, g)
          BY <4>5
        <4> HIDE DEF h
        <4> QED
          BY <3>2, <4>6, <4>7 DEF SumStep
      <3> QED
        BY <3>1, <3>2
    <2>5. h = [s \in D(m) |-> SumStep(f, s, h)]
      <3>1. h = [s \in D(m) |-> SumStep(f, s, g)]
        OBVIOUS
      <3> HIDE DEF h, D
      <3> QED
        BY <2>4, <3>1
    <2>6. Solves(h, m)
      <3> HIDE DEF h
      <3> QED
        BY <2>5
    <2> QED
      BY <2>2, <2>6
  <1>2. PICK g : Solves(g, n)
    <2>1. n \in 0 .. n
      BY <1>0
    <2> HIDE DEF Solves
    <2> QED
      BY <1>1, <2>1
  <1>3. D(n) = SUBSET S
    BY <1>0
  <1>4. g = [s \in SUBSET S |-> SumStep(f, s, g)]
    <2>1. g = [s \in D(n) |-> SumStep(f, s, g)]
      BY <1>2
    <2> HIDE DEF D, n
    <2> QED
      BY <1>3, <2>1
  <1> QED
    BY <1>4 DEF IsSum

LEMMA SumIsSum ==
    ASSUME NEW f, NEW S, IsFiniteSet(S)
    PROVE  \E g : IsSum(g, f, S) /\ SumOf(f, S) = g[S]
  <1>1. SumOf(f, S) = (CHOOSE g : g = [s \in SUBSET S |-> SumStep(f, s, g)])[S]
    BY Zenon DEF SumOf, MapThenSumSet, MapThenFoldSet, SumStep, Chosen
  <1>2. \E g : g = [s \in SUBSET S |-> SumStep(f, s, g)]
    BY SumExists, Zenon DEF IsSum
  <1> QED
    BY <1>1, <1>2, Zenon DEF IsSum

(* The sum of a part of S is what the function for S has for it.           *)
LEMMA SumOfPart ==
    ASSUME NEW f, NEW S, IsFiniteSet(S), NEW g, IsSum(g, f, S), NEW T \in SUBSET S
    PROVE  SumOf(f, T) = g[T]
  <1>1. IsFiniteSet(T)
    BY FS_Subset
  <1>2. PICK h : IsSum(h, f, T) /\ SumOf(f, T) = h[T]
    BY <1>1, SumIsSum
  <1>3. /\ \A s \in SUBSET T : h[s] = SumStep(f, s, h)
        /\ \A s \in SUBSET T : g[s] = SumStep(f, s, g)
    <2>1. h = [s \in SUBSET T |-> SumStep(f, s, h)]
      BY <1>2 DEF IsSum
    <2>2. g = [s \in SUBSET S |-> SumStep(f, s, g)]
      BY DEF IsSum
    <2>3. \A s \in SUBSET T : h[s] = SumStep(f, s, h)
      BY <2>1
    <2>4. \A s \in SUBSET S : g[s] = SumStep(f, s, g)
      BY <2>2
    <2> QED
      BY <2>3, <2>4
  <1> DEFINE F == {s \in SUBSET T : h[s] # g[s]}
  <1>4. ASSUME F # {} PROVE FALSE
    <2>1. \A s \in F : IsFiniteSet(s)
      BY <1>1, FS_Subset
    <2>2. PICK m \in F : \A x \in m : m \ {x} \notin F
      <3> HIDE DEF F
      <3> QED
        BY <1>4, <2>1, SmallestSet
    <2>3. m \in SUBSET T /\ h[m] # g[m]
      OBVIOUS
    <2>4. m # {}
      BY <1>3, <2>3 DEF SumStep
    <2>5. Chosen(m) \in m
      BY <2>4 DEF Chosen
    <2>6. m \ {Chosen(m)} \notin F /\ m \ {Chosen(m)} \in SUBSET T
      BY <2>2, <2>3, <2>5
    <2>7. h[m \ {Chosen(m)}] = g[m \ {Chosen(m)}]
      BY <2>6
    <2> QED
      BY <1>3, <2>3, <2>7 DEF SumStep
  <1> QED
    BY <1>2, <1>4

LEMMA SumWithoutChosen ==
    ASSUME NEW f, NEW S, IsFiniteSet(S)
    PROVE  /\ S = {} => SumOf(f, S) = 0
           /\ S # {} => /\ Chosen(S) \in S
                        /\ SumOf(f, S) = f[Chosen(S)] + SumOf(f, S \ {Chosen(S)})
  <1>1. PICK g : IsSum(g, f, S) /\ SumOf(f, S) = g[S]
    BY SumIsSum
  <1>2. g[S] = SumStep(f, S, g)
    <2>1. g = [s \in SUBSET S |-> SumStep(f, s, g)]
      BY <1>1 DEF IsSum
    <2>2. \A s \in SUBSET S : g[s] = SumStep(f, s, g)
      BY <2>1
    <2> QED
      BY <2>2
  <1>3. SumOf(f, S \ {Chosen(S)}) = g[S \ {Chosen(S)}]
    BY <1>1, SumOfPart
  <1>4. S # {} => Chosen(S) \in S
    BY DEF Chosen
  <1> QED
    BY <1>1, <1>2, <1>3, <1>4 DEF SumStep

(* So any element can be taken from a sum first.                           *)
LEMMA SumWithout ==
    ASSUME NEW f, NEW S, IsFiniteSet(S), \A x \in S : f[x] \in Nat
    PROVE  /\ SumOf(f, S) \in Nat
           /\ \A x \in S : SumOf(f, S) = f[x] + SumOf(f, S \ {x}) /\ SumOf(f, S \ {x}) \in Nat
  <1> DEFINE Taken(s) == \A x \in s : SumOf(f, s) = f[x] + SumOf(f, s \ {x})
             F == {s \in SUBSET S : ~(SumOf(f, s) \in Nat /\ Taken(s))}
  <1>0. \A s \in SUBSET S : IsFiniteSet(s)
    BY FS_Subset
  <1>1. ASSUME F # {} PROVE FALSE
    <2>1. \A s \in F : IsFiniteSet(s)
      BY <1>0
    <2>2. PICK m \in F : /\ \A s \in F : Cardinality(m) <= Cardinality(s)
                          /\ \A x \in m : m \ {x} \notin F
      <3> HIDE DEF F
      <3> QED
        BY <1>1, <2>1, SmallestSet
    <2>3. m \in SUBSET S /\ IsFiniteSet(m) /\ ~(SumOf(f, m) \in Nat /\ Taken(m))
      BY <1>0
    <2>4. m # {}
      <3>1. m = {} => SumOf(f, m) = 0
        BY <2>3, SumWithoutChosen
      <3>2. m = {} => Taken(m)
        OBVIOUS
      <3> HIDE DEF Taken
      <3> QED
        BY <2>3, <3>1, <3>2
    <2> DEFINE c == Chosen(m)
    <2>5. c \in m /\ SumOf(f, m) = f[c] + SumOf(f, m \ {c})
      BY <2>3, <2>4, SumWithoutChosen
    <2> HIDE DEF c
    <2>6. \A x \in m : SumOf(f, m \ {x}) \in Nat /\ Taken(m \ {x}) /\ f[x] \in Nat
      BY <2>2, <2>3
    <2>7. SumOf(f, m) \in Nat
      BY <2>5, <2>6
    <2>8. ASSUME NEW x \in m
          PROVE  SumOf(f, m) = f[x] + SumOf(f, m \ {x})
      <3>1. CASE x = c
        BY <2>5, <3>1
      <3>2. CASE x # c
        <4> DEFINE r == SumOf(f, (m \ {c}) \ {x})
        <4>1. x \in m \ {c} /\ c \in m \ {x} /\ (m \ {x}) \ {c} = (m \ {c}) \ {x}
          BY <2>5, <3>2
        <4>2. SumOf(f, m \ {c}) = f[x] + r
          BY <2>5, <2>6, <4>1
        <4>3. SumOf(f, m \ {x}) = f[c] + r
          BY <2>6, <4>1
        <4>4. r \in Nat
          <5>1. (m \ {c}) \ {x} \in SUBSET S
            BY <2>3
          <5>2. IsFiniteSet(m \ {c}) /\ Cardinality(m) \in Nat
            BY <1>0, <2>3, FS_RemoveElement, FS_CardinalityType
          <5>3. Cardinality((m \ {c}) \ {x}) = Cardinality(m) - 1 - 1
            <6>1. Cardinality(m \ {c}) = Cardinality(m) - 1
              BY <2>3, <2>5, FS_RemoveElement
            <6>2. Cardinality((m \ {c}) \ {x}) = Cardinality(m \ {c}) - 1
              BY <4>1, <5>2, FS_RemoveElement
            <6> QED
              BY <6>1, <6>2
          <5>4. (m \ {c}) \ {x} \notin F
            <6>1. ~(Cardinality(m) <= Cardinality(m) - 1 - 1)
              BY <5>2
            <6> HIDE DEF F
            <6> QED
              BY <2>2, <5>3, <6>1
          <5> QED
            BY <5>1, <5>4
        <4> HIDE DEF r
        <4> QED
          BY <2>5, <2>6, <4>2, <4>3, <4>4
      <3> QED
        BY <3>1, <3>2
    <2> QED
      BY <2>3, <2>7, <2>8
  <1>2. SumOf(f, S) \in Nat /\ Taken(S)
    BY <1>1
  <1>3. ASSUME NEW x \in S PROVE SumOf(f, S \ {x}) \in Nat
    <2>1. S \ {x} \in SUBSET S
      OBVIOUS
    <2> QED
      BY <1>1, <2>1
  <1> QED
    BY <1>2, <1>3

(* What a sum is of may change elsewhere, and elements that are 0 be added. *)
LEMMA SumOfSame ==
    ASSUME NEW f, NEW g, NEW S, IsFiniteSet(S), \A x \in S : f[x] \in Nat /\ g[x] = f[x]
    PROVE  SumOf(g, S) = SumOf(f, S)
  <1> DEFINE F == {s \in SUBSET S : SumOf(g, s) # SumOf(f, s)}
  <1>0. \A s \in SUBSET S : IsFiniteSet(s)
    BY FS_Subset
  <1>1. ASSUME F # {} PROVE FALSE
    <2>1. PICK m \in F : \A x \in m : m \ {x} \notin F
      <3>1. \A s \in F : IsFiniteSet(s)
        BY <1>0
      <3> HIDE DEF F
      <3> QED
        BY <1>1, <3>1, SmallestSet
    <2>2. m \in SUBSET S /\ IsFiniteSet(m) /\ SumOf(g, m) # SumOf(f, m)
      BY <1>0
    <2>3. m # {}
      BY <2>2, SumWithoutChosen
    <2> DEFINE c == Chosen(m)
    <2>4. c \in m /\ SumOf(f, m) = f[c] + SumOf(f, m \ {c}) /\ SumOf(g, m) = g[c] + SumOf(g, m \ {c})
      BY <2>2, <2>3, SumWithoutChosen
    <2> HIDE DEF c
    <2>5. SumOf(g, m \ {c}) = SumOf(f, m \ {c}) /\ g[c] = f[c]
      BY <2>1, <2>2, <2>4
    <2> QED
      BY <2>2, <2>4, <2>5
  <1> QED
    BY <1>1

LEMMA SumWithZeros ==
    ASSUME NEW f, NEW S, NEW T, IsFiniteSet(T), S \subseteq T,
           \A x \in T : f[x] \in Nat, \A x \in T \ S : f[x] = 0
    PROVE  SumOf(f, T) = SumOf(f, S)
  <1> DEFINE F == {s \in SUBSET T : S \subseteq s /\ SumOf(f, s) # SumOf(f, S)}
  <1>0. \A s \in SUBSET T : IsFiniteSet(s)
    BY FS_Subset
  <1>1. ASSUME F # {} PROVE FALSE
    <2>1. PICK m \in F : \A x \in m : m \ {x} \notin F
      <3>1. \A s \in F : IsFiniteSet(s)
        BY <1>0
      <3> HIDE DEF F
      <3> QED
        BY <1>1, <3>1, SmallestSet
    <2>2. m \in SUBSET T /\ IsFiniteSet(m) /\ S \subseteq m /\ SumOf(f, m) # SumOf(f, S)
      BY <1>0
    <2>3. PICK x \in m : x \notin S
      BY <2>2
    <2>4. SumOf(f, m) = f[x] + SumOf(f, m \ {x}) /\ SumOf(f, m \ {x}) \in Nat
      BY <2>2, SumWithout
    <2>5. f[x] = 0 /\ SumOf(f, m \ {x}) = SumOf(f, S)
      BY <2>1, <2>2, <2>3
    <2> QED
      BY <2>2, <2>4, <2>5
  <1> QED
    BY <1>1

LEMMA SumGrows ==
    ASSUME NEW f, NEW g, NEW S, IsFiniteSet(S), \A x \in S : f[x] \in Nat,
           NEW n \in S, g[n] = f[n] + 1, \A x \in S \ {n} : g[x] = f[x]
    PROVE  SumOf(g, S) = SumOf(f, S) + 1
  <1>1. IsFiniteSet(S \ {n}) /\ \A x \in S : g[x] \in Nat
    BY FS_RemoveElement
  <1>2. /\ SumOf(f, S) = f[n] + SumOf(f, S \ {n}) /\ SumOf(f, S \ {n}) \in Nat
        /\ SumOf(g, S) = g[n] + SumOf(g, S \ {n})
    BY <1>1, SumWithout
  <1>3. SumOf(g, S \ {n}) = SumOf(f, S \ {n})
    BY <1>1, SumOfSame
  <1> QED
    BY <1>2, <1>3

-----------------------------------------------------------------------------
(* The records of a switcher.                                              *)

PoolsOf(p) == {n \in PoolNodes : n[1] = p}
Kids(p) == {n \in PoolsOf(p) : listeners[n] # {}}
IsOnWay(v, n, p) == v \in {Reads(n), Calls(SwitcherNode(p))}
OnWay(r, p) == {n \in PoolsOf(p) : IsOnWay(r[n], n, p)}
AddsUp(t, r, p) ==
    t[SwitcherNode(p)] + Cardinality(OnWay(r, p)) = SumOf(t, Kids(p))
AllAddUp == \A p \in PowTypes : AddsUp(total, report, p)

LEMMA PoolsAreFinite ==
    ASSUME NEW p
    PROVE  IsFiniteSet(PoolsOf(p))
  <1> DEFINE f == [n \in PoolsOf(p) |-> n[2]]
  <1>1. \A n \in PoolsOf(p) : n[2] \in 1 .. MaxPools /\ n = <<p, n[2]>>
    BY DEF PoolsOf, PoolNodes
  <1>2. f \in [PoolsOf(p) -> 1 .. MaxPools]
    BY <1>1
  <1>3. \A a, b \in PoolsOf(p) : f[a] = f[b] => a = b
    <2>1. ASSUME NEW a \in PoolsOf(p), NEW b \in PoolsOf(p), a[2] = b[2]
          PROVE  a = b
      BY <1>1, <2>1
    <2> QED
      BY <2>1
  <1> HIDE DEF f
  <1>4. f \in Injection(PoolsOf(p), 1 .. MaxPools)
    BY <1>2, <1>3 DEF Injection, IsInjective
  <1>5. IsFiniteSet(1 .. MaxPools)
    BY ApplicationAssumption, FS_Interval
  <1> QED
    BY <1>4, <1>5, FS_Injection

LEMMA ChildrenAreKids ==
    ASSUME RecordsInv, NEW p \in PowTypes
    PROVE  /\ Stats!Children(SwitcherNode(p)) = Kids(p)
           /\ Stats!OnTheirWay(SwitcherNode(p)) = OnWay(report, p)
  <1> DEFINE s == SwitcherNode(p)
  <1>1. ASSUME NEW n \in RecordNodes
        PROVE  s \in listeners[n] <=> n \in Kids(p)
    <2>1. CASE n \in PoolNodes
      <3>1. s = SwitcherNode(n[1]) <=> n[1] = p
        BY DEF SwitcherNode
      <3> HIDE DEF s
      <3>2. listeners[n] \in {{}, {SwitcherNode(n[1])}}
        BY <2>1 DEF RecordsInv
      <3> QED
        BY <2>1, <3>1, <3>2 DEF Kids, PoolsOf
    <2>2. CASE n \notin PoolNodes
      <3>1. n[1] \in PowTypes /\ n = SwitcherNode(n[1])
        BY <2>2, ApplicationAssumption DEF RecordNodes, PoolNodes, SwitcherNode
      <3>2. listeners[n] = {}
        BY <3>1 DEF RecordsInv
      <3> QED
        BY <2>2, <3>2 DEF Kids, PoolsOf
    <2> QED
      BY <2>1, <2>2
  <1>2. Kids(p) \subseteq RecordNodes
    BY Nodes DEF Kids, PoolsOf
  <1>3. Stats!Children(s) = Kids(p)
    BY <1>1, <1>2 DEF Stats!Children
  <1>4. ASSUME NEW n \in PoolNodes
        PROVE  s \in listeners[n] /\ (n \in report[n].toRead \/ s \in report[n].toCall)
                   <=> n \in OnWay(report, p)
    <2>0. n \in RecordNodes /\ NodeOfPool[n] = n /\ s \notin PoolNodes /\ n # s
      BY Nodes
    <2>1. CASE n[1] = p
      <3>1. report[n] \in {Stats!Idle, Calls(n), Reads(n), Calls(s), Reads(s)}
        BY <2>1, StageIs DEF RecordsInv
      <3>2. s \in listeners[n] \/ report[n] = Stats!Idle
        BY <2>1 DEF RecordsInv
      <3> HIDE DEF s
      <3>3. n \in report[n].toRead \/ s \in report[n].toCall <=> report[n] \in {Reads(n), Calls(s)}
        BY <2>0, <3>1 DEF Stats!Idle, Calls, Reads
      <3>4. report[n] = Stats!Idle => report[n] \notin {Reads(n), Calls(s)}
        BY DEF Stats!Idle, Calls, Reads
      <3>5. n \in OnWay(report, p) <=> report[n] \in {Reads(n), Calls(s)}
        BY <2>1 DEF OnWay, IsOnWay, PoolsOf, s
      <3> QED
        BY <3>2, <3>3, <3>4, <3>5
    <2>2. CASE n[1] # p
      <3>1. n \notin OnWay(report, p) /\ n \notin Kids(p)
        BY <2>2 DEF OnWay, Kids, PoolsOf
      <3> QED
        BY <1>1, <2>0, <3>1
    <2> QED
      BY <2>1, <2>2
  <1>5. Stats!OnTheirWay(s) = OnWay(report, p)
    <2>1. OnWay(report, p) \subseteq PoolNodes
      BY DEF OnWay, PoolsOf
    <2>2. \A n \in PoolNodes : NodeOfPool[n] = n
      BY Nodes
    <2> HIDE DEF s
    <2>3. Stats!OnTheirWay(s) =
             {n \in PoolNodes : s \in listeners[n] /\ (n \in report[n].toRead \/ s \in report[n].toCall)}
      BY <2>2 DEF Stats!OnTheirWay
    <2> QED
      BY <1>4, <2>1, <2>3
  <1> QED
    BY <1>3, <1>5

(* Statistics has its own copies of these operators.                       *)
LEMMA SameOperators ==
    ASSUME NEW S
    PROVE  /\ Stats!MapThenSumSet(LAMBDA n : total[n], S) = SumOf(total, S)
           /\ Stats!Cardinality(S) = Cardinality(S)
  <1>1. Stats!MapThenSumSet(LAMBDA n : total[n], S) = SumOf(total, S)
    BY Zenon DEF SumOf, MapThenSumSet, MapThenFoldSet, Stats!MapThenSumSet, Stats!MapThenFoldSet
  <1>2. Stats!Cardinality(S) = Cardinality(S)
    BY Zenon DEF Cardinality, Stats!Cardinality
  <1> QED
    BY <1>1, <1>2

LEMMA AllAddUpIsEnough ==
    ASSUME RecordsInv, AllAddUp
    PROVE  RecordsAddUp
  <1>1. ASSUME NEW parent \in RecordNodes, Stats!Children(parent) # {}
        PROVE  total[parent] + Cardinality(Stats!OnTheirWay(parent))
                   = SumOf(total, Stats!Children(parent))
    <2>1. PICK n \in RecordNodes : parent \in listeners[n]
      BY <1>1 DEF Stats!Children
    <2>2. PICK p \in PowTypes : parent = SwitcherNode(p)
      <3>1. CASE n \in PoolNodes
        BY <2>1, <3>1, Nodes DEF RecordsInv
      <3>2. CASE n \notin PoolNodes
        <4>1. n[1] \in PowTypes /\ n = SwitcherNode(n[1])
          BY <3>2, ApplicationAssumption DEF RecordNodes, PoolNodes, SwitcherNode
        <4> QED
          BY <2>1, <4>1 DEF RecordsInv
      <3> QED
        BY <3>1, <3>2
    <2>3. total[parent] + Cardinality(OnWay(report, p)) = SumOf(total, Kids(p))
      BY <2>2 DEF AllAddUp, AddsUp
    <2> QED
      BY <2>2, <2>3, ChildrenAreKids
  <1>2. \A parent \in RecordNodes : Stats!Children(parent) # {} =>
           total[parent] + Stats!Cardinality(Stats!OnTheirWay(parent))
               = Stats!MapThenSumSet(LAMBDA n : total[n], Stats!Children(parent))
    BY <1>1, SameOperators, Zenon
  <1>3. Stats!ParentsAddUp
    BY <1>2, Zenon DEF Stats!ParentsAddUp
  <1> QED
    BY <1>3 DEF RecordsAddUp

(* What is on its way for p changes with the report of n only.             *)
LEMMA OnWayOfOthers ==
    ASSUME NEW r, NEW x, NEW n \in PoolNodes, \A m \in PoolNodes \ {n} : x[m] = r[m], NEW p, n[1] # p
    PROVE  OnWay(x, p) = OnWay(r, p)
  <1>1. \A m \in PoolsOf(p) : x[m] = r[m]
    BY DEF PoolsOf
  <1> QED
    BY <1>1 DEF OnWay

SameBut(x, r, n) == \A m \in PoolNodes \ {n} : x[m] = r[m]
LEMMA OnWayGainsOrLoses ==
    ASSUME NEW r, NEW x, NEW n \in PoolNodes, SameBut(x, r, n), NEW p, n[1] = p
    PROVE  OnWay(x, p) = IF IsOnWay(x[n], n, p) THEN OnWay(r, p) \cup {n} ELSE OnWay(r, p) \ {n}
  <1>1. \A m \in PoolsOf(p) : m # n => (m \in OnWay(x, p) <=> m \in OnWay(r, p))
    BY DEF OnWay, PoolsOf, SameBut
  <1>2. OnWay(x, p) \subseteq PoolsOf(p) /\ OnWay(r, p) \subseteq PoolsOf(p) /\ n \in PoolsOf(p)
    BY DEF OnWay, PoolsOf
  <1>3. n \in OnWay(x, p) <=> IsOnWay(x[n], n, p)
    BY <1>2 DEF OnWay
  <1> QED
    BY <1>1, <1>2, <1>3

LEMMA ReportsAddUp ==
    ASSUME RecordsInv, NEW n \in PoolNodes, PoolExists(n), ReportSteps(n),
           NEW p \in PowTypes, AddsUp(total, report, p)
    PROVE  AddsUp(total', report', p)
  <1> DEFINE s == SwitcherNode(p)
             W == OnWay(report, p)
             X == OnWay(report', p)
             K == Kids(p)
  <1>0. /\ DOMAIN report = PoolNodes /\ s \in RecordNodes /\ n \in RecordNodes
        /\ total \in [RecordNodes -> Nat] /\ K \subseteq RecordNodes
        /\ SwitcherNode(n[1]) \in RecordNodes /\ n[1] \in PowTypes
        /\ K \subseteq PoolNodes /\ s \notin PoolNodes
        /\ SwitcherNode(n[1]) = s <=> n[1] = p
    <2>1. K \subseteq PoolNodes
      BY DEF Kids, PoolsOf
    <2>2. SwitcherNode(n[1]) = s <=> n[1] = p
      BY DEF SwitcherNode
    <2>3. s \in RecordNodes
      BY ApplicationAssumption DEF SwitcherNode, RecordNodes
    <2> QED
      BY <2>1, <2>2, <2>3, Nodes DEF RecordsInv
  <1>1. IsFiniteSet(K) /\ (n \in K <=> n[1] = p) /\ (\A k \in K : k # s /\ total[k] \in Nat)
    <2>1. K \in SUBSET PoolsOf(p) /\ (n \in PoolsOf(p) <=> n[1] = p)
      BY DEF Kids, PoolsOf
    <2>2. listeners[n] # {}
      BY DEF RecordsInv
    <2>3. IsFiniteSet(K)
      BY <2>1, PoolsAreFinite, FS_Subset
    <2>4. n \in K <=> n[1] = p
      BY <2>1, <2>2 DEF Kids
    <2> HIDE DEF K
    <2> QED
      BY <1>0, <2>3, <2>4
  <1>2. SumOf(total, K) \in Nat /\ total[s] \in Nat
    BY <1>0, <1>1, SumWithout
  <1>3. IsFiniteSet(W) /\ Cardinality(W) \in Nat
    <2>1. W \in SUBSET PoolsOf(p)
      BY DEF OnWay
    <2>2. IsFiniteSet(W)
      BY <2>1, PoolsAreFinite, FS_Subset
    <2> QED
      BY <2>2, FS_CardinalityType
  <1>4. total[s] + Cardinality(W) = SumOf(total, K)
    BY DEF AddsUp
  <1>5. SUFFICES total'[s] + Cardinality(X) = SumOf(total', K)
    BY DEF AddsUp
  <1>6. CASE UNCHANGED <<total, report>>
    BY <1>4, <1>6
  <1>7. CASE n[1] # p /\ ~UNCHANGED <<total, report>>
    <2>1. PICK v : report' = [report EXCEPT ![n] = v]
      BY <1>7 DEF ReportSteps
    <2>2. X = W
      <3> DEFINE r == report
                 x == report'
      <3>1. \A m \in PoolNodes \ {n} : x[m] = r[m]
        BY <1>0, <2>1
      <3> HIDE DEF r, x
      <3>2. OnWay(x, p) = OnWay(r, p)
        BY <1>7, <3>1, OnWayOfOthers
      <3> QED
        BY <1>7, <3>2 DEF r, x
    <2>3. total'[s] = total[s] /\ \A k \in K : total'[k] = total[k]
      <3>1. \A k \in K : k # n /\ k # SwitcherNode(n[1])
        BY <1>0, <1>1, <1>7, Nodes
      <3>2. s # n /\ s # SwitcherNode(n[1])
        BY <1>0, <1>7
      <3> HIDE DEF s, K
      <3> QED
        BY <1>0, <3>1, <3>2 DEF ReportSteps
    <2>4. SumOf(total', K) = SumOf(total, K)
      BY <1>1, <2>3, SumOfSame
    <2> QED
      BY <1>4, <2>2, <2>3, <2>4
  <1>8. CASE n[1] = p /\ ~UNCHANGED <<total, report>>
    <2>0. /\ ~IsOnWay(Stats!Idle, n, p) /\ ~IsOnWay(Calls(n), n, p) /\ ~IsOnWay(Reads(s), n, p)
          /\ IsOnWay(Reads(n), n, p) /\ IsOnWay(Calls(s), n, p)
      BY <1>8, StagesDiffer DEF IsOnWay
    <2>1. n \in K /\ n # s
      BY <1>0, <1>1, <1>8
    <2>2. n \in W <=> IsOnWay(report[n], n, p)
      BY <1>8 DEF OnWay, PoolsOf
    <2>3. ASSUME NEW v, report' = [report EXCEPT ![n] = v]
          PROVE  X = IF IsOnWay(v, n, p) THEN W \cup {n} ELSE W \ {n}
      <3> DEFINE r == report
                 x == report'
      <3>1. x[n] = v /\ SameBut(x, r, n)
        BY <1>0, <2>3 DEF SameBut
      <3> HIDE DEF r, x
      <3>2. OnWay(x, p) = IF IsOnWay(x[n], n, p) THEN OnWay(r, p) \cup {n} ELSE OnWay(r, p) \ {n}
        BY <1>8, <3>1, OnWayGainsOrLoses
      <3> QED
        BY <3>1, <3>2 DEF r, x
    <2>4. /\ Cardinality(W \cup {n}) = IF n \in W THEN Cardinality(W) ELSE Cardinality(W) + 1
          /\ Cardinality(W \ {n}) = IF n \in W THEN Cardinality(W) - 1 ELSE Cardinality(W)
      BY <1>3, FS_AddElement, FS_RemoveElement
    <2>5. SwitcherNode(n[1]) = s
      BY <1>8
    <2> HIDE DEF s, W, X, K
    <2>6. CASE /\ report[n] = Stats!Idle /\ report' = [report EXCEPT ![n] = Calls(n)]
               /\ UNCHANGED total
      <3>1. X = W \ {n} /\ n \notin W
        BY <2>0, <2>2, <2>3, <2>6
      <3>2. X = W
        BY <3>1
      <3> QED
        BY <1>4, <2>6, <3>2
    <2>7. CASE /\ report[n] = Calls(n) /\ report' = [report EXCEPT ![n] = Reads(n)]
               /\ total' = [total EXCEPT ![n] = @ + 1]
      <3>1. X = W \cup {n} /\ n \notin W
        BY <2>0, <2>2, <2>3, <2>7
      <3>2. Cardinality(X) = Cardinality(W) + 1
        BY <2>4, <3>1
      <3>3. total'[s] = total[s] /\ total'[n] = total[n] + 1 /\ \A k \in K \ {n} : total'[k] = total[k]
        BY <1>0, <2>1, <2>7
      <3>4. SumOf(total', K) = SumOf(total, K) + 1
        BY <1>1, <2>1, <3>3, SumGrows
      <3> QED
        BY <1>2, <1>3, <1>4, <3>2, <3>3, <3>4
    <2>8. CASE /\ report[n] = Reads(n) /\ report' = [report EXCEPT ![n] = Calls(s)]
               /\ UNCHANGED total
      <3>1. X = W \cup {n} /\ n \in W
        BY <2>0, <2>2, <2>3, <2>8
      <3>2. X = W
        BY <3>1
      <3> QED
        BY <1>4, <2>8, <3>2
    <2>9. CASE /\ report[n] = Calls(s) /\ report' = [report EXCEPT ![n] = Reads(s)]
               /\ total' = [total EXCEPT ![s] = @ + 1]
      <3>1. X = W \ {n} /\ n \in W
        BY <2>0, <2>2, <2>3, <2>9
      <3>2. Cardinality(X) = Cardinality(W) - 1
        BY <2>4, <3>1
      <3>3. total'[s] = total[s] + 1 /\ \A k \in K : total'[k] = total[k]
        BY <1>0, <1>1, <2>9
      <3>4. SumOf(total', K) = SumOf(total, K)
        BY <1>1, <3>3, SumOfSame
      <3> QED
        BY <1>2, <1>3, <1>4, <3>2, <3>3, <3>4
    <2>10. CASE /\ report[n] = Reads(s) /\ report' = [report EXCEPT ![n] = Stats!Idle]
                /\ UNCHANGED total
      <3>1. X = W \ {n} /\ n \notin W
        BY <2>0, <2>2, <2>3, <2>10
      <3>2. X = W
        BY <3>1
      <3> QED
        BY <1>4, <2>10, <3>2
    <2> QED
      BY <1>8, <2>5, <2>6, <2>7, <2>8, <2>9, <2>10 DEF ReportSteps
  <1> QED
    BY <1>6, <1>7, <1>8

LEMMA AddingAddsUp ==
    ASSUME RecordsInv, AddPools, NEW p \in PowTypes, AddsUp(total, report, p)
    PROVE  AddsUp(total, report, p)'
  <1> DEFINE powType == powTypeOfAlgoImpl(Current)
             before == IF powType \in DOMAIN poolSwitchers THEN poolSwitchers[powType] ELSE 0
             after == before + Cardinality(PoolsToAdd(config, powType))
             added == before + 1 .. after
             K == Kids(p)
             L == {n \in PoolsOf(p) : listeners'[n] # {}}
  <1>1. ConnectRecords(powType, added) /\ UNCHANGED <<total, report>>
    <2>1. ConnectRecords(powType, before + 1 .. after) /\ total' = total /\ report' = report
      BY Zenon DEF AddPools
    <2> QED
      BY <2>1
  <1> HIDE DEF powType, before, after, added
  <1>2. ASSUME NEW n \in PoolNodes
        PROVE  /\ listeners[n] # {} => listeners'[n] # {}
               /\ listeners[n] = {} => total[n] = 0
               /\ total[n] \in Nat
    <2>1. listeners'[n] \in {listeners[n], {SwitcherNode(powType)}}
      BY <1>1, Nodes DEF ConnectRecords, RecordsInv
    <2> QED
      BY <2>1, Nodes DEF RecordsInv
  <1>3. K \subseteq L /\ L \in SUBSET PoolsOf(p) /\ PoolsOf(p) \subseteq PoolNodes
    BY <1>2 DEF Kids, PoolsOf
  <1>4. IsFiniteSet(L)
    BY <1>3, PoolsAreFinite, FS_Subset
  <1>5. \A n \in L : total[n] \in Nat /\ (n \notin K => total[n] = 0)
    BY <1>2, <1>3 DEF Kids
  <1>6. SumOf(total, L) = SumOf(total, K)
    <2> HIDE DEF K, L
    <2> QED
      BY <1>3, <1>4, <1>5, SumWithZeros
  <1>7. Kids(p)' = L /\ OnWay(report, p)' = OnWay(report, p)
    BY <1>1 DEF Kids, OnWay
  <1>8. total[SwitcherNode(p)] + Cardinality(OnWay(report, p)) = SumOf(total, K)
    BY DEF AddsUp
  <1> HIDE DEF K, L
  <1> QED
    BY <1>1, <1>6, <1>7, <1>8 DEF AddsUp

(* Each share of a pool is counted once by its switcher, or is on its way  *)
(* to it, whatever the threads of the pools do at the same time.           *)
THEOREM RecordsOfPoolsAddUp == Spec => []RecordsAddUp
  <1>1. Init => AllAddUp
    <2> SUFFICES ASSUME Init, NEW p \in PowTypes PROVE AddsUp(total, report, p)
      BY DEF AllAddUp
    <2>1. /\ total = [n \in RecordNodes |-> 0] /\ listeners = [n \in RecordNodes |-> {}]
          /\ report = [n \in PoolNodes |-> Stats!Idle]
      BY DEF Init, Stats!StatInit
    <2>2. Kids(p) = {}
      BY <2>1, Nodes DEF Kids, PoolsOf
    <2>3. OnWay(report, p) = {}
      <3>1. ASSUME NEW n \in PoolsOf(p)
            PROVE  ~IsOnWay(report[n], n, p)
        <4>1. n \in PoolNodes /\ n[1] = p
          BY DEF PoolsOf
        <4> QED
          BY <2>1, <4>1, StagesDiffer DEF IsOnWay
      <3> QED
        BY <3>1 DEF OnWay
    <2>4. SumOf(total, {}) = 0 /\ Cardinality({}) = 0
      BY FS_EmptySet, SumWithoutChosen
    <2>5. total[SwitcherNode(p)] = 0
      BY <2>1, ApplicationAssumption DEF SwitcherNode, RecordNodes
    <2> QED
      BY <2>2, <2>3, <2>4, <2>5 DEF AddsUp
  <1>2. AppInv /\ AllAddUp /\ [Next]_vars => AllAddUp'
    <2> SUFFICES ASSUME AppInv, AllAddUp, [Next]_vars, NEW p \in PowTypes
                 PROVE  AddsUp(total, report, p)'
      BY DEF AllAddUp
    <2>1. RecordsInv /\ AddsUp(total, report, p)
      BY PartsOfInvariant DEF AllAddUp
    <2>2. CASE AddPools
      BY <2>1, <2>2, AddingAddsUp
    <2>3. CASE PoolStep
      <3>1. PICK n \in PoolNodes : PoolExists(n) /\ ReportSteps(n)
        BY <2>1, <2>3, PoolSteps
      <3>2. listeners' = listeners
        BY <2>1, <2>3, PoolSteps
      <3>3. AddsUp(total', report', p)
        BY <2>1, <3>1, ReportsAddUp
      <3>4. Kids(p)' = Kids(p)
        BY <3>2 DEF Kids
      <3> QED
        BY <3>3, <3>4 DEF AddsUp, OnWay
    <2>4. CASE ~AddPools /\ ~PoolStep
      <3>1. UNCHANGED <<total, listeners, report>>
        BY <2>4, OtherStepsKeepStatistics DEF statVars
      <3> QED
        BY <2>1, <3>1 DEF AddsUp, OnWay, Kids
    <2> QED
      BY <2>2, <2>3, <2>4
  <1>3. AppInv /\ AllAddUp => RecordsAddUp
    BY PartsOfInvariant, AllAddUpIsEnough
  <1> QED
    BY <1>1, <1>2, <1>3, ApplicationInvariant, PTL DEF Spec

-----------------------------------------------------------------------------
(* The task of a device: FoldLeft, by the equation of the function in its  *)
(* definition, comes to the first task for the device, and without one to  *)
(* the last for all that remain.                                           *)

IsMine(d, task) == task.on = "index" /\ task.device = d
IsForRest(task) == task.on = "remaining"

Mine(d, s, r) == {i \in r : IsMine(d, s[i])}
Rest(s, r) == {i \in r : IsForRest(s[i])}

Undecided == [task |-> None, final |-> FALSE]
ChoiceStep(d, s, r, g) ==
    IF r = {} THEN Undecided ELSE TakeTask(d, g[r \ {Max(r)}], s[Max(r)])
IsChoice(g, d, s) == g = [r \in SUBSET DOMAIN s |-> ChoiceStep(d, s, r, g)]

ChoiceOf(d, s, r) ==
    IF Mine(d, s, r) # {} THEN [task |-> s[Min(Mine(d, s, r))], final |-> TRUE]
    ELSE IF Rest(s, r) # {} THEN [task |-> s[Max(Rest(s, r))], final |-> FALSE]
    ELSE Undecided

LEMMA LeastOfSet ==
    ASSUME NEW n \in Nat, NEW I \in SUBSET (1 .. n), I # {}
    PROVE  Min(I) \in I /\ \A j \in I : Min(I) <= j
  <1>1. I \subseteq Nat
    OBVIOUS
  <1>2. \E i \in I : \A j \in I : i <= j
    BY <1>1, LeastNat
  <1> QED
    BY <1>2, Zenon DEF Min

LEMMA GreatestOfSet ==
    ASSUME NEW n \in Nat, NEW I \in SUBSET (1 .. n), I # {}
    PROVE  Max(I) \in I /\ \A j \in I : j <= Max(I)
  <1> DEFINE T == {n - i : i \in I}
  <1>1. T \subseteq Nat /\ T # {}
    <2>1. \A i \in I : n - i \in Nat
      OBVIOUS
    <2> QED
      BY <2>1
  <1>2. PICK m \in T : \A k \in T : m <= k
    <2> HIDE DEF T
    <2> QED
      BY <1>1, LeastNat
  <1>3. PICK i \in I : m = n - i
    OBVIOUS
  <1>4. \A j \in I : j <= i
    <2> TAKE j \in I
    <2>1. n - j \in T /\ i \in 1 .. n /\ j \in 1 .. n
      OBVIOUS
    <2>2. n - i <= n - j
      BY <1>2, <1>3, <2>1
    <2> QED
      BY <2>1, <2>2
  <1>5. \E x \in I : \A y \in I : x >= y
    <2>1. \A j \in I : i >= j
      BY <1>4
    <2> QED
      BY <2>1
  <1>6. Max(I) \in I /\ \A y \in I : Max(I) >= y
    BY <1>5, Zenon DEF Max
  <1> QED
    BY <1>6

LEMMA MinIs ==
    ASSUME NEW n \in Nat, NEW I \in SUBSET (1 .. n), NEW i \in I, \A j \in I : i <= j
    PROVE  Min(I) = i
  <1>1. Min(I) \in I /\ Min(I) <= i /\ i <= Min(I) /\ i \in 1 .. n /\ Min(I) \in 1 .. n
    BY LeastOfSet
  <1> QED
    BY <1>1

LEMMA MaxIs ==
    ASSUME NEW n \in Nat, NEW I \in SUBSET (1 .. n), NEW i \in I, \A j \in I : j <= i
    PROVE  Max(I) = i
  <1>1. Max(I) \in I /\ Max(I) <= i /\ i <= Max(I) /\ i \in 1 .. n /\ Max(I) \in 1 .. n
    BY GreatestOfSet
  <1> QED
    BY <1>1

LEMMA TaskReplaced ==
    ASSUME NEW x, NEW y, NEW b
    PROVE  [[task |-> x, final |-> b] EXCEPT !.task = y] = [task |-> y, final |-> b]
  OBVIOUS

(* One more task.                                                          *)
LEMMA ChoiceTakes ==
    ASSUME NEW d, NEW n \in Nat, NEW s, NEW r \in SUBSET (1 .. n), r # {}
    PROVE  ChoiceOf(d, s, r) = TakeTask(d, ChoiceOf(d, s, r \ {Max(r)}), s[Max(r)])
  <1> DEFINE m == Max(r)
             q == r \ {m}
  <1>1. m \in r /\ m \in 1 .. n /\ \A j \in r : j <= m
    BY GreatestOfSet
  <1>2. q \in SUBSET (1 .. n) /\ \A j \in q : j < m
    <2>1. q \in SUBSET (1 .. n) /\ \A j \in q : j <= m /\ j # m /\ j \in 1 .. n
      BY <1>1
    <2> HIDE DEF q, m
    <2>2. \A j \in q : j < m
      BY <1>1, <2>1
    <2> QED
      BY <2>1, <2>2
  <1>3. /\ Mine(d, s, r) = Mine(d, s, q) \cup (IF IsMine(d, s[m]) THEN {m} ELSE {})
        /\ Rest(s, r) = Rest(s, q) \cup (IF IsForRest(s[m]) THEN {m} ELSE {})
        /\ Mine(d, s, q) \in SUBSET (1 .. n) /\ Rest(s, q) \in SUBSET (1 .. n)
        /\ Mine(d, s, q) \subseteq q /\ Rest(s, q) \subseteq q
    BY <1>1 DEF Mine, Rest
  <1>4. ~(IsMine(d, s[m]) /\ IsForRest(s[m]))
    BY DEF IsMine, IsForRest
  <1> HIDE DEF m, q
  <1>5. CASE Mine(d, s, q) # {}
    <2>1. /\ Min(Mine(d, s, q)) \in Mine(d, s, q) /\ Min(Mine(d, s, q)) \in 1 .. n
          /\ \A j \in Mine(d, s, q) : Min(Mine(d, s, q)) <= j
      BY <1>3, <1>5, LeastOfSet
    <2>2. Min(Mine(d, s, q)) <= m
      BY <1>1, <1>2, <1>3, <2>1
    <2>3. Mine(d, s, r) \in SUBSET (1 .. n) /\ Min(Mine(d, s, q)) \in Mine(d, s, r)
      BY <1>1, <1>3, <2>1
    <2>4. \A j \in Mine(d, s, r) : Min(Mine(d, s, q)) <= j
      BY <1>3, <2>1, <2>2
    <2>5. Min(Mine(d, s, r)) = Min(Mine(d, s, q))
      BY <2>3, <2>4, MinIs
    <2> QED
      BY <1>5, <2>3, <2>5 DEF ChoiceOf, TakeTask, m, q
  <1>6. CASE Mine(d, s, q) = {} /\ IsMine(d, s[m])
    <2>1. Mine(d, s, r) = {m}
      BY <1>3, <1>6
    <2>2. Min({m}) = m
      <3>1. {m} \in SUBSET (1 .. n) /\ m \in {m} /\ \A j \in {m} : m <= j
        BY <1>1
      <3> QED
        BY <3>1, MinIs
    <2>3. ChoiceOf(d, s, r) = [task |-> s[m], final |-> TRUE]
      BY <2>1, <2>2 DEF ChoiceOf
    <2>4. ChoiceOf(d, s, q).final = FALSE
      BY <1>6 DEF ChoiceOf, Undecided
    <2> QED
      BY <1>6, <2>3, <2>4 DEF TakeTask, IsMine, m, q
  <1>7. CASE Mine(d, s, q) = {} /\ IsForRest(s[m])
    <2>1. Mine(d, s, r) = {} /\ Rest(s, r) = Rest(s, q) \cup {m} /\ ~IsMine(d, s[m])
      BY <1>3, <1>4, <1>7
    <2>2. Max(Rest(s, r)) = m
      <3>1. Rest(s, r) \in SUBSET (1 .. n) /\ m \in Rest(s, r)
        BY <1>1, <1>3, <2>1
      <3>2. \A j \in Rest(s, r) : j <= m
        BY <1>1, <1>2, <1>3, <2>1
      <3> QED
        BY <3>1, <3>2, MaxIs
    <2>3. ChoiceOf(d, s, r) = [task |-> s[m], final |-> FALSE]
      BY <2>1, <2>2 DEF ChoiceOf
    <2>4. PICK x, b : ChoiceOf(d, s, q) = [task |-> x, final |-> b] /\ b = FALSE
      BY <1>7 DEF ChoiceOf, Undecided
    <2>5. [[task |-> x, final |-> b] EXCEPT !.task = s[m]] = [task |-> s[m], final |-> b]
      BY TaskReplaced
    <2>6. /\ ChoiceOf(d, s, q).final = FALSE
          /\ [ChoiceOf(d, s, q) EXCEPT !.task = s[m]] = [task |-> s[m], final |-> FALSE]
      BY <2>4, <2>5
    <2> QED
      BY <1>7, <2>1, <2>3, <2>6 DEF TakeTask, IsMine, IsForRest, m, q
  <1>8. CASE Mine(d, s, q) = {} /\ ~IsMine(d, s[m]) /\ ~IsForRest(s[m])
    <2>1. Mine(d, s, r) = {} /\ Rest(s, r) = Rest(s, q)
      BY <1>3, <1>8
    <2>2. ChoiceOf(d, s, r) = ChoiceOf(d, s, q) /\ ChoiceOf(d, s, q).final = FALSE
      BY <1>8, <2>1 DEF ChoiceOf, Undecided
    <2> QED
      BY <1>8, <2>2 DEF TakeTask, IsMine, IsForRest, m, q
  <1> QED
    BY <1>5, <1>6, <1>7, <1>8

LEMMA ChoiceIsTaken ==
    ASSUME NEW d, NEW s, NEW n \in Nat, DOMAIN s = 1 .. n, NEW g, IsChoice(g, d, s)
    PROVE  g[DOMAIN s] = ChoiceOf(d, s, DOMAIN s)
  <1>1. \A r \in SUBSET (1 .. n) : g[r] = ChoiceStep(d, s, r, g)
    BY DEF IsChoice
  <1> DEFINE F == {r \in SUBSET (1 .. n) : g[r] # ChoiceOf(d, s, r)}
  <1>2. ASSUME F # {} PROVE FALSE
    <2>1. \A r \in F : IsFiniteSet(r)
      BY FS_Interval, FS_Subset
    <2>2. PICK r \in F : \A x \in r : r \ {x} \notin F
      <3> HIDE DEF F
      <3> QED
        BY <1>2, <2>1, SmallestSet
    <2>3. r \in SUBSET (1 .. n) /\ g[r] # ChoiceOf(d, s, r)
      OBVIOUS
    <2>4. CASE r = {}
      BY <1>1, <2>3, <2>4 DEF ChoiceStep, ChoiceOf, Mine, Rest
    <2>5. CASE r # {}
      <3>1. Max(r) \in r
        BY <2>3, <2>5, GreatestOfSet
      <3>2. g[r \ {Max(r)}] = ChoiceOf(d, s, r \ {Max(r)})
        BY <2>2, <2>3, <3>1
      <3>3. g[r] = TakeTask(d, g[r \ {Max(r)}], s[Max(r)])
        BY <1>1, <2>3, <2>5 DEF ChoiceStep
      <3>4. ChoiceOf(d, s, r) = TakeTask(d, ChoiceOf(d, s, r \ {Max(r)}), s[Max(r)])
        BY <2>3, <2>5, ChoiceTakes
      <3> QED
        BY <2>3, <3>2, <3>3, <3>4
    <2> QED
      BY <2>4, <2>5
  <1> QED
    BY <1>2

LEMMA ChoiceExists ==
    ASSUME NEW d, NEW s, NEW n \in Nat, DOMAIN s = 1 .. n
    PROVE  \E g : IsChoice(g, d, s)
  <1> DEFINE g == [r \in SUBSET DOMAIN s |-> ChoiceOf(d, s, r)]
  <1>1. ASSUME NEW r \in SUBSET DOMAIN s
        PROVE  ChoiceOf(d, s, r) = ChoiceStep(d, s, r, g)
    <2>1. CASE r = {}
      BY <2>1 DEF ChoiceStep, ChoiceOf, Mine, Rest
    <2>2. CASE r # {}
      <3>1. ChoiceOf(d, s, r) = TakeTask(d, ChoiceOf(d, s, r \ {Max(r)}), s[Max(r)])
        BY <2>2, ChoiceTakes
      <3>2. g[r \ {Max(r)}] = ChoiceOf(d, s, r \ {Max(r)})
        OBVIOUS
      <3> HIDE DEF g
      <3> QED
        BY <2>2, <3>1, <3>2 DEF ChoiceStep
    <2> QED
      BY <2>1, <2>2
  <1>2. g = [r \in SUBSET DOMAIN s |-> ChoiceOf(d, s, r)]
    OBVIOUS
  <1> HIDE DEF g
  <1>3. g = [r \in SUBSET DOMAIN s |-> ChoiceStep(d, s, r, g)]
    BY <1>1, <1>2
  <1> QED
    BY <1>3 DEF IsChoice

LEMMA TaskIsChosen ==
    ASSUME NEW p, NEW n \in Nat, DOMAIN p.tasks = 1 .. n, NEW d
    PROVE  getTaskForDevice(p, d) = ChoiceOf(d, p.tasks, DOMAIN p.tasks).task
  <1> DEFINE s == p.tasks
  <1>1. getTaskForDevice(p, d) =
           (CHOOSE g : g = [r \in SUBSET DOMAIN s |-> ChoiceStep(d, s, r, g)])[DOMAIN s].task
    BY Zenon DEF getTaskForDevice, FoldLeft, MapThenFoldSet, ChoiceStep, Undecided
  <1>2. \E g : g = [r \in SUBSET DOMAIN s |-> ChoiceStep(d, s, r, g)]
    <2>1. \E g : IsChoice(g, d, s)
      BY ChoiceExists
    <2> QED
      BY <2>1, Zenon DEF IsChoice
  <1>3. PICK g : IsChoice(g, d, s) /\ getTaskForDevice(p, d) = g[DOMAIN s].task
    BY <1>1, <1>2, Zenon DEF IsChoice
  <1> QED
    BY <1>3, ChoiceIsTaken

-----------------------------------------------------------------------------
(* A launch so far: the devices of the names in todo wait, those of the    *)
(* name being made are prepared, and those of names taken from todo mine   *)
(* or cannot.                                                              *)

TaskOf(d) == getTaskForDevice(profile, d)
Waiting == pc \in {"enterWait", "test", "asleep", "woken"}

NotUsed(d, task) == devicesInUse[d] = None /\ ~CanRun(task)
Prepared(d, task) ==
    NotUsed(d, task) \/ devicesInUse[d] = DeviceWith(config, task.implName, task)
IsBeingMade(task) == pc = "make" /\ task.implName = Current
GoesAsPlanned(d, task) ==
    /\ task = None => devicesInUse[d] = None
    /\ task # None =>
          /\ IsBeingMade(task) => Prepared(d, task)
          /\ task.implName \in todo /\ ~IsBeingMade(task) => devicesInUse[d] = None
          /\ task.implName \notin todo => MinesFor(d, task) \/ NotUsed(d, task)

LaunchedSoFar ==
    /\ pc \notin {"start", "load"} => config = LoadedConfig
    /\ pc = "launch" \/ HasSwitchersLocked => profile # None
    /\ BeforeLaunch \/ Waiting => todo = {}
    /\ (HasSwitchersLocked \/ Waiting) /\ profile # None =>
          \A d \in Devices : GoesAsPlanned(d, TaskOf(d))

LEMMA ProfileIsOne ==
    ASSUME NEW c, IsConfig(c), getStartProfile(c) # None
    PROVE  /\ getStartProfile(c) \in [name : STRING, tasks : Seq(TaskFields)]
           /\ DOMAIN getStartProfile(c).tasks = 1 .. Len(getStartProfile(c).tasks)
           /\ Len(getStartProfile(c).tasks) \in Nat
  <1> DEFINE s == c.profiles
             S == [name : STRING, tasks : Seq(TaskFields)]
             I == {i \in 1 .. Len(s) : <<s[i].name>> = c.startProfileName}
             k == SelectInSeq(s, LAMBDA p : <<p.name>> = c.startProfileName)
             r == getStartProfile(c)
  <1>1. k = IF I # {} THEN Min(I) ELSE 0
    BY Zenon DEF SelectInSeq
  <1>2. r = IF k = 0 THEN None ELSE s[k]
    BY Zenon DEF FirstThat, getStartProfile
  <1>3. s \in Seq(S)
    BY DEF IsConfig, IsText
  <1> HIDE DEF s, S, r
  <1>4. I # {} => Min(I) \in I /\ Min(I) \in 1 .. Len(s)
    <2>1. I \in SUBSET (1 .. Len(s)) /\ Len(s) \in Nat
      BY <1>3
    <2> HIDE DEF I
    <2> QED
      BY <2>1, MinIsOne
  <1> HIDE DEF k
  <1>5. r \in S
    <2> HIDE DEF I
    <2>1. \A i \in 1 .. Len(s) : s[i] \in S
      BY <1>3
    <2>2. r # None
      BY DEF r
    <2> QED
      BY <1>1, <1>2, <1>4, <2>1, <2>2
  <1>6. r.tasks \in Seq(TaskFields)
    BY <1>5 DEF S
  <1>7. DOMAIN r.tasks = 1 .. Len(r.tasks) /\ Len(r.tasks) \in Nat
    BY <1>6
  <1> QED
    BY <1>5, <1>7 DEF r, S

(* The task that is chosen is one that config.proto allows, and there is   *)
(* none only if it allows none.                                            *)
LEMMA TaskIsDocumented ==
    ASSUME IsConfig(config), profile # None, NEW d
    PROVE  /\ TaskOf(d) = None => DocumentedTasks(d) = {}
           /\ TaskOf(d) # None => TaskOf(d) \in DocumentedTasks(d) /\ TaskOf(d).implName \in ImplNames
  <1> DEFINE s == profile.tasks
             n == Len(s)
             D == DOMAIN s
  <1>1. s \in Seq(TaskFields) /\ D = 1 .. n /\ n \in Nat
    BY ProfileIsOne DEF profile
  <1>2. \A i \in D : s[i] \in TaskFields
    <2> HIDE DEF s
    <2> QED
      BY <1>1
  <1>3. TaskOf(d) = ChoiceOf(d, s, D).task
    BY <1>1, TaskIsChosen DEF TaskOf
  <1>4. \A i \in D : s[i] # None /\ s[i].implName \in ImplNames
    <2> TAKE i \in D
    <2>1. s[i] \in TaskFields
      BY <1>2
    <2> DEFINE t == s[i]
    <2> HIDE DEF t
    <2>2. t \in TaskFields => DOMAIN t = {"on", "device", "implName", "deviceProfile"} /\ t.implName \in ImplNames
      BY DEF TaskFields
    <2>3. DOMAIN None = {}
      BY DEF None
    <2> QED
      BY <2>1, <2>2, <2>3 DEF t
  <1>5. /\ Range(s) = {s[i] : i \in D}
        /\ {t \in Range(s) : IsMine(d, t)} = {s[i] : i \in Mine(d, s, D)}
        /\ {t \in Range(s) : IsForRest(t)} = {s[i] : i \in Rest(s, D)}
    <2>1. Range(s) = {s[i] : i \in D}
      BY DEF Range
    <2> HIDE DEF s, D
    <2> QED
      BY <2>1 DEF Mine, Rest
  <1>6. DocumentedTasks(d) = IF Mine(d, s, D) # {} THEN {s[i] : i \in Mine(d, s, D)}
                             ELSE {s[i] : i \in Rest(s, D)}
    <2>1. DocumentedTasks(d) = IF {t \in Range(s) : IsMine(d, t)} # {}
                               THEN {t \in Range(s) : IsMine(d, t)}
                               ELSE {t \in Range(s) : IsForRest(t)}
      BY DEF DocumentedTasks, IsMine, IsForRest
    <2>2. Mine(d, s, D) = {} <=> {s[i] : i \in Mine(d, s, D)} = {}
      OBVIOUS
    <2> HIDE DEF s, D
    <2> QED
      BY <1>5, <2>1, <2>2
  <1> HIDE DEF s, D, n
  <1>7. CASE Mine(d, s, D) # {}
    <2>1. Mine(d, s, D) \in SUBSET (1 .. n)
      BY <1>1 DEF Mine
    <2>2. Min(Mine(d, s, D)) \in Mine(d, s, D)
      BY <1>1, <1>7, <2>1, LeastOfSet
    <2>3. Min(Mine(d, s, D)) \in D
      BY <2>2 DEF Mine
    <2>4. TaskOf(d) = s[Min(Mine(d, s, D))]
      BY <1>3, <1>7 DEF ChoiceOf
    <2> QED
      BY <1>4, <1>6, <1>7, <2>2, <2>3, <2>4
  <1>8. CASE Mine(d, s, D) = {} /\ Rest(s, D) # {}
    <2>1. Rest(s, D) \in SUBSET (1 .. n)
      BY <1>1 DEF Rest
    <2>2. Max(Rest(s, D)) \in Rest(s, D)
      BY <1>1, <1>8, <2>1, GreatestOfSet
    <2>3. Max(Rest(s, D)) \in D
      BY <2>2 DEF Rest
    <2>4. TaskOf(d) = s[Max(Rest(s, D))]
      BY <1>3, <1>8 DEF ChoiceOf
    <2> QED
      BY <1>4, <1>6, <1>8, <2>2, <2>3, <2>4
  <1>9. CASE Mine(d, s, D) = {} /\ Rest(s, D) = {}
    BY <1>3, <1>6, <1>9 DEF ChoiceOf, Undecided
  <1> QED
    BY <1>7, <1>8, <1>9

(* What is registered under a name is found.                               *)
LEMMA ImplIsFound ==
    ASSUME NEW n, NEW j \in DOMAIN AlgoImpls, SameName(AlgoImpls[j].name, n)
    PROVE  powTypeOfAlgoImpl(n) = AlgoImpls[j].powType /\ powTypeOfAlgoImpl(n) # Empty
  <1> DEFINE I == {i \in 1 .. Len(AlgoImpls) : SameName(AlgoImpls[i].name, n)}
             f == FirstThat(AlgoImpls, LAMBDA x : SameName(x.name, n))
             k == SelectInSeq(AlgoImpls, LAMBDA x : SameName(x.name, n))
  <1>1. k = IF I # {} THEN Min(I) ELSE 0
    BY Zenon DEF SelectInSeq
  <1>2. f = IF k = 0 THEN None ELSE AlgoImpls[k]
    BY Zenon DEF FirstThat
  <1>3. powTypeOfAlgoImpl(n) = IF f = None THEN Empty ELSE f.powType
    BY Zenon DEF powTypeOfAlgoImpl
  <1>4. DOMAIN AlgoImpls = 1 .. Len(AlgoImpls) /\ Len(AlgoImpls) \in Nat
    BY ConfigurationAssumption
  <1>5. j \in I /\ I \in SUBSET (1 .. Len(AlgoImpls))
    BY <1>4
  <1>6. Min(I) \in I /\ Min(I) \in 1 .. Len(AlgoImpls)
    <2> HIDE DEF I
    <2> QED
      BY <1>4, <1>5, MinIsOne
  <1>7. SameName(AlgoImpls[Min(I)].name, AlgoImpls[j].name)
    BY <1>6 DEF SameName
  <1> HIDE DEF f, k, I
  <1>8. Min(I) = j
    BY <1>4, <1>6, <1>7, ConfigurationAssumption
  <1>9. f = AlgoImpls[j]
    BY <1>1, <1>2, <1>4, <1>5, <1>8
  <1>10. AlgoImpls[j] # None
    <2> DEFINE e == AlgoImpls[j]
    <2> DEFINE S == [name : STRING, powType : STRING]
    <2>1. AlgoImpls \in Seq(S)
      BY ConfigurationAssumption
    <2>2. e \in S
      <3> HIDE DEF S
      <3> QED
        BY <2>1
    <2> HIDE DEF e
    <2>3. DOMAIN e = {"name", "powType"} /\ DOMAIN None = {}
      BY <2>2 DEF None
    <2> QED
      BY <2>3 DEF e
  <1> QED
    BY <1>3, <1>9, <1>10, ConfigurationAssumption

LEMMA PoolImplIsFound ==
    ASSUME NEW protocol, NEW powType, NEW j \in DOMAIN PoolImpls,
           SameName(PoolImpls[j].powType, powType),
           protocol = Empty \/ SameName(PoolImpls[j].protocol, protocol)
    PROVE  poolImplForProtocolAndPowType(protocol, powType) # Empty
  <1> DEFINE Fits(e) == /\ SameName(e.powType, powType)
                        /\ protocol = Empty \/ SameName(e.protocol, protocol)
             I == {i \in 1 .. Len(PoolImpls) : Fits(PoolImpls[i])}
             f == FirstThat(PoolImpls, Fits)
             k == SelectInSeq(PoolImpls, Fits)
  <1>1. k = IF I # {} THEN Min(I) ELSE 0
    BY Zenon DEF SelectInSeq
  <1>2. f = IF k = 0 THEN None ELSE PoolImpls[k]
    BY Zenon DEF FirstThat
  <1>3. poolImplForProtocolAndPowType(protocol, powType) = IF f = None THEN Empty ELSE f.name
    BY Zenon DEF poolImplForProtocolAndPowType
  <1>4. DOMAIN PoolImpls = 1 .. Len(PoolImpls) /\ Len(PoolImpls) \in Nat
    BY ConfigurationAssumption
  <1>5. I # {} /\ I \in SUBSET (1 .. Len(PoolImpls))
    BY <1>4
  <1> HIDE DEF f, k, I
  <1>6. Min(I) \in 1 .. Len(PoolImpls)
    BY <1>4, <1>5, MinIsOne
  <1>7. f = PoolImpls[Min(I)]
    BY <1>1, <1>2, <1>4, <1>5, <1>6
  <1>8. PoolImpls[Min(I)].name # Empty /\ PoolImpls[Min(I)] # None
    <2> DEFINE e == PoolImpls[Min(I)]
    <2> DEFINE S == [name : STRING, powType : STRING, protocol : STRING]
    <2>1. PoolImpls \in Seq(S)
      BY ConfigurationAssumption
    <2>2. e \in S
      <3> HIDE DEF S
      <3> QED
        BY <1>6, <2>1
    <2> HIDE DEF e
    <2>3. DOMAIN e = {"name", "powType", "protocol"} /\ DOMAIN None = {}
      BY <2>2 DEF None
    <2>4. e # None
      BY <2>3
    <2> QED
      BY <1>4, <1>6, <2>4, ConfigurationAssumption DEF e
  <1> QED
    BY <1>3, <1>7, <1>8

(* What can run is not skipped for want of a powType, pools or settings.   *)
LEMMA RunnableIsLaunched ==
    ASSUME IsConfig(config), NEW task, CanRun(task)
    PROVE  /\ powTypeOfAlgoImpl(task.implName) # Empty
           /\ PoolsToAdd(config, powTypeOfAlgoImpl(task.implName)) # {}
           /\ HasSettings(config, task, task.implName)
  <1>1. PICK a \in Range(AlgoImpls), p \in Range(config.pools), q \in Range(PoolImpls) :
           /\ SameName(a.name, task.implName)
           /\ p.powType = a.powType /\ SameName(q.powType, a.powType)
           /\ p.protocol = Empty \/ SameName(p.protocol, q.protocol)
    BY DEF CanRun
  <1>2. PICK j \in DOMAIN AlgoImpls : a = AlgoImpls[j]
    BY DEF Range
  <1>3. PICK i \in DOMAIN config.pools : p = config.pools[i]
    BY DEF Range
  <1>4. PICK k \in DOMAIN PoolImpls : q = PoolImpls[k]
    BY DEF Range
  <1>5. powTypeOfAlgoImpl(task.implName) = a.powType /\ powTypeOfAlgoImpl(task.implName) # Empty
    BY <1>1, <1>2, ImplIsFound
  <1>6. SameName(PoolImpls[k].powType, a.powType)
        /\ (p.protocol = Empty \/ SameName(PoolImpls[k].protocol, p.protocol))
    BY <1>1, <1>4 DEF SameName
  <1>7. poolImplForProtocolAndPowType(p.protocol, a.powType) # Empty
    BY <1>6, PoolImplIsFound
  <1>8. i \in PoolsToAdd(config, a.powType)
    BY <1>1, <1>3, <1>7 DEF PoolsToAdd, getConfigPoolsForPowType
  <1> QED
    BY <1>5, <1>8 DEF CanRun

-----------------------------------------------------------------------------
(* The arguments with --run-tutorial: nothing before the path of the       *)
(* tutorial is called --config.                                            *)

LEMMA FlattenIsSeq ==
    ASSUME NEW S, NEW q \in Seq(Seq(S))
    PROVE  FlattenSeq(q) \in Seq(S)
  <1>1. CASE Len(q) = 0
    <2>1. FlattenSeq(q) = q
      BY <1>1, Zenon DEF FlattenSeq
    <2>2. q = <<>> /\ <<>> \in Seq(S)
      BY <1>1, EmptySeq
    <2> QED
      BY <2>1, <2>2
  <1>2. CASE Len(q) # 0
    <2>1. PICK f : IsFlat(f, q) /\ FlattenSeq(q) = f[Len(q)]
      BY <1>2, FlattenIsFlat
    <2>2. Len(q) \in 1 .. Len(q)
      BY <1>2
    <2> QED
      BY <2>1, <2>2, FlatValues
  <1> QED
    BY <1>1, <1>2

ExpandedArgs == [letters : {<<>>}, name : STRING, value : Seq(STRING)]

LEMMA ArgumentsAreExpanded ==
    ASSUME scenario \in Scenarios
    PROVE  GivenArguments \in Seq(ExpandedArgs)
  <1> DEFINE args == scenario.args
             S == [letters : Seq(STRING), name : STRING, value : Seq(STRING)]
             Expanded(i) == IF args[i].letters = <<>> THEN <<args[i]>>
                            ELSE [k \in DOMAIN args[i].letters |-> Arg(args[i].letters[k], Absent)]
             q == [i \in DOMAIN args |-> Expanded(i)]
  <1>1. args \in Seq(S)
    BY ApplicationAssumption
  <1>2. DOMAIN args = 1 .. Len(args) /\ Len(args) \in Nat /\ \A i \in DOMAIN args : args[i] \in S
    <2> HIDE DEF S, args
    <2> QED
      BY <1>1
  <1>3. \A x \in STRING : Arg(x, Absent) \in ExpandedArgs
    <2>1. Absent \in Seq(STRING)
      BY EmptySeq DEF Absent
    <2> QED
      BY <2>1 DEF Arg, ExpandedArgs
  <1>4. ASSUME NEW i \in DOMAIN args
        PROVE  Expanded(i) \in Seq(ExpandedArgs)
    <2> DEFINE a == args[i]
    <2>1. a \in S
      BY <1>2
    <2> HIDE DEF args
    <2>2. CASE a.letters = <<>>
      <3>1. a \in ExpandedArgs
        <4> HIDE DEF a
        <4> QED
          BY <2>1, <2>2 DEF ExpandedArgs
      <3> HIDE DEF a
      <3>2. <<a>> \in Seq(ExpandedArgs)
        BY <3>1
      <3> QED
        BY <2>2, <3>2 DEF a
    <2>3. CASE a.letters # <<>>
      <3> DEFINE l == a.letters
      <3>1. l \in Seq(STRING)
        <4> HIDE DEF a
        <4> QED
          BY <2>1
      <3> HIDE DEF l, a
      <3>2. DOMAIN l = 1 .. Len(l) /\ Len(l) \in Nat /\ \A k \in DOMAIN l : l[k] \in STRING
        BY <3>1
      <3>3. [k \in DOMAIN l |-> Arg(l[k], Absent)] \in Seq(ExpandedArgs)
        <4> DEFINE e(k) == Arg(l[k], Absent)
                   f == [k \in DOMAIN l |-> e(k)]
        <4>1. \A k \in DOMAIN l : e(k) \in ExpandedArgs
          BY <1>3, <3>2
        <4>2. f \in Seq(ExpandedArgs)
          <5> HIDE DEF e
          <5> QED
            BY <3>2, <4>1
        <4> QED
          BY <4>2
      <3> QED
        BY <2>3, <3>3 DEF l, a
    <2> QED
      BY <2>2, <2>3
  <1>5. q \in Seq(Seq(ExpandedArgs))
    <2> HIDE DEF Expanded, args
    <2> QED
      BY <1>2, <1>4
  <1>6. GivenArguments = FlattenSeq(q)
    BY DEF GivenArguments, copyArgsAndExpandSingleDashCombinedArgs
  <1> HIDE DEF q
  <1> QED
    BY <1>5, <1>6, FlattenIsSeq

LEMMA TutorialIsLoaded ==
    ASSUME scenario \in Scenarios, RunsTutorial,
           Arg("--config", None) \notin Range(GivenArguments)
    PROVE  LoadedConfig = loadConfig(FilesToRead, TutorialPath)
  <1> DEFINE G == GivenArguments
             Replaced(a) == \/ a.name = "--config" /\ a.value # Absent
                            \/ a.name = "--run-tutorial"
             q == [i \in DOMAIN G |-> IF Replaced(G[i]) THEN <<>> ELSE <<G[i]>>]
             kept == FlattenSeq(q)
             last == Arg("--config", <<TutorialPath>>)
             S == {a \in Range(G) : a.name # "--config"}
             A == Append(kept, last)
             n == Len(kept)
             I == {i \in 1 .. Len(A) : A[i].name = "--config"}
             k == SelectInSeq(A, LAMBDA a : a.name = "--config")
  <1>1. G \in Seq(ExpandedArgs)
    BY ArgumentsAreExpanded
  <1>2. DOMAIN G = 1 .. Len(G) /\ Len(G) \in Nat /\ \A i \in DOMAIN G : G[i] \in ExpandedArgs
    <2> HIDE DEF G
    <2> QED
      BY <1>1
  <1>3. ASSUME NEW i \in DOMAIN G
        PROVE  (IF Replaced(G[i]) THEN <<>> ELSE <<G[i]>>) \in Seq(S)
    <2>1. CASE Replaced(G[i])
      <3>1. <<>> \in Seq(S)
        BY EmptySeq
      <3> QED
        BY <2>1, <3>1
    <2>2. CASE ~Replaced(G[i])
      <3> DEFINE a == G[i]
      <3>1. a \in ExpandedArgs /\ a \in Range(G)
        BY <1>2 DEF Range
      <3>2. a.name # "--config"
        <4> SUFFICES ASSUME a.name = "--config" PROVE FALSE
          OBVIOUS
        <4>1. a.value = Absent
          BY <2>2
        <4>2. a = [letters |-> <<>>, name |-> "--config", value |-> Absent]
          <5> HIDE DEF a, G
          <5> QED
            BY <3>1, <4>1 DEF ExpandedArgs
        <4> QED
          BY <3>1, <4>2 DEF Arg, Absent, None
      <3>3. a \in S
        BY <3>1, <3>2
      <3> HIDE DEF a, S
      <3>4. <<a>> \in Seq(S)
        BY <3>3
      <3> QED
        BY <2>2, <3>4 DEF a
    <2> QED
      BY <2>1, <2>2
  <1>4. q \in Seq(Seq(S))
    <2> HIDE DEF G, S, Replaced
    <2> QED
      BY <1>2, <1>3
  <1>5. kept \in Seq(S)
    <2> HIDE DEF q, S
    <2> QED
      BY <1>4, FlattenIsSeq
  <1>6. Arguments = A
    BY DEF Arguments, commandRunTutorial
  <1>7. \A a \in S : a.name # "--config"
    OBVIOUS
  <1>8. last.name = "--config" /\ last.value = <<TutorialPath>>
    BY DEF Arg
  <1> HIDE DEF kept, last, S
  <1>9. /\ n \in Nat /\ Len(A) = n + 1 /\ A[n + 1] = last
        /\ \A i \in 1 .. n : A[i] = kept[i] /\ kept[i] \in S
    BY <1>5
  <1>10. I \in SUBSET (1 .. n + 1) /\ n + 1 \in I
    BY <1>8, <1>9
  <1>11. I = {n + 1}
    BY <1>7, <1>8, <1>9
  <1>12. Min(I) = n + 1
    <2> HIDE DEF I, n, A
    <2>1. n + 1 \in Nat /\ \A j \in I : n + 1 <= j
      BY <1>9, <1>11
    <2> QED
      BY <1>10, <2>1, MinIs
  <1>13. k = n + 1
    <2>1. k = IF I # {} THEN Min(I) ELSE 0
      BY Zenon DEF SelectInSeq
    <2> HIDE DEF k, I
    <2> QED
      BY <1>10, <1>12, <2>1
  <1>14. argValueAfterEqualsSign("--config", A) = <<TutorialPath>>
    <2>1. argValueAfterEqualsSign("--config", A) = IF k = 0 THEN Absent ELSE A[k].value
      BY Zenon DEF argValueAfterEqualsSign
    <2> HIDE DEF k, A
    <2>2. k # 0
      BY <1>9, <1>13
    <2> QED
      BY <1>8, <1>9, <1>13, <2>1, <2>2
  <1> HIDE DEF A
  <1>15. <<TutorialPath>> # None /\ Head(<<TutorialPath>>) = TutorialPath
    BY DEF None
  <1> QED
    BY <1>6, <1>14, <1>15 DEF LoadedConfig

-----------------------------------------------------------------------------
(* The steps of a launch.                                                  *)

LEMMA PlanStays ==
    ASSUME NEW d, NEW task, GoesAsPlanned(d, task), (pc = "make") <=> (pc' = "make"),
           UNCHANGED <<config, todo, algorithms>>, devicesInUse'[d] = devicesInUse[d]
    PROVE  GoesAsPlanned(d, task)'
  <1>1. UNCHANGED Current
    BY DEF Current
  <1>2. CanRun(task)' <=> CanRun(task)
    BY DEF CanRun
  <1> QED
    BY <1>1, <1>2 DEF GoesAsPlanned, IsBeingMade, Prepared, NotUsed, MinesFor

(* A name is taken from todo without an algorithm.                         *)
LEMMA PlanSkips ==
    ASSUME NEW d, NEW task, GoesAsPlanned(d, task), pc \in {"next", "assign"}, Skip,
           UNCHANGED algorithms, devicesInUse'[d] = devicesInUse[d], Current \in todo,
           task # None /\ task.implName = Current => ~CanRun(task)
    PROVE  GoesAsPlanned(d, task)'
  <1>1. todo' = todo \ {Current} /\ pc' = "next" /\ config' = config
    BY DEF Skip, MainGoes
  <1>2. ~IsBeingMade(task) /\ ~IsBeingMade(task)'
    BY <1>1 DEF IsBeingMade
  <1>3. /\ CanRun(task)' <=> CanRun(task)
        /\ NotUsed(d, task)' <=> NotUsed(d, task)
        /\ MinesFor(d, task)' <=> MinesFor(d, task)
    BY <1>1 DEF CanRun, NotUsed, MinesFor
  <1>4. CASE task = None
    BY <1>4 DEF GoesAsPlanned
  <1>5. CASE task # None /\ task.implName = Current
    <2>1. devicesInUse[d] = None /\ NotUsed(d, task)
      BY <1>2, <1>5 DEF GoesAsPlanned, NotUsed
    <2> QED
      BY <1>1, <1>2, <1>3, <1>5, <2>1 DEF GoesAsPlanned
  <1>6. CASE task # None /\ task.implName # Current
    BY <1>1, <1>2, <1>3, <1>6 DEF GoesAsPlanned
  <1> QED
    BY <1>4, <1>5, <1>6

LEMMA PlanAssigns ==
    ASSUME NEW d \in Devices, NEW task, task = TaskOf(d), GoesAsPlanned(d, task),
           IsConfig(config), Current \in todo, AssignDevices
    PROVE  GoesAsPlanned(d, task)'
  <1>1. /\ pc = "assign"
        /\ devicesInUse'[d] = IF d \in Assigned THEN DeviceWith(config, Current, task)
                              ELSE devicesInUse[d]
        /\ IF Assigned = {} THEN Skip ELSE MainGoes("make") /\ UNCHANGED todo
        /\ UNCHANGED algorithms
    BY DEF AssignDevices, MainAt, TaskOf
  <1>2. d \in Assigned <=> /\ task # None /\ task.implName = Current
                           /\ devicesInUse[d] = None /\ HasSettings(config, task, Current)
    BY DEF Assigned, prepareAssignedDevices, RunsOn, TaskOf
  <1>3. ~IsBeingMade(task)
    BY <1>1 DEF IsBeingMade
  <1>4. task # None /\ task.implName = Current => devicesInUse[d] = None
    BY <1>3 DEF GoesAsPlanned
  <1>5. task # None /\ task.implName = Current /\ d \notin Assigned => ~CanRun(task)
    BY <1>2, <1>4 DEF CanRun
  <1>6. CASE Assigned = {}
    BY <1>1, <1>5, <1>6, PlanSkips
  <1>7. CASE Assigned # {}
    <2>1. pc' = "make" /\ UNCHANGED <<todo, config, algorithms>> /\ UNCHANGED Current
      BY <1>1, <1>7 DEF MainGoes, Current
    <2>2. CanRun(task)' <=> CanRun(task)
      BY <2>1 DEF CanRun
    <2>3. CASE task = None
      BY <1>1, <1>2, <2>3 DEF GoesAsPlanned
    <2>4. CASE task # None /\ task.implName = Current
      <3>1. Prepared(d, task)'
        BY <1>1, <1>4, <1>5, <2>1, <2>2, <2>4 DEF Prepared, NotUsed
      <3> QED
        BY <2>1, <2>4, <3>1 DEF GoesAsPlanned, IsBeingMade
    <2>5. CASE task # None /\ task.implName # Current
      <3>1. devicesInUse'[d] = devicesInUse[d] /\ ~IsBeingMade(task)'
        BY <1>1, <1>2, <2>1, <2>5 DEF IsBeingMade
      <3>2. /\ NotUsed(d, task)' <=> NotUsed(d, task)
            /\ MinesFor(d, task)' <=> MinesFor(d, task)
        BY <2>1, <2>2, <3>1 DEF NotUsed, MinesFor
      <3> QED
        BY <1>3, <2>1, <2>5, <3>1, <3>2 DEF GoesAsPlanned
    <2> QED
      BY <2>3, <2>4, <2>5
  <1> QED
    BY <1>6, <1>7

LEMMA PlanMakes ==
    ASSUME NEW d \in Devices, NEW task, GoesAsPlanned(d, task), LaunchInv, MakeAlgo
    PROVE  GoesAsPlanned(d, task)'
  <1> DEFINE new == [implName |-> Current, powType |-> powTypeOfAlgoImpl(Current), devices |-> GivenDevices]
             n == Len(algorithms)
  <1>1. /\ pc = "make" /\ pc' = "next" /\ todo' = todo \ {Current} /\ Current \in todo
        /\ algorithms' = Append(algorithms, new)
        /\ UNCHANGED <<config, devicesInUse>>
    BY DEF MakeAlgo, MainAt, Skip, MainGoes, LaunchInv
  <1>2. new.implName = Current /\ new.devices = GivenDevices
    OBVIOUS
  <1>3. /\ n \in Nat /\ DOMAIN algorithms = 1 .. n
        /\ DOMAIN algorithms' = 1 .. n + 1 /\ algorithms'[n + 1] = new
        /\ \A i \in 1 .. n : algorithms'[i] = algorithms[i]
    <2> DEFINE S == [implName : ImplNames, powType : PowTypes, devices : SUBSET Devices]
    <2>1. algorithms \in Seq(S)
      BY DEF LaunchInv
    <2> HIDE DEF S, new
    <2> QED
      BY <1>1, <2>1
  <1> HIDE DEF new, n
  <1>4. /\ CanRun(task)' <=> CanRun(task)
        /\ NotUsed(d, task)' <=> NotUsed(d, task)
        /\ ~IsBeingMade(task)'
    BY <1>1 DEF CanRun, NotUsed, IsBeingMade
  <1>5. MinesFor(d, task) => MinesFor(d, task)'
    BY <1>1, <1>3 DEF MinesFor
  <1>6. CASE task = None
    BY <1>1, <1>6 DEF GoesAsPlanned
  <1>7. CASE task # None /\ task.implName = Current
    <2>1. Prepared(d, task)
      BY <1>1, <1>7 DEF GoesAsPlanned, IsBeingMade
    <2>2. CASE devicesInUse[d] = DeviceWith(config, task.implName, task)
      <3>1. d \in GivenDevices
        BY <1>7, <2>2, DeviceIsInUse DEF GivenDevices
      <3>2. MinesFor(d, task)'
        <4>1. n + 1 \in DOMAIN algorithms' /\ algorithms'[n + 1].implName = task.implName
              /\ d \in algorithms'[n + 1].devices
          BY <1>2, <1>3, <1>7, <3>1
        <4>2. devicesInUse'[d] = DeviceWith(config', task.implName, task)
          BY <1>1, <2>2
        <4> QED
          BY <4>1, <4>2 DEF MinesFor
      <3> QED
        BY <1>1, <1>4, <1>7, <3>2 DEF GoesAsPlanned
    <2>3. CASE NotUsed(d, task)
      BY <1>1, <1>4, <1>7, <2>3 DEF GoesAsPlanned
    <2> QED
      BY <2>1, <2>2, <2>3 DEF Prepared
  <1>8. CASE task # None /\ task.implName # Current
    BY <1>1, <1>4, <1>5, <1>8 DEF GoesAsPlanned, IsBeingMade
  <1> QED
    BY <1>6, <1>7, <1>8

(* What main does before, after and during a launch.                       *)
LEMMA PlanIsKept ==
    ASSUME LaunchedSoFar, UNCHANGED <<scenario, config>>, HasSwitchersLocked,
           HasSwitchersLocked' \/ (Waiting' /\ todo' = {}),
           \A d \in Devices : \A task :
               task = TaskOf(d) /\ GoesAsPlanned(d, task) => GoesAsPlanned(d, task)'
    PROVE  LaunchedSoFar'
  <1>1. UNCHANGED <<LoadedConfig, profile>> /\ \A d : TaskOf(d)' = TaskOf(d)
    BY DEF LoadedConfig, profile, TaskOf, FilesToRead, Arguments, GivenArguments, RunsTutorial
  <1>2. /\ config = LoadedConfig /\ profile # None
        /\ \A d \in Devices : GoesAsPlanned(d, TaskOf(d))
    BY DEF LaunchedSoFar, HasSwitchersLocked
  <1>3. ASSUME NEW d \in Devices
        PROVE  GoesAsPlanned(d, TaskOf(d))'
    <2>1. PICK task : task = TaskOf(d)
      OBVIOUS
    <2>2. GoesAsPlanned(d, task)'
      BY <1>2, <2>1
    <2>3. task = TaskOf(d)'
      BY <1>1, <2>1
    <2> QED
      BY <2>2, <2>3
  <1>4. pc' \notin {"start", "load", "construct", "launch"}
    BY DEF HasSwitchersLocked, Waiting
  <1>5. HasSwitchersLocked' => ~Waiting'
    BY DEF HasSwitchersLocked, Waiting
  <1> QED
    BY <1>1, <1>2, <1>3, <1>4, <1>5 DEF LaunchedSoFar, BeforeLaunch

LEMMA LaunchKeepsPlan ==
    ASSUME LaunchPart, LaunchedSoFar, Launch
    PROVE  LaunchedSoFar'
  <1>1. CASE Construct
    <2>1. /\ pc = "construct" /\ pc' = IF profile = None THEN "enterWait" ELSE "launch"
          /\ UNCHANGED <<scenario, config, todo>>
      BY <1>1 DEF Construct, MainAt, MainGoes
    <2>2. UNCHANGED <<LoadedConfig, profile>>
      BY <2>1 DEF LoadedConfig, profile, FilesToRead, Arguments, GivenArguments, RunsTutorial
    <2>3. config = LoadedConfig /\ todo = {}
      BY <2>1 DEF LaunchedSoFar, BeforeLaunch
    <2> QED
      BY <2>1, <2>2, <2>3 DEF LaunchedSoFar, BeforeLaunch, Waiting, HasSwitchersLocked
  <1>2. CASE LockPoolSwitchers
    <2>1. /\ pc = "launch" /\ pc' = "next" /\ todo' = getUniqueAlgoImplNamesForProfile(profile)
          /\ UNCHANGED <<scenario, config, devicesInUse, algorithms>>
      BY <1>2 DEF LockPoolSwitchers, MainAt, MainGoes, memberVars
    <2>2. UNCHANGED <<LoadedConfig, profile>> /\ \A d : TaskOf(d)' = TaskOf(d)
      BY <2>1 DEF LoadedConfig, profile, TaskOf, FilesToRead, Arguments, GivenArguments, RunsTutorial
    <2>3. config = LoadedConfig /\ profile # None
      BY <2>1 DEF LaunchedSoFar
    <2>4. IsConfig(config) /\ \A d \in Devices : devicesInUse[d] = None
      BY <2>1 DEF LaunchPart, LaunchInv, BeforeLaunch
    <2>5. ASSUME NEW d \in Devices
          PROVE  GoesAsPlanned(d, TaskOf(d))'
      <3>1. PICK task : task = TaskOf(d)
        OBVIOUS
      <3>2. task # None => task.implName \in todo'
        <4>1. task # None => task.implName \in ImplNames /\ RunsOn(profile, task.implName, d)
          BY <2>3, <2>4, <3>1, TaskIsDocumented DEF RunsOn, TaskOf
        <4> QED
          BY <2>1, <4>1 DEF getUniqueAlgoImplNamesForProfile, ImplNames
      <3>3. GoesAsPlanned(d, task)'
        BY <2>1, <2>4, <3>2 DEF GoesAsPlanned, IsBeingMade
      <3>4. task = TaskOf(d)'
        BY <2>2, <3>1
      <3> QED
        BY <3>3, <3>4
    <2>6. \A d \in Devices : GoesAsPlanned(d, TaskOf(d))'
      BY <2>5
    <2> QED
      BY <2>1, <2>2, <2>3, <2>6 DEF LaunchedSoFar, BeforeLaunch, Waiting, HasSwitchersLocked
  <1>3. CASE SkipUnknown
    <2>1. /\ pc = "next" /\ Skip /\ UNCHANGED <<devicesInUse, algorithms>> /\ todo # {}
          /\ powTypeOfAlgoImpl(Current) = Empty
      BY <1>3 DEF SkipUnknown, MainAt, memberVars
    <2>2. Current \in todo /\ IsConfig(config)
      BY <2>1, FirstIsOne DEF LaunchPart, LaunchInv, Current
    <2>3. pc' = "next" /\ UNCHANGED <<scenario, config>>
      BY <2>1 DEF Skip, MainGoes
    <2>4. ASSUME NEW d \in Devices, NEW task, task = TaskOf(d), GoesAsPlanned(d, task)
          PROVE  GoesAsPlanned(d, task)'
      <3>1. task # None /\ task.implName = Current => ~CanRun(task)
        BY <2>1, <2>2, RunnableIsLaunched
      <3> QED
        BY <2>1, <2>2, <2>4, <3>1, PlanSkips
    <2> QED
      BY <2>1, <2>3, <2>4, PlanIsKept DEF HasSwitchersLocked
  <1>4. CASE AddPools
    <2> DEFINE powType == powTypeOfAlgoImpl(Current)
               before == IF powType \in DOMAIN poolSwitchers THEN poolSwitchers[powType] ELSE 0
               new == Cardinality(PoolsToAdd(config, powType))
               after == before + new
    <2>1. /\ pc = "next" /\ todo # {} /\ UNCHANGED <<devicesInUse, algorithms>>
          /\ IF after = 0 THEN Skip ELSE MainGoes("assign") /\ UNCHANGED todo
      BY <1>4 DEF AddPools, MainAt
    <2>2. Current \in todo /\ config # None /\ IsConfig(config)
      BY <2>1, FirstIsOne DEF LaunchPart, LaunchInv, Current
    <2>3. HasSwitchersLocked' /\ UNCHANGED <<scenario, config>>
      BY <2>1 DEF Skip, MainGoes, HasSwitchersLocked
    <2>4. before \in Nat /\ new \in Nat
      BY <2>2, PoolsAreCounted DEF LaunchPart, LaunchInv
    <2>5. after = 0 => PoolsToAdd(config, powType) = {}
      <3>1. after = 0 => new = 0
        BY <2>4
      <3>2. IsFiniteSet(PoolsToAdd(config, powType))
        <4>1. config.pools \in Seq([powType : STRING, protocol : STRING])
          BY <2>2 DEF IsConfig, IsText
        <4>2. IsFiniteSet(1 .. Len(config.pools)) /\ DOMAIN config.pools = 1 .. Len(config.pools)
          BY <4>1, FS_Interval
        <4>3. PoolsToAdd(config, powType) \subseteq 1 .. Len(config.pools)
          BY <4>2 DEF PoolsToAdd, getConfigPoolsForPowType
        <4> QED
          BY <4>2, <4>3, FS_Subset
      <3> QED
        BY <3>1, <3>2, FS_EmptySet
    <2>6. ASSUME NEW d \in Devices, NEW task, task = TaskOf(d), GoesAsPlanned(d, task)
          PROVE  GoesAsPlanned(d, task)'
      <3>1. CASE after = 0
        <4>1. task # None /\ task.implName = Current => ~CanRun(task)
          BY <2>2, <2>5, <3>1, RunnableIsLaunched
        <4>2. Skip
          BY <2>1, <3>1
        <4> HIDE DEF powType, before, new
        <4> QED
          BY <2>1, <2>2, <2>6, <4>1, <4>2, PlanSkips
      <3>2. CASE after # 0
        <4>1. pc' = "assign" /\ UNCHANGED <<todo, config>>
          BY <2>1, <3>2 DEF MainGoes
        <4> HIDE DEF powType, before, new
        <4> QED
          BY <2>1, <2>6, <4>1, PlanStays
      <3> QED
        BY <3>1, <3>2
    <2> QED
      BY <2>1, <2>3, <2>6, PlanIsKept DEF HasSwitchersLocked
  <1>5. CASE AssignDevices
    <2>1. pc = "assign" /\ IF Assigned = {} THEN Skip ELSE MainGoes("make") /\ UNCHANGED todo
      BY <1>5 DEF AssignDevices, MainAt
    <2>2. Current \in todo /\ IsConfig(config)
      BY <2>1 DEF LaunchPart, LaunchInv
    <2>3. HasSwitchersLocked' /\ UNCHANGED <<scenario, config>>
      BY <2>1 DEF Skip, MainGoes, HasSwitchersLocked
    <2>4. ASSUME NEW d \in Devices, NEW task, task = TaskOf(d), GoesAsPlanned(d, task)
          PROVE  GoesAsPlanned(d, task)'
      BY <1>5, <2>2, <2>4, PlanAssigns
    <2> QED
      BY <2>1, <2>3, <2>4, PlanIsKept DEF HasSwitchersLocked
  <1>6. CASE MakeAlgo
    <2>1. pc = "make" /\ pc' = "next" /\ UNCHANGED <<scenario, config>>
      BY <1>6 DEF MakeAlgo, MainAt, Skip, MainGoes
    <2>2. ASSUME NEW d \in Devices, NEW task, task = TaskOf(d), GoesAsPlanned(d, task)
          PROVE  GoesAsPlanned(d, task)'
      BY <1>6, <2>2, PlanMakes DEF LaunchPart
    <2> QED
      BY <2>1, <2>2, PlanIsKept DEF HasSwitchersLocked
  <1>7. CASE MakeAlgoThrows
    <2>1. pc = "make" /\ pc' = "closeApi" /\ UNCHANGED <<scenario, config>>
      BY <1>7 DEF MakeAlgoThrows, MainAt, MainGoes
    <2>2. UNCHANGED LoadedConfig
      BY <2>1 DEF LoadedConfig, FilesToRead, Arguments, GivenArguments, RunsTutorial
    <2> QED
      BY <2>1, <2>2 DEF LaunchedSoFar, BeforeLaunch, Waiting, HasSwitchersLocked
  <1>8. CASE Launched
    <2>1. /\ pc = "next" /\ pc' = "enterWait" /\ todo = {}
          /\ UNCHANGED <<scenario, config, todo, devicesInUse, algorithms>>
      BY <1>8 DEF Launched, MainAt, MainGoes, memberVars
    <2>2. ASSUME NEW d \in Devices, NEW task, task = TaskOf(d), GoesAsPlanned(d, task)
          PROVE  GoesAsPlanned(d, task)'
      BY <2>1, <2>2, PlanStays
    <2> QED
      BY <2>1, <2>2, PlanIsKept DEF HasSwitchersLocked, Waiting
  <1> QED
    BY <1>1, <1>2, <1>3, <1>4, <1>5, <1>6, <1>7, <1>8 DEF Launch

(* Steps that change nothing of the launch.                                *)
LEMMA OthersKeepPlan ==
    ASSUME LaunchedSoFar, UNCHANGED <<scenario, config>>,
           \/ /\ UNCHANGED <<todo, devicesInUse, algorithms>>
              /\ pc' = pc \/ (pc = "start" /\ pc' = "load") \/ (Waiting /\ Waiting')
           \/ /\ pc \notin {"start", "load"}
              /\ ~BeforeLaunch' /\ ~HasSwitchersLocked' /\ ~Waiting'
    PROVE  LaunchedSoFar'
  <1>1. UNCHANGED <<LoadedConfig, profile>> /\ \A d : TaskOf(d)' = TaskOf(d)
    BY DEF LoadedConfig, profile, TaskOf, FilesToRead, Arguments, GivenArguments, RunsTutorial
  <1>2. CASE /\ UNCHANGED <<todo, devicesInUse, algorithms>>
             /\ pc' = pc \/ (Waiting /\ Waiting')
    <2>1. ASSUME NEW d \in Devices, GoesAsPlanned(d, TaskOf(d))
          PROVE  GoesAsPlanned(d, TaskOf(d))'
      <3>1. PICK task : task = TaskOf(d)
        OBVIOUS
      <3>2. (pc = "make") <=> (pc' = "make")
        BY <1>2 DEF Waiting
      <3>3. GoesAsPlanned(d, task)'
        BY <1>2, <2>1, <3>1, <3>2, PlanStays
      <3>4. task = TaskOf(d)'
        BY <1>1, <3>1
      <3> QED
        BY <3>3, <3>4
    <2>2. pc' = pc => /\ HasSwitchersLocked' <=> HasSwitchersLocked
                      /\ Waiting' <=> Waiting
                      /\ BeforeLaunch' <=> BeforeLaunch
      BY DEF HasSwitchersLocked, Waiting, BeforeLaunch
    <2>3. Waiting' => ~BeforeLaunch' /\ ~HasSwitchersLocked' /\ pc' # "launch"
      BY DEF HasSwitchersLocked, Waiting, BeforeLaunch
    <2>4. Waiting => pc \notin {"start", "load"}
      BY DEF Waiting
    <2> QED
      BY <1>1, <1>2, <2>1, <2>2, <2>3, <2>4 DEF LaunchedSoFar
  <1>3. CASE UNCHANGED todo /\ pc = "start" /\ pc' = "load"
    BY <1>3 DEF LaunchedSoFar, HasSwitchersLocked, Waiting, BeforeLaunch
  <1>4. CASE /\ pc \notin {"start", "load"}
             /\ ~BeforeLaunch' /\ ~HasSwitchersLocked' /\ ~Waiting'
    <2>1. pc' # "launch"
      BY <1>4 DEF BeforeLaunch
    <2> QED
      BY <1>1, <1>4, <2>1 DEF LaunchedSoFar
  <1> QED
    BY <1>2, <1>3, <1>4

LEMMA MainKeepsPlan ==
    ASSUME LaunchedSoFar, MainStep \/ CloseAlgorithm
    PROVE  LaunchedSoFar'
  <1>1. CASE LoadConfig
    <2>1. /\ pc = "load" /\ config' = LoadedConfig /\ pc' \in {"confirm", "construct"}
          /\ UNCHANGED <<scenario, todo>>
      BY <1>1 DEF LoadConfig, MainAt
    <2>2. UNCHANGED LoadedConfig
      BY <2>1 DEF LoadedConfig, FilesToRead, Arguments, GivenArguments, RunsTutorial
    <2>3. todo = {}
      BY <2>1 DEF LaunchedSoFar, BeforeLaunch
    <2> QED
      BY <2>1, <2>2, <2>3 DEF LaunchedSoFar, BeforeLaunch, Waiting, HasSwitchersLocked
  <1>2. CASE RejectArguments \/ Return
    <2>1. UNCHANGED <<scenario, config, todo, devicesInUse, algorithms, pc>>
      BY <1>2 DEF RejectArguments, Return, appVars, memberVars
    <2> QED
      BY <2>1, OthersKeepPlan
  <1>3. CASE RegisterHandlers
    <2>1. /\ pc = "start" /\ pc' = "load"
          /\ UNCHANGED <<scenario, config, todo, devicesInUse, algorithms>>
      BY <1>3 DEF RegisterHandlers, MainAt, MainGoes, memberVars
    <2> QED
      BY <2>1, OthersKeepPlan
  <1>4. CASE EnterOrReenterWait
    <2>1. /\ Waiting /\ Waiting'
          /\ UNCHANGED <<scenario, config, todo, devicesInUse, algorithms>>
      BY <1>4 DEF EnterOrReenterWait, MainAt, MainGoes, memberVars, Waiting
    <2> QED
      BY <2>1, OthersKeepPlan
  <1>5. CASE WaitOrGoOn
    <2>1. /\ pc = "test" /\ pc' = IF shutdownRequested THEN "closeApi" ELSE "asleep"
          /\ UNCHANGED <<scenario, config, todo, devicesInUse, algorithms>>
      BY <1>5 DEF WaitOrGoOn, MainAt, MainGoes, memberVars
    <2>2. \/ Waiting /\ Waiting'
          \/ pc' = "closeApi"
      BY <2>1 DEF Waiting
    <2>3. pc' = "closeApi" => ~BeforeLaunch' /\ ~HasSwitchersLocked' /\ ~Waiting'
      BY DEF BeforeLaunch, HasSwitchersLocked, Waiting
    <2> QED
      BY <2>1, <2>2, <2>3, OthersKeepPlan
  <1>6. CASE \/ CloseApi \/ CloseSwitchers \/ EnterConfirm \/ Confirm \/ Notify \/ Reset
             \/ CloseAlgorithm
    <2>1. /\ UNCHANGED <<scenario, config>> /\ pc \notin {"start", "load"}
          /\ pc' \in {"closeAlgorithms", "confirm", "confirming", "notify", "reset", "join"}
      BY <1>6 DEF CloseApi, CloseSwitchers, EnterConfirm, Confirm, Notify, Reset,
         CloseAlgorithm, MainAt, MainGoes
    <2>2. ~BeforeLaunch' /\ ~HasSwitchersLocked' /\ ~Waiting'
      BY <2>1 DEF BeforeLaunch, HasSwitchersLocked, Waiting
    <2> QED
      BY <2>1, <2>2, OthersKeepPlan
  <1> QED
    BY <1>1, <1>2, <1>3, <1>4, <1>5, <1>6 DEF MainStep

LEMMA NextKeepsPlan ==
    ASSUME LaunchPart, LaunchedSoFar, [Next]_vars
    PROVE  LaunchedSoFar'
  <1>1. CASE ApiStep \/ ClientStep \/ AssertionFails \/ PoolStep \/ UNCHANGED vars
    <2>1. UNCHANGED <<scenario, config, todo, devicesInUse, algorithms, pc>>
      BY <1>1 DEF ApiStep, ClientStep, AssertionFails, PoolStep, vars, appVars, memberVars
    <2> QED
      BY <2>1, OthersKeepPlan
  <1>2. ASSUME NEW t \in Threads, Signal(t) \/ HandlerEnds(t)
        PROVE  LaunchedSoFar'
    <2>1. UNCHANGED <<scenario, config, todo, devicesInUse, algorithms, pc>>
      BY <1>2 DEF Signal, HandlerEnds, OthersGoOn, appVars, memberVars
    <2> QED
      BY <2>1, OthersKeepPlan
  <1>3. ASSUME NEW n \in Signals, TaskTimesOut(n) \/ TaskFinishes(n)
        PROVE  LaunchedSoFar'
    <2>1. UNCHANGED <<scenario, config, todo, devicesInUse, algorithms, pc>>
      BY <1>3 DEF TaskTimesOut, TaskFinishes, OthersGoOn, appVars, memberVars
    <2> QED
      BY <2>1, OthersKeepPlan
  <1>4. ASSUME NEW n \in Signals, TaskRequestsShutdown(n)
        PROVE  LaunchedSoFar'
    <2>1. /\ UNCHANGED <<scenario, config, todo, devicesInUse, algorithms>>
          /\ pc' = pc \/ (pc = "asleep" /\ pc' = "woken")
      BY <1>4 DEF TaskRequestsShutdown, memberVars
    <2>2. pc' = pc \/ (Waiting /\ Waiting')
      BY <2>1 DEF Waiting
    <2> QED
      BY <2>1, <2>2, OthersKeepPlan
  <1>5. CASE Launch \/ MainStep \/ CloseAlgorithm
    BY <1>5, LaunchKeepsPlan, MainKeepsPlan
  <1> QED
    BY <1>1, <1>2, <1>3, <1>4, <1>5 DEF Next, TaskStep

(* Whatever the tasks, names and pools of the configuration: once it is    *)
(* launched, each device mines for a task that config.proto has for it, or *)
(* cannot, and is not used then; and --run-tutorial runs the tutorial.     *)
THEOREM LaunchesAsDocumented == Spec => []LaunchedAsDocumented
  <1>1. Init => LaunchedSoFar
    BY DEF Init, LaunchedSoFar, BeforeLaunch, Waiting, HasSwitchersLocked
  <1>2. AppInv /\ LaunchedSoFar /\ [Next]_vars => LaunchedSoFar'
    BY PartsOfInvariant, NextKeepsPlan
  <1>3. ASSUME AppInv, LaunchedSoFar
        PROVE  LaunchedAsDocumented
    <2>1. LaunchPart
      BY <1>3, PartsOfInvariant
    <2>2. pc \in {"construct", "confirm"} => TutorialIsRun
      <3> SUFFICES ASSUME pc \in {"construct", "confirm"}, RunsTutorial,
                          Arg("--config", None) \notin Range(GivenArguments)
                   PROVE  config = loadConfig(FilesToRead, TutorialPath)
        BY DEF TutorialIsRun
      <3>1. config = LoadedConfig /\ scenario \in Scenarios
        BY <1>3, <2>1 DEF LaunchedSoFar, LaunchPart
      <3> QED
        BY <3>1, TutorialIsLoaded
    <2>3. ASSUME pc \in {"enterWait", "asleep"}, profile # None, NEW d \in Devices
          PROVE  \/ \E task \in DocumentedTasks(d) : MinesFor(d, task)
                 \/ /\ devicesInUse[d] = None
                    /\ DocumentedTasks(d) # {} => \E task \in DocumentedTasks(d) : ~CanRun(task)
      <3>1. config # None /\ IsConfig(config)
        BY <2>1, <2>3 DEF LaunchPart, LaunchInv
      <3>2. todo = {} /\ GoesAsPlanned(d, TaskOf(d))
        BY <1>3, <2>3 DEF LaunchedSoFar, Waiting
      <3>3. CASE TaskOf(d) = None
        BY <2>3, <3>1, <3>2, <3>3, TaskIsDocumented DEF GoesAsPlanned
      <3>4. CASE TaskOf(d) # None
        <4>1. TaskOf(d) \in DocumentedTasks(d)
          BY <2>3, <3>1, <3>4, TaskIsDocumented
        <4>2. MinesFor(d, TaskOf(d)) \/ NotUsed(d, TaskOf(d))
          BY <3>2, <3>4 DEF GoesAsPlanned
        <4> QED
          BY <4>1, <4>2 DEF NotUsed
      <3> QED
        BY <3>3, <3>4
    <2> QED
      BY <2>2, <2>3 DEF LaunchedAsDocumented
  <1> QED
    BY <1>1, <1>2, <1>3, ApplicationInvariant, PTL DEF Spec
=============================================================================
