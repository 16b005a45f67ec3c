---------------------------- MODULE StratumPool ----------------------------
(***************************************************************************)
(* A pool that speaks stratum (pool/PoolEthash.cpp, pool/PoolGrin.cpp) and *)
(* the calls it makes through JsonRpcUtil (network/JsonRpcUtil.cpp): the   *)
(* login of every new connection, the jobs of the server, and the way of a *)
(* share from the GPU thread that found it through callAsyncRetryNTimes,   *)
(* across lost connections and disconnectAll.                              *)
(*                                                                         *)
(* Handlers run one at a time on the I/O thread. A connection neither      *)
(* loses nor repeats messages; what the server has not answered when the   *)
(* connection ends is never answered. A job is known by the connection it  *)
(* came from, which is what tells stale shares from fresh ones. The queue  *)
(* is not its only owner: a GPU thread that submits a share of it, one     *)
(* that asks whether a work of it is valid (Work.h:178) and the refill     *)
(* thread of an Ethash queue (WorkQueue.h:126) hold it for a while, and it *)
(* is destroyed when the last of them lets go.                             *)
(***************************************************************************)
EXTENDS Naturals

CONSTANTS
    Shares,       \* solutions the GPU threads find
    MaxTries,     \* tries of callAsyncRetryNTimes: 5 in the code
    MaxSessions   \* bound on the number of connections

ASSUME StratumPoolAssumption ==
    /\ MaxTries \in Nat \ {0}
    /\ MaxSessions \in Nat

VARIABLES
    (* The connection. *)
    protocol,   \* "ethash" or "grin": the class of the pool
    session,    \* number of connections made so far; the last is the current one
    link,       \* whether the current one is open
    launched,   \* whether the client reconnects
    io,         \* "run", or "stopped" in disconnectAll
    login,      \* "none", "first", "second" (the request under way), "done", "refused"
    acceptMiningNotify,
    cxn,        \* _cxn: the connection shares are submitted to
    connected,  \* _connected
    disabled,   \* _disabled
    newestJob,  \* the connection the newest job of the queue came from
    (* The shares. *)
    stage,      \* "none", "found", "held" (its GPU thread holds the job), "checked" (and
                \* has found the pool connected), "posted", "active" (being tried), or
                \* "dropped", "lost", "closed"
    jobOf,      \* the connection its job came from, NoJob once the job is destroyed
                \* or the share does not need it any more
    inQueue,    \* the shares whose job is in the queue
    handle,     \* the connection the call was made with
    tries,
    stillPending,
    pending,    \* whether HandlerMap has the response handler
    asked,      \* requests on the connection the server has not answered yet
    (* What the callbacks of the share were told. *)
    reported,   \* how often reportShare was called
    never       \* "no", or why onNeverResponded was called: "exhausted", "aborted"

linkVars  == <<protocol, session, link, launched, io>>
loginVars == <<login, acceptMiningNotify, cxn, connected, disabled, newestJob>>
callVars  == <<handle, tries, stillPending, pending, asked>>
ledger    == <<reported, never>>
jobVars   == <<jobOf, inQueue>>
shareVars == <<stage, jobVars, callVars, ledger>>
vars      == <<linkVars, loginVars, shareVars>>

Sessions == 1 .. MaxSessions
NoCxn == 0
NoJob == 0

Init ==
    /\ protocol \in {"ethash", "grin"}
    /\ session = 0
    /\ link = FALSE
    /\ launched = TRUE
    /\ io = "run"
    /\ login = "none"
    /\ acceptMiningNotify = FALSE
    /\ cxn = NoCxn
    /\ connected = FALSE
    /\ disabled = FALSE
    /\ newestJob = NoJob
    /\ stage = [s \in Shares |-> "none"]
    /\ jobOf = [s \in Shares |-> NoJob]
    /\ inQueue = {}
    /\ handle = [s \in Shares |-> NoCxn]
    /\ tries = [s \in Shares |-> 0]
    /\ stillPending = [s \in Shares |-> TRUE]
    /\ pending = [s \in Shares |-> FALSE]
    /\ asked = [s \in Shares |-> 0]
    /\ reported = [s \in Shares |-> 0]
    /\ never = [s \in Shares |-> "no"]

Listening == io = "run" /\ link

-----------------------------------------------------------------------------
(* Connections and the login.                                              *)

(* Ethash jobs are ignored until the pool has authorized the new           *)
(* connection; Grin jobs never are.                                        *)
AcceptsJobs == protocol = "grin" \/ acceptMiningNotify
NotReset == acceptMiningNotify
AcceptedOnConnect == FALSE

onConnected ==
    /\ io = "run" /\ launched /\ ~link
    /\ session < MaxSessions
    /\ session' = session + 1
    /\ link' = TRUE
    /\ login' = "first"
    /\ acceptMiningNotify' = AcceptedOnConnect
    /\ UNCHANGED <<protocol, launched, io, cxn, connected, disabled, newestJob, shareVars>>

(* What ends with the connection, and setConnected(false).                 *)
Disconnect ==
    /\ link' = FALSE
    /\ login' = "none"
    /\ connected' = FALSE
    /\ asked' = [s \in Shares |-> 0]

ConnectionLost ==
    /\ Listening
    /\ Disconnect
    /\ UNCHANGED <<protocol, session, launched, io, acceptMiningNotify, cxn, disabled, newestJob,
                   stage, jobVars, handle, tries, stillPending, pending, ledger>>

(* The answer to mining.subscribe or login.                                *)
FirstAccepted ==
    /\ Listening /\ login = "first"
    /\ login' = "second"
    /\ UNCHANGED <<linkVars, acceptMiningNotify, cxn, connected, disabled, newestJob, shareVars>>

LoginRefused ==
    /\ Listening
    /\ login = "first" \/ (protocol = "ethash" /\ login = "second")
    /\ login' = "refused"
    /\ disabled' = TRUE
    /\ UNCHANGED <<linkVars, acceptMiningNotify, cxn, connected, newestJob, shareVars>>

(* onMiningNotify: setConnected(true), which clears the queue the first    *)
(* time, then the new job, which may push old ones out of the queue.       *)
KeepsJobs(rest) == inQueue
LeftInQueue(rest) == IF connected THEN rest ELSE {}

onMiningNotify ==
    /\ \E rest \in SUBSET inQueue : inQueue' = LeftInQueue(rest)
    /\ connected' = TRUE
    /\ newestJob' = session

Authorized ==
    /\ protocol = "ethash"
    /\ Listening /\ login = "second"
    /\ login' = "done"
    /\ acceptMiningNotify' = TRUE
    /\ cxn' = session
    /\ UNCHANGED <<linkVars, connected, disabled, newestJob, shareVars>>

(* The answer to getjobtemplate: a job, or an error, which is ignored.     *)
JobTemplate ==
    /\ protocol = "grin"
    /\ Listening /\ login = "second"
    /\ login' = "done"
    /\ cxn' = session
    /\ onMiningNotify
    /\ UNCHANGED <<linkVars, acceptMiningNotify, disabled, stage, jobOf, callVars, ledger>>

NoJobTemplate ==
    /\ protocol = "grin"
    /\ Listening /\ login = "second"
    /\ login' = "refused"
    /\ UNCHANGED <<linkVars, acceptMiningNotify, cxn, connected, disabled, newestJob, shareVars>>

JobArrives ==
    /\ Listening /\ AcceptsJobs
    /\ onMiningNotify
    /\ UNCHANGED <<linkVars, login, acceptMiningNotify, cxn, disabled, stage, jobOf,
                   callVars, ledger>>

-----------------------------------------------------------------------------
(* The GPU threads. A share belongs to the newest job when its work is     *)
(* fetched.                                                                *)

FindShare(s) ==
    /\ stage[s] = "none"
    /\ newestJob # NoJob
    /\ jobOf' = [jobOf EXCEPT ![s] = newestJob]
    /\ inQueue' = inQueue \cup {s}
    /\ stage' = [stage EXCEPT ![s] = "found"]
    /\ UNCHANGED <<linkVars, loginVars, callVars, ledger>>

(* The last thread lets go of a job that has left the queue; the GPU       *)
(* thread that submits the share has not locked the job yet, or has        *)
(* returned.                                                               *)
JobDies(s) ==
    /\ stage[s] \in {"found", "posted"}
    /\ jobOf[s] # NoJob /\ s \notin inQueue
    /\ jobOf' = [jobOf EXCEPT ![s] = NoJob]
    /\ UNCHANGED <<linkVars, loginVars, stage, inQueue, callVars, ledger>>

Release(s) ==
    /\ jobOf' = [jobOf EXCEPT ![s] = NoJob]
    /\ inQueue' = inQueue \ {s}

Drop(s) ==
    /\ stage' = [stage EXCEPT ![s] = "dropped"]
    /\ Release(s)

(* PoolSwitcher::submitSolutionImpl: tryGetJob, then, holding the job,     *)
(* isConnected, then the submission; another connection may be made in     *)
(* between.                                                                *)
LockJob(s) ==
    /\ stage[s] = "found"
    /\ \/ jobOf[s] = NoJob /\ Drop(s)
       \/ /\ jobOf[s] # NoJob
          /\ stage' = [stage EXCEPT ![s] = "held"]
          /\ UNCHANGED jobVars
    /\ UNCHANGED <<linkVars, loginVars, callVars, ledger>>

CheckConnected(s) ==
    /\ stage[s] = "held"
    /\ \/ ~connected /\ Drop(s)
       \/ /\ connected
          /\ stage' = [stage EXCEPT ![s] = "checked"]
          /\ UNCHANGED jobVars
    /\ UNCHANGED <<linkVars, loginVars, callVars, ledger>>

PostShare(s) ==
    /\ stage[s] = "checked"
    /\ stage' = [stage EXCEPT ![s] = "posted"]
    /\ UNCHANGED <<linkVars, loginVars, jobVars, callVars, ledger>>

-----------------------------------------------------------------------------
(* The call on the I/O thread, which needs the job to write the request.   *)

StartCall(s) ==
    /\ io = "run"
    /\ stage[s] = "posted"
    /\ \/ jobOf[s] = NoJob /\ Drop(s) /\ UNCHANGED handle
       \/ /\ jobOf[s] # NoJob
          /\ stage' = [stage EXCEPT ![s] = "active"]
          /\ Release(s)
          /\ handle' = [handle EXCEPT ![s] = cxn]
    /\ UNCHANGED <<linkVars, loginVars, tries, stillPending, pending, asked, ledger>>

(* writeAsync reaches the server only if the connection is still open.     *)
CanWriteAnywhere(s) == link
CanWrite(s) == link /\ handle[s] = session

(* One tick of the retry timer: the predicate of callAsyncRetryNTimes.     *)
KeepTrying(s) == tries[s] < MaxTries /\ stillPending[s]

Try(s) ==
    /\ io = "run"
    /\ stage[s] = "active"
    /\ KeepTrying(s)
    /\ tries' = [tries EXCEPT ![s] = @ + 1]
    /\ pending' = IF tries[s] = 0 THEN [pending EXCEPT ![s] = TRUE] ELSE pending
    /\ asked' = IF CanWrite(s) THEN [asked EXCEPT ![s] = @ + 1] ELSE asked
    /\ UNCHANGED <<linkVars, loginVars, stage, jobVars, handle, stillPending, ledger>>

HandlerStays(s) == pending
AfterGivingUp(s) == [pending EXCEPT ![s] = FALSE]

Rescheduled(s) == "active"
Erased(s) == "closed"

StopTrying(s) ==
    /\ io = "run"
    /\ stage[s] = "active"
    /\ ~KeepTrying(s)
    /\ stage' = [stage EXCEPT ![s] = Erased(s)]
    /\ IF stillPending[s]
       THEN pending' = AfterGivingUp(s) /\ never' = [never EXCEPT ![s] = "exhausted"]
       ELSE UNCHANGED <<pending, never>>
    /\ UNCHANGED <<linkVars, loginVars, jobVars, handle, tries, stillPending, asked, reported>>

(* tryPopForId: the first answer takes the handler out of the map, another *)
(* one is not tracked any more.                                            *)
PopHandler(s) == [pending EXCEPT ![s] = FALSE]

StaysPending(s) == stillPending
Answered(s) == [stillPending EXCEPT ![s] = FALSE]

Respond(s) ==
    /\ Listening
    /\ asked[s] > 0
    /\ asked' = [asked EXCEPT ![s] = @ - 1]
    /\ IF pending[s]
       THEN /\ pending' = PopHandler(s)
            /\ stillPending' = Answered(s)
            /\ reported' = [reported EXCEPT ![s] = @ + 1]
       ELSE UNCHANGED <<pending, stillPending, reported>>
    /\ UNCHANGED <<linkVars, loginVars, stage, jobVars, handle, tries, never>>

-----------------------------------------------------------------------------
(* onDeclaredDead: disconnectAll and tryConnect on the alive-check thread. *)

StopIo ==
    /\ io = "run"
    /\ io' = "stopped"
    /\ UNCHANGED <<protocol, session, link, launched, loginVars, shareVars>>

(* abortAllAsyncRetries, then the io_service is destroyed with what was    *)
(* posted to it and with the connection.                                   *)
Aborted == {s \in Shares : stage[s] = "active"}
AfterReset(s) ==
    CASE stage[s] = "posted" -> "lost"
      [] stage[s] = "active" -> "closed"
      [] OTHER -> stage[s]

ResetIo ==
    /\ io = "stopped"
    /\ io' = "run"
    /\ Disconnect
    /\ launched' = ~disabled
    /\ stage' = [s \in Shares |-> AfterReset(s)]
    /\ never' = [s \in Shares |-> IF s \in Aborted THEN "aborted" ELSE never[s]]
    /\ UNCHANGED <<protocol, session, acceptMiningNotify, cxn, disabled, newestJob, jobVars, handle,
                   tries, stillPending, pending, reported>>

-----------------------------------------------------------------------------
Server ==
    \/ onConnected \/ ConnectionLost
    \/ FirstAccepted \/ LoginRefused \/ Authorized \/ JobTemplate \/ NoJobTemplate
    \/ JobArrives

Gpu(s) == LockJob(s) \/ CheckConnected(s) \/ PostShare(s)
Call(s) == StartCall(s) \/ Try(s) \/ StopTrying(s)

Next ==
    \/ Server \/ StopIo \/ ResetIo
    \/ \E s \in Shares : FindShare(s) \/ JobDies(s) \/ Gpu(s) \/ Call(s) \/ Respond(s)

(* The threads run and the timers expire; the server need not answer.      *)
(* Handlers of one share wait for disconnectAll again and again, hence     *)
(* strong fairness.                                                        *)
Fairness ==
    /\ WF_vars(ResetIo)
    /\ \A s \in Shares : WF_vars(Gpu(s)) /\ SF_vars(Call(s))

Spec == Init /\ [][Next]_vars
FairSpec == Spec /\ Fairness

-----------------------------------------------------------------------------
(* Properties.                                                             *)

TypeOK ==
    /\ protocol \in {"ethash", "grin"}
    /\ session \in 0 .. MaxSessions
    /\ link \in BOOLEAN
    /\ launched \in BOOLEAN
    /\ io \in {"run", "stopped"}
    /\ login \in {"none", "first", "second", "done", "refused"}
    /\ acceptMiningNotify \in BOOLEAN
    /\ cxn \in 0 .. MaxSessions
    /\ connected \in BOOLEAN
    /\ disabled \in BOOLEAN
    /\ newestJob \in 0 .. MaxSessions
    /\ stage \in [Shares -> {"none", "found", "held", "checked", "posted", "active",
                             "dropped", "lost", "closed"}]
    /\ jobOf \in [Shares -> 0 .. MaxSessions]
    /\ inQueue \subseteq Shares
    /\ handle \in [Shares -> 0 .. MaxSessions]
    /\ tries \in [Shares -> 0 .. MaxTries]
    /\ stillPending \in [Shares -> BOOLEAN]
    /\ pending \in [Shares -> BOOLEAN]
    /\ asked \in [Shares -> 0 .. MaxTries]
    /\ reported \in [Shares -> Nat]
    /\ never \in [Shares -> {"no", "exhausted", "aborted"}]

(* The assertion of callAsyncRetryNTimes: when it gives up a share that is *)
(* still pending, the response handler is there to be removed.             *)
HandlerExists ==
    \A s \in Shares :
        stage[s] = "active" /\ stillPending[s] /\ tries[s] > 0 => pending[s]

(* The statistics count a share at most once although the server answers   *)
(* every repetition of it, and not at all once the pool has given it up.   *)
CountedOnce ==
    \A s \in Shares :
        /\ reported[s] <= 1
        /\ never[s] = "exhausted" => reported[s] = 0

(* Of a share whose call has ended, one of the two callbacks has been      *)
(* called.                                                                 *)
NothingForgotten ==
    \A s \in Shares : stage[s] = "closed" => reported[s] = 1 \/ never[s] # "no"

(* No share is written to a connection the pool has not accepted the login *)
(* of, also if it was found or first tried before the reconnect.           *)
SharesAfterLogin == \A s \in Shares : asked[s] > 0 => login = "done"

(* Ethash: what is submitted to a connected pool goes to its connection.   *)
(* (Grin accepts jobs before _cxn is set.)                                 *)
ConnectedCanSubmit ==
    protocol = "ethash" /\ connected => link /\ cxn = session /\ login = "done"

(* While a pool is connected, its queue hands out no job of an earlier     *)
(* connection. (A thread may still hold one, see JobDies.)                 *)
QueueOfConnection == \A s \in inQueue : connected => jobOf[s] = session

(* The strengthening that makes the properties above inductive.            *)
LoginInv ==
    /\ cxn <= session /\ newestJob <= session
    /\ connected => link /\ newestJob = session
    /\ link /\ cxn = session => login = "done"
    /\ protocol = "ethash" /\ link /\ acceptMiningNotify => login = "done" /\ cxn = session
    /\ protocol = "ethash" /\ connected => acceptMiningNotify

CallInv(s) ==
    /\ handle[s] <= cxn /\ jobOf[s] <= session
    /\ asked[s] <= tries[s]
    /\ asked[s] > 0 => link /\ handle[s] = session
    /\ reported[s] = IF stillPending[s] THEN 0 ELSE 1
    /\ pending[s] => stillPending[s]
    /\ tries[s] = 0 => stillPending[s] /\ ~pending[s]
    /\ stage[s] = "active" \/ stage[s] = "closed" \/ (tries[s] = 0 /\ never[s] = "no")
    /\ stage[s] = "active" => never[s] = "no"
    /\ never[s] = "exhausted" => stillPending[s] /\ ~pending[s]
    /\ never[s] = "aborted" => asked[s] = 0

IInv ==
    /\ TypeOK
    /\ LoginInv
    /\ \A s \in Shares : CallInv(s)
    /\ HandlerExists /\ NothingForgotten /\ ConnectedCanSubmit
    /\ QueueOfConnection

(* Each share takes the way ShareDelivery describes, whatever the handler  *)
(* map, the retry timer and the other threads do: only written to a        *)
(* connection whose login was accepted, settled by its first answer, not   *)
(* answered after it was given up, and never forgotten.                    *)
WayOf(s) ==
    CASE stage[s] = "none" -> "none"
      [] stage[s] \in {"found", "held", "checked", "posted"} -> "found"
      [] stage[s] = "active" -> "calling"
      [] OTHER -> "over"

ToldOf(s) ==
    (IF stillPending[s] THEN {} ELSE {"answered"})
        \cup (IF never[s] = "no" THEN {} ELSE {never[s]})

LoggedIn == link /\ login = "done"

Share(s) == INSTANCE ShareDelivery WITH
    way <- WayOf(s), told <- ToldOf(s), copies <- asked[s],
    reach <- CanWrite(s), ready <- LoggedIn
SharesDelivered ==
    /\ \A s \in Shares : Share(s)!Init
    /\ [][\A s \in Shares : [Share(s)!Next]_(Share(s)!vars)]_vars

(* A share is dropped, lost in disconnectAll, or its call ends.            *)
SharesSettle ==
    \A s \in Shares : stage[s] = "found" ~> stage[s] \in {"dropped", "lost", "closed"}

=============================================================================
