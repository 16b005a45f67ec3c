----------------------------- MODULE ApiServer -----------------------------
(***************************************************************************)
(* The JSON-RPC server that the API is: BaseIO's side of the server, which *)
(* accepts connections, the layers that make a message of a line, and      *)
(* JsonRpcUtil, which finds the method and writes the answer. One thread   *)
(* runs all handlers. One that reads statistics keeps a lock while it does *)
(* so, and may have to wait for it; Application has the locks.             *)
(*                                                                         *)
(* A message is told by which of its members it has. A line that is not    *)
(* JSON, and members of the wrong type, are an error member that is broken.*)
(* A connection is kept alive by the reads and writes queued on it. The    *)
(* socket takes an answer at once if its buffer has room for all of it.    *)
(* Otherwise the rest of the answer is sent later, from a string that has  *)
(* been destroyed, and the next answer may be written before it: nothing   *)
(* waits for a write. What a client reads from then on is not followed.    *)
(***************************************************************************)
EXTENDS Naturals, SequencesExt

CONSTANTS
    Clients,
    NoClient

ASSUME ApiServerAssumption == NoClient \notin Clients

VARIABLES
    api,      \* the thread: "off", "idle", or in a handler: "gpus", "wait", "pools"
    serving,  \* the connection whose request that handler is for
    cxn       \* per client: the connection and what has been sent on it

apiVars == <<api, serving, cxn>>

(* link is the state of the socket; reading tells that a read is queued;   *)
(* asked and taken count the messages sent and handled; writes counts the  *)
(* writes whose handlers have not been called, and rests those of them the *)
(* socket has not taken all of; whole tells that it has taken every answer *)
(* at once so far, and got are the answers up to the first that it did not.*)
NewCxn == [link |-> "none", reading |-> FALSE, asked |-> 0, taken |-> 0,
           writes |-> 0, rests |-> 0, whole |-> TRUE, got |-> <<>>]

ApiInit ==
    /\ api = "off"
    /\ serving = NoClient
    /\ cxn = [c \in Clients |-> NewCxn]

-----------------------------------------------------------------------------
(* Messages.                                                               *)

(* The constructor of Message, which throws for one without a method.      *)
KindOf(m) ==
    CASE m.error = "broken"                      -> "none"
      [] m.error = "whole"                       -> "response"
      [] m.error \in {"absent", "null"} /\ m.result -> "response"
      [] OTHER -> IF m.method = "absent" THEN "none" ELSE "request"

(* An id that is null or an empty container counts as none.                *)
IsNotification(m) == m.id \in {"absent", "empty"}

(* divide takes two numbers; the others take none, and look at nothing.    *)
StatsMethods == {"getGpuStats", "getPoolStats"}
DivideOutcome(m) ==
    CASE m.args = "missing"  -> "invalid_params"
      [] m.args = "mistyped" -> "internal_error"
      [] m.args = "zero"     -> "invalid_params"
      [] m.args = "fit"      -> "result"

Outcome(m) ==
    CASE m.method = "divide"       -> DivideOutcome(m)
      [] m.method \in StatsMethods -> "result"
      [] OTHER                     -> "method_not_found"

(* The answer to a message, as a sequence of at most one. It is written    *)
(* also for a notification if there is no such method.                     *)
AnswerTo(m) ==
    IF KindOf(m) = "request" /\ (~IsNotification(m) \/ Outcome(m) = "method_not_found")
    THEN <<[id |-> m.id, outcome |-> Outcome(m)]>>
    ELSE <<>>

-----------------------------------------------------------------------------
(* Connections.                                                            *)

(* The connection closes when nothing is queued on it any more.            *)
Kept(r) ==
    IF r.reading \/ r.writes # 0 \/ r.link = "none" THEN r
    ELSE [r EXCEPT !.link = "closed"]

Set(c, r) == cxn' = [cxn EXCEPT ![c] = Kept(r)]

Stays == UNCHANGED <<api, serving>>

(* serverListen: the handshake without TLS is done at once, the new        *)
(* connection is read from, and the acceptor accepts again.                *)
Accept(c) ==
    /\ api = "idle" /\ cxn[c].link = "calling"
    /\ Set(c, [cxn[c] EXCEPT !.link = "open", !.reading = TRUE])
    /\ Stays

HasNext(c) == cxn[c].reading /\ cxn[c].taken < cxn[c].asked

(* asyncWrite of no or one answer. Whether the socket takes it at once     *)
(* depends on what the client has read, and on the size of the answer.     *)
Written(r, answer, atOnce) ==
    [r EXCEPT !.writes = @ + Len(answer),
              !.rests = IF atOnce THEN @ ELSE @ + Len(answer),
              !.whole = @ /\ atOnce,
              !.got = IF r.whole /\ atOnce /\ r.link = "open" THEN @ \o answer ELSE @]

AtOnce(answer) == IF answer = <<>> THEN {TRUE} ELSE BOOLEAN

(* A server that does not read on.                                         *)
HandledOnce(c, answer, atOnce) ==
    Written([cxn[c] EXCEPT !.taken = @ + 1, !.reading = FALSE], answer, atOnce)

(* What is left of the connection when the message has been handled.       *)
Handled(c, answer, atOnce) ==
    Written([cxn[c] EXCEPT !.taken = @ + 1, !.reading = TRUE], answer, atOnce)

SetHandled(c, answer) ==
    \E atOnce \in AtOnce(answer) : Set(c, Handled(c, answer, atOnce))

(* A line that is no message is only logged, and nothing is read again.    *)
ReceiveBroken(c, m) ==
    /\ KindOf(m) = "none"
    /\ Set(c, [cxn[c] EXCEPT !.taken = @ + 1, !.reading = FALSE])
    /\ Stays

(* No response is waited for by a server.                                  *)
ReceiveResponse(c, m) ==
    /\ KindOf(m) = "response"
    /\ SetHandled(c, <<>>)
    /\ Stays

ReceiveRequest(c, m) ==
    /\ KindOf(m) = "request" /\ m.method \notin StatsMethods
    /\ SetHandled(c, AnswerTo(m))
    /\ Stays

(* The statistics are read under a lock: see ReadStats.                    *)
ReceiveStatsRequest(c, m) ==
    /\ KindOf(m) = "request" /\ m.method \in StatsMethods
    /\ api' = IF m.method = "getGpuStats" THEN "gpus" ELSE "wait"
    /\ serving' = c
    /\ UNCHANGED cxn

Receive(c, m) ==
    /\ api = "idle" /\ HasNext(c)
    /\ \/ ReceiveBroken(c, m) \/ ReceiveResponse(c, m)
       \/ ReceiveRequest(c, m) \/ ReceiveStatsRequest(c, m)

BeginPoolStats ==
    /\ api = "wait"
    /\ api' = "pools"
    /\ UNCHANGED <<serving, cxn>>

(* A server with one connection to write to, as clients have.              *)
AnswerOnAny(c, answer) ==
    \E other \in Clients :
        /\ cxn[other].link = "open"
        /\ cxn' = [cxn EXCEPT ![c].taken = @ + 1, ![other] = Written(@, answer, TRUE)]

AnswerOn(c, answer) == SetHandled(c, answer)

EndStats(m) ==
    /\ api \in {"gpus", "pools"}
    /\ AnswerOn(serving, AnswerTo(m))
    /\ api' = "idle" /\ serving' = NoClient

ReadEof(c) ==
    /\ api = "idle" /\ cxn[c].link = "closing"
    /\ cxn[c].reading /\ ~HasNext(c)
    /\ Set(c, [cxn[c] EXCEPT !.reading = FALSE])
    /\ Stays

(* The handler of a write, which only logs an error.                       *)
WriteEnds(c) ==
    /\ api = "idle" /\ cxn[c].writes > cxn[c].rests
    /\ Set(c, [cxn[c] EXCEPT !.writes = @ - 1])
    /\ Stays

(* The client has read enough for the rest of an answer, or has gone.      *)
SendRest(c) ==
    /\ api = "idle" /\ cxn[c].rests > 0
    /\ Set(c, [cxn[c] EXCEPT !.rests = @ - 1])
    /\ Stays

-----------------------------------------------------------------------------
(* The clients.                                                            *)

Connect(c) ==
    /\ api # "off" /\ cxn[c].link = "none"
    /\ cxn' = [cxn EXCEPT ![c].link = "calling"]
    /\ Stays

Ask(c) ==
    /\ cxn[c].link = "open"
    /\ cxn' = [cxn EXCEPT ![c].asked = @ + 1]
    /\ Stays

HangUp(c) ==
    /\ cxn[c].link = "open"
    /\ cxn' = [cxn EXCEPT ![c].link = "closing"]
    /\ Stays

-----------------------------------------------------------------------------
(* The owner. The port may be in use. The destructor waits for the handler *)
(* that runs, and destroys the others.                                     *)

LaunchServer == api' \in {"idle", "off"} /\ UNCHANGED <<serving, cxn>>

StopServer ==
    /\ api \in {"idle", "off"}
    /\ api' = "off"
    /\ cxn' = [c \in Clients |->
                 [cxn[c] EXCEPT !.link = "closed", !.reading = FALSE, !.writes = 0, !.rests = 0]]
    /\ UNCHANGED serving

ApiTypeOK ==
    /\ api \in {"off", "idle", "gpus", "wait", "pools"}
    /\ serving \in Clients \cup {NoClient}
    /\ \A c \in Clients :
          /\ cxn[c].link \in {"none", "calling", "open", "closing", "closed"}
          /\ cxn[c].taken <= cxn[c].asked
    /\ serving = NoClient <=> api \in {"off", "idle"}
=============================================================================
