--------------------------- MODULE ShareDelivery ---------------------------
(***************************************************************************)
(* What a stratum pool promises of the way one share takes to the server,  *)
(* whatever becomes of the connection meanwhile: the share is written only *)
(* while its call is under way and nobody has been told what came of it,   *)
(* and only to a connection the server has accepted the login on; its      *)
(* first answer is the only one that counts, and none counts after the     *)
(* share was given up; its call does not end before somebody is told. Only *)
(* abortAllAsyncRetries may tell of a share that was answered that it was  *)
(* not: it asks none of the calls under way whether it is still pending.   *)
(***************************************************************************)
EXTENDS Naturals

VARIABLES
    way,    \* "none", "found", "calling" and "over"
    told,   \* what has been told of the share: "answered", "exhausted", "aborted"
    copies, \* requests the server has received and not answered
    reach,  \* whether what is written for the share reaches the server
    ready   \* whether the server has accepted the login of the open connection

vars == <<way, told, copies, reach, ready>>

Init ==
    /\ way = "none"
    /\ told = {}
    /\ copies = 0
    /\ reach = FALSE
    /\ ready = FALSE

(* The connection. A call never moves to a later one.                      *)
Accept ==
    /\ ~ready
    /\ ready' = TRUE
    /\ UNCHANGED <<way, told, copies, reach>>

Hangup ==
    /\ ready' = FALSE
    /\ reach' = FALSE
    /\ copies' = 0

Lose == Hangup /\ UNCHANGED <<way, told>>

(* disconnectAll: a call under way is aborted, one not made yet may be     *)
(* forgotten.                                                              *)
Abort ==
    /\ Hangup
    /\ \/ way = "calling" /\ told' = told \cup {"aborted"}
       \/ way = "found" /\ UNCHANGED told
    /\ way' = "over"

(* The share.                                                              *)
Find ==
    /\ way = "none"
    /\ way' = "found"
    /\ UNCHANGED <<told, copies, reach, ready>>

Discard ==
    /\ way = "found"
    /\ way' = "over"
    /\ UNCHANGED <<told, copies, reach, ready>>

Call ==
    /\ way = "found"
    /\ way' = "calling"
    /\ reach' \in {FALSE, ready}
    /\ UNCHANGED <<told, copies, ready>>

Write ==
    /\ way = "calling" /\ told = {}
    /\ reach
    /\ copies' = copies + 1
    /\ UNCHANGED <<way, told, reach, ready>>

Answer ==
    /\ copies > 0
    /\ copies' = copies - 1
    /\ told' = IF told = {} THEN {"answered"} ELSE told
    /\ UNCHANGED <<way, reach, ready>>

GiveUp ==
    /\ way = "calling" /\ told = {}
    /\ way' = "over"
    /\ told' = {"exhausted"}
    /\ UNCHANGED <<copies, reach, ready>>

Settle ==
    /\ way = "calling" /\ told = {"answered"}
    /\ way' = "over"
    /\ UNCHANGED <<told, copies, reach, ready>>

Next ==
    \/ Accept \/ Lose \/ Abort
    \/ Find \/ Discard \/ Call \/ Write \/ Answer \/ GiveUp \/ Settle

Spec == Init /\ [][Next]_vars
=============================================================================
