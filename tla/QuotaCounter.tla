--------------------------- MODULE QuotaCounter ---------------------------
(***************************************************************************)
(* What the session store promises about its byte counter, with no word    *)
(* about how: an owner asks for n bytes, and in ONE step is granted them   *)
(* or refused.  It is granted exactly when they fit in the quota, judged   *)
(* on the counter's value at that step; what it holds, it may give back.   *)
(* A quota of zero means "unlimited", and then nothing is counted.         *)
(*                                                                         *)
(* SessionStore, which loads, compares and swaps in separate steps, is     *)
(* shown to implement this module; SessionImpl and StreamingPut use it.    *)
(***************************************************************************)
EXTENDS ByteCount

CONSTANTS
    Owners,     \* who may hold bytes
    Quota,      \* the limit, 0 for none
    MaxRequest  \* the most bytes one request asks for

VARIABLES
    used,    \* the counter
    held,    \* held[o]: the bytes that o has been granted and not given back
    asking,  \* asking[o]: whether o waits for an answer
    request, \* request[o]: the bytes that o asks, or last asked, for
    answer   \* answer[o]: the answer to o's last request

qvars == <<used, held, asking, request, answer>>

Fits(n) == Quota = 0 \/ used + n <= Quota
Counted(n) == IF Quota = 0 THEN 0 ELSE n

QInit ==
    /\ used = 0
    /\ held = [o \in Owners |-> 0]
    /\ asking = [o \in Owners |-> FALSE]
    /\ request = [o \in Owners |-> 0]
    /\ answer = [o \in Owners |-> "none"]

Ask(o) ==
    /\ ~asking[o]
    /\ \E n \in 0..MaxRequest : request' = [request EXCEPT ![o] = n]
    /\ asking' = [asking EXCEPT ![o] = TRUE]
    /\ answer' = [answer EXCEPT ![o] = "none"]
    /\ UNCHANGED <<used, held>>

Grant(o) ==
    /\ asking[o]
    /\ Fits(request[o])
    /\ used' = used + Counted(request[o])
    /\ held' = [held EXCEPT ![o] = @ + request[o]]
    /\ asking' = [asking EXCEPT ![o] = FALSE]
    /\ answer' = [answer EXCEPT ![o] = "granted"]
    /\ UNCHANGED request

Refuse(o) ==
    /\ asking[o]
    /\ ~Fits(request[o])
    /\ asking' = [asking EXCEPT ![o] = FALSE]
    /\ answer' = [answer EXCEPT ![o] = "refused"]
    /\ UNCHANGED <<used, held, request>>

GiveBack(o) ==
    /\ ~asking[o]
    /\ \E n \in 1..held[o] :
          /\ held' = [held EXCEPT ![o] = @ - n]
          /\ used' = used - Counted(n)
    /\ UNCHANGED <<asking, request, answer>>

QNext == \E o \in Owners : Ask(o) \/ Grant(o) \/ Refuse(o) \/ GiveBack(o)

QSpec == QInit /\ [][QNext]_qvars
=============================================================================
