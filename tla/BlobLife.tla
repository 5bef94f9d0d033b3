------------------------------ MODULE BlobLife ------------------------------
(***************************************************************************)
(* What the relay promises of a blob, whatever sessions, uploads, deletions *)
(* and failures go on around it.  An id is issued once, in order.  While   *)
(* its upload is being received its data only grows; once it is stored, or *)
(* its upload has failed, its data does not change; once it is gone it     *)
(* does not come back.  StreamingPut implements this (ImplementsBlobLife). *)
(***************************************************************************)
EXTENDS Naturals

CONSTANT MaxBlobs  \* bound of the model: ids issued by one process

VARIABLES
    issued,  \* the last id issued
    phase,   \* phase[b]: where the blob b is in its life
    length   \* length[b]: the bytes of b that are there

lifeVars == <<issued, phase, length>>

Ids == 1..MaxBlobs

LifeInit ==
    /\ issued = 0
    /\ phase = [b \in Ids |-> "unissued"]
    /\ length = [b \in Ids |-> 0]

\* A blob to upload has no data yet; a file of the host is stored at once, with
\* its data; an id may be taken in vain.
Issue(b) ==
    /\ b = issued + 1
    /\ issued' = b
    /\ \E p \in {"receiving", "stored", "gone"} : phase' = [phase EXCEPT ![b] = p]
    /\ length' = [length EXCEPT ![b] = length'[b]]
    /\ length'[b] \in IF phase'[b] = "stored" THEN Nat ELSE {0}

Receive(b) ==
    /\ phase[b] = "receiving"
    /\ length' = [length EXCEPT ![b] = length'[b]]
    /\ length'[b] \in Nat /\ length'[b] >= length[b]
    /\ UNCHANGED <<issued, phase>>

\* The upload ends, acknowledged or not.
Finish(b) ==
    /\ phase[b] = "receiving"
    /\ \E p \in {"stored", "partial"} : phase' = [phase EXCEPT ![b] = p]
    /\ UNCHANGED <<issued, length>>

\* Blobs go together when their session does, or a file that they share.
Lose(B) ==
    /\ \A b \in B : phase[b] # "unissued"
    /\ phase' = [b \in Ids |-> IF b \in B THEN "gone" ELSE phase[b]]
    /\ length' = [b \in Ids |-> IF b \in B THEN 0 ELSE length[b]]
    /\ UNCHANGED issued

\* The process dies; the next one knows nothing of these blobs.
Restart == issued' = 0 /\ phase' = [b \in Ids |-> "unissued"] /\ length' = [b \in Ids |-> 0]

LifeNext ==
    \/ \E b \in Ids : Issue(b) \/ Receive(b) \/ Finish(b)
    \/ \E B \in SUBSET Ids : Lose(B)
    \/ Restart

LifeSpec == LifeInit /\ [][LifeNext]_lifeVars
=============================================================================
