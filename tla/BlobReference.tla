--------------------------- MODULE BlobReference ---------------------------
(***************************************************************************)
(* The references that clients get for their uploads, across restarts of   *)
(* the process: tag_generator, compute_tag and the references in the       *)
(* answers of StreamingPut.                                                *)
(*                                                                         *)
(* A reference is a blob id and a tag, which is a hash of the blob and the *)
(* session under a key that the process draws when it starts.  Ids of      *)
(* blobs and sessions start from 1 again in the next process, so the key   *)
(* alone tells a reference of a dead process from one of the living.       *)
(* Clients keep their references: references never shrinks.                *)
(*                                                                         *)
(* The hash is taken as injective and a key as never drawn twice: what is  *)
(* left out is that 64 bits of tag or 128 bits of key collide.             *)
(***************************************************************************)
EXTENDS StreamingPut

VARIABLES
    hmac_secret_key_, \* the key of the process, or of the last one: its number
    references        \* what clients were given, with the session and the length
                      \*   that the file had, to talk about later

refVars == <<vars, hmac_secret_key_, references>>

RefInit ==
    /\ Init
    /\ hmac_secret_key_ = 0
    /\ references = {}

-----------------------------------------------------------------------------
\* Mutant of RandomKey: the key is the same in every process.
FixedKey == hmac_secret_key_

RandomKey == hmac_secret_key_ + 1

\* The constructor of tag_generator runs when the directory has been emptied.
DrawsKey == hmac_secret_key_' = IF ~running /\ running' THEN RandomKey ELSE hmac_secret_key_

generate_reference_tag(b, s) == <<hmac_secret_key_, b, s>>

\* The answer OK of an upload carries its reference.
Acknowledged(c) == status[c] # "OK" /\ status'[c] = "OK"

Reference(c) ==
    [blob |-> putBlob[c],
     tag |-> generate_reference_tag(putBlob[c], putSession[c]),
     session |-> putSession[c],
     length |-> files[UploadPath(putBlob[c])]]

HandsOut == references' = references \cup {Reference(c) : c \in {d \in Calls : Acknowledged(d)}}

RefNext == Next /\ DrawsKey /\ HandsOut

RefSpec == RefInit /\ [][RefNext]_refVars

-----------------------------------------------------------------------------
\* The host takes a reference that a client presents in session s when find()
\* knows the blob and compute_tag() gives the tag.
Accepts(s, r) ==
    /\ HasSession(s)
    /\ r.blob \in blobs_[s]
    /\ generate_reference_tag(r.blob, s) = r.tag

\* A reference that the host accepts stands for the upload it was given for: it
\* was given in that session, and the path that find() has is a file of the
\* store with the length it then had, or the file is gone.  No restart, failed
\* deletion or later upload puts other data behind a reference.
AcceptedIsWhole == running => \A r \in references, s \in Sessions : Accepts(s, r) =>
    /\ r.session = s
    /\ entry_path[r.blob] = UploadPath(r.blob)
    /\ files[entry_path[r.blob]] \in {NoFile, r.length}

\* The counter comes to fall short of the entries only when an unlink fails
\* after the bytes were given back and the entry stays (SI:75).
ShortOnlyByFailedUnlink == [][NeverUndercounted /\ ~NeverUndercounted' =>
    \E t \in Threads :
        /\ deleting[t] # NoBlob /\ deleting'[t] = NoBlob
        /\ \E s \in Sessions : deleting[t] \in blobs_'[s]]_refVars
=============================================================================
