---------------------------- MODULE ArchiveStore ----------------------------
(***************************************************************************)
(* What the sync engine may rely on from its state store, and nothing      *)
(* more: a working image in memory and a durable image on disk, the        *)
(* durable one replaced by the working one at once or not at all.  How     *)
(* little of the working image a Save really writes (dirty rows, added     *)
(* sequence numbers, a prune bound) is StateStore's business; StateStore   *)
(* is shown to implement this module.                                      *)
(*                                                                         *)
(* An image is [files, cursor, pushed, skipped, identity].                 *)
(***************************************************************************)

CONSTANTS Images,     \* every image the store can hold
          Empty,      \* the image of a freshly created database
          Identities, \* (endpoint, user, token) fingerprints
          NoIdentity  \* the fingerprint of a fresh database

VARIABLES phase,      \* "none": no store object; "open"; "closed"
          working,    \* the image the engine reads and mutates
          durable     \* the image a restart would find

vars == <<phase, working, durable>>

Init ==
  /\ phase = "none"
  /\ working = Empty
  /\ durable = Empty

(* The engine changes its working image; the identity is the store's.      *)
Mutate ==
  /\ phase # "none"
  /\ working' \in Images
  /\ working'.identity = working.identity
  /\ UNCHANGED <<phase, durable>>

(* A Save that returns without error.                                      *)
Commit ==
  /\ phase = "open"
  /\ durable' = working
  /\ UNCHANGED <<phase, working>>

(* A store opened under id continues the durable image when it is id's or  *)
(* nobody's; otherwise, or when the file on disk is unreadable, both       *)
(* images start empty.                                                     *)
Open(id) ==
  /\ phase # "open"
  /\ phase' = "open"
  /\ \/ /\ durable.identity \in {NoIdentity, id}
        /\ UNCHANGED durable
     \/ durable' = Empty
  /\ working' = [durable' EXCEPT !.identity = id]

(* An open that fails leaves no store object; it may have set the old file *)
(* aside.                                                                  *)
OpenFails ==
  /\ phase # "open"
  /\ phase' = "none"
  /\ working' = Empty
  /\ durable' \in {durable, Empty}

Close ==
  /\ phase # "none"
  /\ phase' = "closed"
  /\ UNCHANGED <<working, durable>>

Crash ==
  /\ phase' = "none"
  /\ working' = Empty
  /\ UNCHANGED durable

Next ==
  \/ Mutate \/ Commit \/ Close \/ Crash \/ OpenFails
  \/ \E id \in Identities : Open(id)

Spec == Init /\ [][Next]_vars
=============================================================================
