------------------------------ MODULE SeatLocks ------------------------------
(***************************************************************************)
(* The short-lived seat locks that LockService keeps in Redis              *)
(* (backend/src/lock.service.ts).                                          *)
(*                                                                         *)
(* A key lock:event:<event>:seat:<seat> holds the id of the reservation    *)
(* that locked the seat.  The model is of ONE event: keys of different     *)
(* events never meet.  Each Lua script runs atomically on the server, so   *)
(* each is one state change here.  A key also disappears by itself, when   *)
(* its PSETEX time runs out or when Redis loses its memory.                *)
(***************************************************************************)

CONSTANTS
  Seats,    \* the seats of one event
  Resv,     \* the ids the create calls draw with randomUUID(), one per call
  NoOwner   \* the value of a key that does not exist

ASSUME NoOwnerAssumption == NoOwner \notin Resv

VARIABLE lock   \* lock[s]: the value stored under the key of seat s

LockTypeOK == lock \in [Seats -> Resv \cup {NoOwner}]

LockInit == lock = [s \in Seats |-> NoOwner]

LockedBy(o) == {s \in Seats : lock[s] = o}

LockAll(S, owner) == lock' = [s \in Seats |-> IF s \in S THEN owner ELSE lock[s]]

(* Mutants: a key is deleted whoever holds it; SET instead of PSETEX, so that no
   time runs out. *)
ReleaseUnowned(S, owner) == lock' = [s \in Seats |-> IF s \in S THEN NoOwner ELSE lock[s]]
VanishWithoutTtl(s) == FALSE

(***************************************************************************)
(* ACQUIRE_SCRIPT: one loop refuses if any key exists, a second loop sets  *)
(* them all.  (When it refuses it writes nothing: that is a stutter.)      *)
(***************************************************************************)
Acquire(S, owner) ==
  /\ \A s \in S : lock[s] = NoOwner
  /\ LockAll(S, owner)

(***************************************************************************)
(* RELEASE_SCRIPT: deletes those of the keys that still hold the caller's  *)
(* id, and no other.                                                       *)
(***************************************************************************)
Release(S, owner) ==
  lock' = [s \in Seats |-> IF s \in S /\ lock[s] = owner THEN NoOwner
                           ELSE lock[s]]

(***************************************************************************)
(* The key of seat s is gone: its time ran out or the server dropped it.   *)
(***************************************************************************)
Vanish(s) ==
  /\ lock[s] # NoOwner
  /\ lock' = [lock EXCEPT ![s] = NoOwner]

=============================================================================
