------------------------------ MODULE GetRequest ------------------------------
(***************************************************************************)
(* A GET call of api() (frontend/src/api.ts) inside an effect of a page:   *)
(* it is sent twice at most, given up after 15 seconds each time, and      *)
(* aborted when the effect is cleaned up.                                  *)
(*                                                                         *)
(* An effect keeps a flag active of its own.  The call of an effect that   *)
(* was cleaned up still comes back, as a rejection; the handlers ask the   *)
(* flag before they touch the state of the page.                           *)
(***************************************************************************)
EXTENDS Naturals

CONSTANT Effects  \* effects that read, each again and again

VARIABLES
  get,    \* get[e]: the call of the running effect
  stray   \* effects with an aborted call that has not come back yet

getVars == <<get, stray>>

(* "none": there is no call, or it has come back; "first", "second": a request is
   under way; "pause": 300 ms between the two *)
GetTypeOK == get \in [Effects -> {"none", "first", "pause", "second"}] /\ stray \in SUBSET Effects

GetInit == get = [e \in Effects |-> "none"] /\ stray = {}

InFlight(e) == get[e] \in {"first", "second"}

At(e, next) == get' = [get EXCEPT ![e] = next] /\ UNCHANGED stray

Send(e) == get[e] = "none" /\ At(e, "first")

(* No answer, no connection, or a status in transientStatuses, for the first time *)
Pause(e) == get[e] = "first" /\ At(e, "pause")
Resend(e) == get[e] = "pause" /\ At(e, "second")

(* The answer is there, or the call throws: another status at any time, anything
   the second time. *)
Return(e) == InFlight(e) /\ At(e, "none")

(* The cleanup of the effect: active = false and abort(). *)
Abort(e) ==
  /\ get' = [get EXCEPT ![e] = "none"]
  /\ stray' = IF get[e] # "none" THEN stray \cup {e} ELSE stray

(* An aborted call rejects. *)
Reject(e) == e \in stray /\ stray' = stray \ {e} /\ UNCHANGED get

=============================================================================
