------------------------------- MODULE Accounts -------------------------------
(***************************************************************************)
(* The roles of the accounts (table User), the tokens that carry them, and *)
(* the guard that looks at the token alone                                 *)
(* (backend/src/auth.controller.ts, backend/src/security.ts).              *)
(*                                                                         *)
(* Time passes in ticks, of which a token lives Hour; a login call, which  *)
(* the browser gives up after 15 seconds, does not outlast one.            *)
(***************************************************************************)
EXTENDS Naturals

CONSTANTS
  Users,
  Devices,   \* browsers; each holds one token at most
  NoClaims,  \* no token, or one that has expired; no login under way
  Hour       \* expiresIn

ASSUME AccountsAssumption == Hour \in Nat \ {0}

VARIABLES
  role,    \* role[u]: User.role
  since,   \* since[u]: ticks since it was last changed; Hour: that long or longer
  login,   \* login[d]: the claims that the login call of d will sign
  claims,  \* claims[d]: those of the token of d, which has not expired
  life     \* life[d]: ticks that it has left

accountVars == <<role, since, login, claims, life>>

Roles == {"CUSTOMER", "ORGANIZER", "ADMIN"}
Claims == [sub : Users, role : Roles]

AccountsTypeOK ==
  /\ role \in [Users -> Roles]
  /\ since \in [Users -> 0..Hour]
  /\ login \in [Devices -> Claims \cup {NoClaims}]
  /\ claims \in [Devices -> Claims \cup {NoClaims}]
  /\ life \in [Devices -> 0..Hour]
  /\ \A d \in Devices : life[d] = 0 <=> claims[d] = NoClaims

AccountsInit ==
  /\ role \in [Users -> Roles]
  /\ since = [u \in Users |-> Hour]
  /\ login = [d \in Devices |-> NoClaims]
  /\ claims = [d \in Devices |-> NoClaims]
  /\ life = [d \in Devices |-> 0]

(* POST /auth/login reads the user, compares the password ... *)
LoginRead(d, u) ==
  /\ login[d] = NoClaims
  /\ login' = [login EXCEPT ![d] = [sub |-> u, role |-> role[u]]]
  /\ UNCHANGED <<role, since, claims, life>>

(* ... and signs what it read. *)
LoginSign(d) ==
  /\ login[d] # NoClaims
  /\ login' = [login EXCEPT ![d] = NoClaims]
  /\ claims' = [claims EXCEPT ![d] = login[d]]
  /\ life' = [life EXCEPT ![d] = Hour]
  /\ UNCHANGED <<role, since>>

(* A wrong password, an error or the end of the 15 seconds. *)
LoginFails(d) ==
  /\ login[d] # NoClaims
  /\ login' = [login EXCEPT ![d] = NoClaims]
  /\ UNCHANGED <<role, since, claims, life>>

(* AuthGuard: a token that verifies, and a role in it that the handler asks for. *)
Guard(d, roles) == claims[d] # NoClaims /\ claims[d].role \in roles

(* PATCH /users/:id/role, of any user, the caller included *)
ChangeRole(d, u, r) ==
  /\ Guard(d, {"ADMIN"})
  /\ role' = [role EXCEPT ![u] = r]
  /\ since' = [since EXCEPT ![u] = IF r = role[u] THEN @ ELSE 0]
  /\ UNCHANGED <<login, claims, life>>

Age(left) ==
  /\ \A d \in Devices : login[d] = NoClaims
  /\ since' = [u \in Users |-> IF since[u] = Hour THEN Hour ELSE since[u] + 1]
  /\ life' = left
  /\ claims' = [d \in Devices |-> IF left[d] = 0 THEN NoClaims ELSE claims[d]]
  /\ UNCHANGED <<role, login>>

(* Mutant: a token that is used by then is renewed. *)
TickRenews ==
  \E D \in SUBSET {d \in Devices : life[d] > 0} :
    Age([d \in Devices |-> IF d \in D THEN Hour ELSE IF life[d] = 0 THEN 0 ELSE life[d] - 1])

Tick == Age([d \in Devices |-> IF life[d] = 0 THEN 0 ELSE life[d] - 1])

AccountsStep ==
  \/ \E d \in Devices : \/ \E u \in Users : LoginRead(d, u)
                        \/ LoginSign(d) \/ LoginFails(d)
                        \/ \E u \in Users, r \in Roles : ChangeRole(d, u, r)
  \/ Tick

=============================================================================
