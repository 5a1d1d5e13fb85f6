------------------------- MODULE TicketCheckInProofs -------------------------
(***************************************************************************)
(* Theorems about the check-in, for any number of accounts, gates and      *)
(* tickets, and any life of a token.                                       *)
(***************************************************************************)
EXTENDS TicketCheckIn, FiniteSetTheorems, TLAPS

(* A role that an account has lost is in no token that outlives, and in no login
   call that began before, the last hour. *)
RolesAge ==
  \A d \in Devices :
    /\ claims[d] # NoClaims /\ claims[d].role # role[claims[d].sub]
         => since[claims[d].sub] + life[d] <= Hour
    /\ login[d] # NoClaims /\ login[d].role # role[login[d].sub]
         => since[login[d].sub] = 0

(* Whoever was let in has used the ticket up. *)
AdmittedUsed == \A t \in Tickets : admitted[t] > 0 => t \in used

(* The types that the proof needs: TypeOK without its bound on admitted, for which
   the gates have to be counted, below. *)
Types ==
  /\ AccountsTypeOK
  /\ used \in SUBSET Tickets
  /\ entity \in [Gates -> Tickets \cup {NoTicket}]
  /\ admitted \in [Tickets -> Nat]

IInv == Types /\ RolesAge /\ AdmittedUsed

-----------------------------------------------------------------------------
LEMMA InitIInv == Init => IInv
BY AccountsAssumption
DEF Init, AccountsInit, IInv, Types, AccountsTypeOK, RolesAge, AdmittedUsed, Gates

(* The gates do not touch accounts and tokens. *)
LEMMA CheckIInv ==
  ASSUME IInv, NEW g \in Gates, CheckStep(g)
  PROVE  IInv'
<1> USE DEF IInv, Types, Gates
<1>1. UNCHANGED accountVars
  BY DEF CheckStep, Read, ReadIf, Save, SaveUnanswered, SaveFails, Finish
<1>2. AccountsTypeOK' /\ RolesAge'
  BY <1>1 DEF accountVars, AccountsTypeOK, RolesAge
<1>3. CASE \E t \in Tickets : Read(g, t)
  BY <1>2, <1>3 DEF Read, ReadIf, AdmittedUsed
<1>4. ASSUME NEW marks \in BOOLEAN, NEW lets \in BOOLEAN, Finish(g, marks, lets), lets => marks
      PROVE  IInv'
  BY <1>2, <1>4 DEF Finish, AdmittedUsed
<1> QED
  BY <1>3, <1>4 DEF CheckStep, Save, SaveUnanswered, SaveFails

LEMMA LoginIInv ==
  ASSUME IInv, UNCHANGED checkVars, NEW d \in Devices,
         (\E u \in Users : LoginRead(d, u)) \/ LoginSign(d) \/ LoginFails(d)
  PROVE  IInv'
<1> USE AccountsAssumption DEF IInv, Types, AccountsTypeOK, checkVars, Gates
<1>1. AdmittedUsed'
  BY DEF AdmittedUsed
<1>2. ASSUME NEW u \in Users, LoginRead(d, u) PROVE IInv'
  BY <1>1, <1>2 DEF LoginRead, RolesAge, Claims
<1>3. CASE LoginSign(d)
  BY <1>1, <1>3 DEF LoginSign, RolesAge
<1>4. CASE LoginFails(d)
  BY <1>1, <1>4 DEF LoginFails, RolesAge
<1> QED
  BY <1>2, <1>3, <1>4

(* A role that changes makes tokens stale that live no longer than Hour. *)
LEMMA ChangeRoleIInv ==
  ASSUME IInv, UNCHANGED checkVars, NEW d \in Devices, NEW u \in Users, NEW r \in Roles,
         ChangeRole(d, u, r)
  PROVE  IInv'
<1> USE AccountsAssumption DEF IInv, Types, AccountsTypeOK, checkVars, Gates, ChangeRole
<1>1. Types' /\ AdmittedUsed'
  BY DEF AdmittedUsed
<1>2. RolesAge'
  BY DEF RolesAge, Claims
<1> QED
  BY <1>1, <1>2

(* What the age of a role gains, the life of a token loses. *)
LEMMA TickIInv ==
  ASSUME IInv, UNCHANGED checkVars, Tick
  PROVE  IInv'
<1> USE AccountsAssumption DEF IInv, Types, AccountsTypeOK, checkVars, Gates, Tick, Age
<1>1. Types' /\ AdmittedUsed'
  BY DEF AdmittedUsed
<1>2. RolesAge'
  BY DEF RolesAge, Claims
<1> QED
  BY <1>1, <1>2

LEMMA NextIInv == IInv /\ [Next]_vars => IInv'
<1> SUFFICES ASSUME IInv, [Next]_vars PROVE IInv'
  OBVIOUS
<1>1. CASE UNCHANGED vars
  BY <1>1 DEF vars, accountVars, checkVars, IInv, Types, AccountsTypeOK, RolesAge, AdmittedUsed
<1>2. ASSUME NEW g \in Gates, CheckStep(g) PROVE IInv'
  BY <1>2, CheckIInv
<1>3. CASE AccountsStep /\ UNCHANGED checkVars
  BY <1>3, LoginIInv, ChangeRoleIInv, TickIInv DEF AccountsStep
<1> QED
  BY <1>1, <1>2, <1>3 DEF Next

(* Every reachable state of the gates and the accounts satisfies the invariant. *)
THEOREM Invariance == Spec => []IInv
BY InitIInv, NextIInv, PTL DEF Spec

-----------------------------------------------------------------------------
(* A gate that begins to let people in shows a token whose role its account has,
   or had within the last hour. *)
LEMMA FreshRights ==
  ASSUME IInv, [Next]_vars, NEW g \in Gates, entity[g] = NoTicket, entity'[g] # NoTicket
  PROVE  \/ role[claims[g].sub] \in {"ORGANIZER", "ADMIN"}
         \/ since[claims[g].sub] < Hour
<1>1. PICK t \in Tickets : Read(g, t)
  <2>1. ~ UNCHANGED entity
    OBVIOUS
  <2>2. PICK h \in Gates : CheckStep(h)
    BY <2>1 DEF Next, vars, checkVars
  <2>3. ASSUME NEW marks \in BOOLEAN, NEW lets \in BOOLEAN, Finish(h, marks, lets) PROVE FALSE
    BY <2>3 DEF Finish, IInv, Types
  <2>4. PICK t \in Tickets : Read(h, t)
    BY <2>2, <2>3 DEF CheckStep, Save, SaveUnanswered, SaveFails
  <2>5. h = g
    BY <2>4 DEF Read, ReadIf, IInv, Types
  <2> QED
    BY <2>4, <2>5
<1>2. claims[g] # NoClaims /\ claims[g].role \in {"ORGANIZER", "ADMIN"}
  BY <1>1 DEF Read, ReadIf, MayCheck, Guard
<1>3. CASE claims[g].role # role[claims[g].sub]
  <2>1. claims[g] \in Claims /\ life[g] \in 0..Hour /\ life[g] # 0
    BY <1>2 DEF IInv, Types, AccountsTypeOK, Gates
  <2>2. since[claims[g].sub] \in 0..Hour
    BY <2>1 DEF IInv, Types, AccountsTypeOK, Claims
  <2>3. since[claims[g].sub] + life[g] <= Hour
    BY <1>2, <1>3 DEF IInv, RolesAge, Gates
  <2> QED
    BY <2>1, <2>2, <2>3, AccountsAssumption
<1> QED
  BY <1>2, <1>3

(* Nobody is let in by somebody who has been off the staff for as long as a token
   lives, also when roles change while logins are under way. *)
THEOREM RightsEnd == Spec => RightsEndInTime
<1>1. IInv /\ [Next]_vars =>
        [\A g \in Gates : entity[g] = NoTicket /\ entity'[g] # NoTicket =>
           \/ role[claims[g].sub] \in {"ORGANIZER", "ADMIN"}
           \/ since[claims[g].sub] < Hour]_vars
  BY FreshRights
<1> QED
  BY <1>1, Invariance, PTL DEF Spec, RightsEndInTime

(* A ticket that is used, or that somebody was let in with, and that no gate is
   just checking, stays closed. *)
THEOREM UsedUp == Spec => UsedUpForGood
<1>1. ASSUME IInv, [Next]_vars, NEW t \in Tickets,
             t \in used \/ admitted[t] > 0, \A g \in Gates : entity[g] # t
      PROVE  admitted'[t] = admitted[t] /\ \A g \in Gates : entity'[g] # t
  <2> USE <1>1, TicketCheckInAssumption DEF IInv, Types
  <2>1. t \in used
    BY DEF AdmittedUsed
  <2>2. CASE UNCHANGED checkVars
    BY <2>2 DEF checkVars
  <2>3. ASSUME NEW h \in Gates, CheckStep(h)
        PROVE  admitted'[t] = admitted[t] /\ \A g \in Gates : entity'[g] # t
    <3>1. ASSUME NEW u \in Tickets, Read(h, u)
          PROVE  admitted'[t] = admitted[t] /\ \A g \in Gates : entity'[g] # t
      BY <2>1, <3>1 DEF Read, ReadIf
    <3>2. ASSUME NEW marks \in BOOLEAN, NEW lets \in BOOLEAN, Finish(h, marks, lets)
          PROVE  admitted'[t] = admitted[t] /\ \A g \in Gates : entity'[g] # t
      BY <3>2 DEF Finish
    <3> QED
      BY <2>3, <3>1, <3>2 DEF CheckStep, Save, SaveUnanswered, SaveFails
  <2> QED
    BY <2>2, <2>3 DEF Next, vars
<1>2. IInv /\ [Next]_vars =>
        [\A t \in Tickets :
           (t \in used \/ admitted[t] > 0) /\ (\A g \in Gates : entity[g] # t) =>
             /\ admitted'[t] = admitted[t]
             /\ \A g \in Gates : entity'[g] # t]_vars
  BY <1>1
<1> QED
  BY <1>2, Invariance, PTL DEF Spec, UsedUpForGood

-----------------------------------------------------------------------------
Checking(t) == {g \in Gates : entity[g] = t}

(* With a ticket, no more people were or will be let in than there are gates: those
   who were, and those who are being checked. *)
OncePerGate ==
  /\ organizer \in [Tickets -> Users]
  /\ \A t \in Tickets : admitted[t] + Cardinality(Checking(t)) <= Cardinality(Gates)

(* The gates that check one ticket are some of the gates. *)
LEMMA CheckingCounted ==
  \A t \in Tickets :
    /\ IsFiniteSet(Checking(t))
    /\ Cardinality(Checking(t)) \in Nat /\ Cardinality(Gates) \in Nat
    /\ Cardinality(Checking(t)) <= Cardinality(Gates)
BY TicketCheckInAssumption, FS_Subset, FS_CardinalityType DEF Checking, Gates

LEMMA InitOncePerGate == Init => OncePerGate
<1> SUFFICES ASSUME Init PROVE OncePerGate
  OBVIOUS
<1>1. \A t \in Tickets : admitted[t] = 0
  BY DEF Init
<1> QED
  BY <1>1, CheckingCounted DEF Init, OncePerGate

(* A gate reads a ticket only while nobody was let in with it. *)
LEMMA ReadOncePerGate ==
  ASSUME IInv, OncePerGate, NEW g \in Gates, NEW t \in Tickets, Read(g, t)
  PROVE  OncePerGate'
<1> USE TicketCheckInAssumption DEF IInv, Types, OncePerGate, Read, ReadIf
<1>1. ASSUME NEW u \in Tickets, u # t
      PROVE  admitted'[u] + Cardinality(Checking(u)') <= Cardinality(Gates)
  <2>1. Checking(u)' = Checking(u)
    BY <1>1 DEF Checking
  <2> QED
    BY <2>1
<1>2. admitted'[t] = 0
  <2>1. admitted[t] \in Nat /\ ~(admitted[t] > 0)
    BY DEF AdmittedUsed
  <2> QED
    BY <2>1
<1>3. Cardinality(Checking(t)') \in Nat /\ Cardinality(Checking(t)') <= Cardinality(Gates)
  BY FS_Subset, FS_CardinalityType DEF Checking, Gates
<1>4. admitted'[t] + Cardinality(Checking(t)') <= Cardinality(Gates)
  BY <1>2, <1>3
<1> QED
  BY <1>1, <1>4 DEF Gates

(* A gate that has let somebody in is checking no more. *)
LEMMA FinishOncePerGate ==
  ASSUME IInv, OncePerGate, NEW g \in Gates, NEW marks \in BOOLEAN, NEW lets \in BOOLEAN,
         Finish(g, marks, lets)
  PROVE  OncePerGate'
<1> USE TicketCheckInAssumption DEF IInv, Types, OncePerGate, Finish
<1>1. PICK t \in Tickets : entity[g] = t
  OBVIOUS
<1>2. ASSUME NEW u \in Tickets, u # t
      PROVE  admitted'[u] + Cardinality(Checking(u)') <= Cardinality(Gates)
  <2>1. Checking(u)' = Checking(u) /\ admitted'[u] = admitted[u]
    BY <1>1, <1>2 DEF Checking
  <2> QED
    BY <2>1
<1>3. Checking(t)' = Checking(t) \ {g} /\ g \in Checking(t)
  BY <1>1 DEF Checking
<1>4. Cardinality(Checking(t)') = Cardinality(Checking(t)) - 1
  BY <1>3, CheckingCounted, FS_RemoveElement
<1>5. admitted'[t] <= admitted[t] + 1 /\ admitted'[t] \in Nat /\ admitted[t] \in Nat
  BY <1>1
<1>6. admitted'[t] + Cardinality(Checking(t)') <= Cardinality(Gates)
  BY <1>4, <1>5, CheckingCounted
<1> QED
  BY <1>2, <1>6 DEF Gates

LEMMA NextOncePerGate == IInv /\ OncePerGate /\ [Next]_vars => OncePerGate'
<1> SUFFICES ASSUME IInv, OncePerGate, [Next]_vars PROVE OncePerGate'
  OBVIOUS
<1>1. CASE UNCHANGED checkVars
  BY <1>1 DEF checkVars, OncePerGate, Checking
<1>2. ASSUME NEW g \in Gates, CheckStep(g) PROVE OncePerGate'
  BY <1>2, ReadOncePerGate, FinishOncePerGate
  DEF CheckStep, Save, SaveUnanswered, SaveFails
<1> QED
  BY <1>1, <1>2 DEF Next, vars

(* Every variable keeps its type: with one ticket, never more people are let in than
   there are gates. *)
THEOREM TypeCorrect == Spec => []TypeOK
<1>1. Spec => []OncePerGate
  BY InitOncePerGate, NextOncePerGate, Invariance, PTL DEF Spec
<1>2. ASSUME IInv, OncePerGate PROVE TypeOK
  <2>1. ASSUME NEW t \in Tickets PROVE admitted[t] \in 0..Cardinality(Gates)
    BY <1>2, CheckingCounted DEF IInv, Types, OncePerGate
  <2> QED
    BY <1>2, <2>1 DEF IInv, Types, OncePerGate, TypeOK
<1> QED
  BY <1>1, <1>2, Invariance, PTL

=============================================================================
