-------------------------- MODULE InputLeaseProofs --------------------------
(***************************************************************************)
(* What holds of the input leases for any number of resources and           *)
(* controllers, any lease durations and any clock, set back or not.         *)
(***************************************************************************)
EXTENDS InputLease, TLAPS

\* nextToken() is a natural number above the counter, so above every token
\* granted in this life of the service (lease.ts, nextToken).
LEMMA NextTokenAdvances ==
    ASSUME counter \in Nat, clock \in Nat
    PROVE  NextToken \in Nat /\ NextToken > counter
BY DEF NextToken

\* A grant keeps the inductive invariant: the new token is above all others.
LEMMA GrantKeepsInv ==
    ASSUME LeaseInv,
           NEW r \in Resources, NEW c \in Controllers, NEW ttl \in Ttls,
           GrantTo(r, c, ttl), handed' \subseteq Grant,
           UNCHANGED <<clock, revoked, earlier, setBack>>
    PROVE  LeaseInv'
<1> DEFINE n == NextToken
           new == [resource |-> r, holder |-> c, token |-> n]
<1>1. n \in Nat /\ n > counter
  BY NextTokenAdvances DEF LeaseInv, LeaseTypeOK
<1>2. /\ leases' = [leases EXCEPT ![r] =
             [holder |-> c, token |-> n, expiresAt |-> clock + ttl]]
      /\ counter' = n
      /\ granted' = granted \cup {new}
  BY DEF GrantTo
<1>3. ttl \in Nat /\ clock \in Nat /\ clock + ttl \in Nat
  BY LeaseAssumption DEF LeaseInv, LeaseTypeOK
<1>4. new \in Grant
  BY <1>1 DEF Grant
<1> HIDE DEF n
<1>5. LeaseTypeOK'
  <2>1. leases' \in [Resources -> Lease \cup {NoLease}]
    BY <1>1, <1>2, <1>3 DEF LeaseInv, LeaseTypeOK, Lease
  <2>2. QED BY <2>1, <1>1, <1>2, <1>4 DEF LeaseInv, LeaseTypeOK
<1>6. \A g \in granted' : g.token <= counter'
  BY <1>1, <1>2 DEF LeaseInv, LeaseTypeOK, Grant
<1>7. \A s \in Resources : leases'[s] # NoLease => NewestGrant(s)'
  <2> SUFFICES ASSUME NEW s \in Resources, leases'[s] # NoLease
               PROVE  NewestGrant(s)'
    OBVIOUS
  <2>1. CASE s = r
    <3>1. leases'[s].holder = c /\ leases'[s].token = n
      BY <2>1, <1>2 DEF LeaseInv, LeaseTypeOK
    <3>2. \A g \in granted' : g.token <= n
      BY <1>6, <1>2
    <3>3. QED BY <2>1, <3>1, <3>2, <1>2 DEF NewestGrant
  <2>2. CASE s # r
    <3>1. leases'[s] = leases[s]
      BY <2>2, <1>2 DEF LeaseInv, LeaseTypeOK
    <3>2. NewestGrant(s)
      BY <3>1 DEF LeaseInv
    <3>3. QED BY <2>2, <3>1, <3>2, <1>2 DEF NewestGrant
  <2>3. QED BY <2>1, <2>2
<1>8. TokensIdentifyGrants'
  BY <1>1, <1>2 DEF LeaseInv, LeaseTypeOK, Grant, TokensIdentifyGrants
<1>9. QED BY <1>5, <1>6, <1>7, <1>8 DEF LeaseInv

\* Entries only disappear or keep their holder and token: the invariant stays.
LEMMA NarrowingKeepsInv ==
    ASSUME LeaseInv, LeaseTypeOK',
           \A r \in Resources : leases'[r] # NoLease =>
               /\ leases[r] # NoLease
               /\ leases'[r].holder = leases[r].holder
               /\ leases'[r].token = leases[r].token,
           UNCHANGED <<counter, granted>>
    PROVE  LeaseInv'
BY DEF LeaseInv, NewestGrant, TokensIdentifyGrants

\* A fresh grant or a refused one keeps the invariant, whoever it is made for.
LEMMA AcquireKeepsInv ==
    ASSUME LeaseInv, NEW r \in Resources, NEW c \in Controllers, NEW ttl \in Ttls,
           AcquireFree(r, c, ttl) \/ AcquireAtLimit(r, c)
    PROVE  LeaseInv'
<1>1. CASE AcquireFree(r, c, ttl)
  BY <1>1, GrantKeepsInv DEF AcquireFree, LeaseInv, LeaseTypeOK
<1>2. CASE AcquireAtLimit(r, c)
  <2>1. LeaseTypeOK'
    BY <1>2 DEF AcquireAtLimit, LeaseInv, LeaseTypeOK
  <2>2. QED
    BY <1>2, <2>1, NarrowingKeepsInv DEF AcquireAtLimit, LeaseInv, LeaseTypeOK
<1>3. QED BY <1>1, <1>2

\* So does every lease call about one resource.
LEMMA CallKeepsInv ==
    ASSUME LeaseInv, NEW r \in Resources, LeaseCallOn(r)
    PROVE  LeaseInv'
<1> USE LeaseAssumption
<1>1. ASSUME NEW c \in Controllers, NEW ttl \in Ttls, AcquireHeld(r, c, ttl)
      PROVE  LeaseInv'
  <2>1. LeaseTypeOK'
    BY <1>1 DEF AcquireHeld, LeaseInv, LeaseTypeOK, Lease, Live
  <2>2. QED
    BY <1>1, <2>1, NarrowingKeepsInv
       DEF AcquireHeld, LeaseInv, LeaseTypeOK, Lease, Live
<1>2. ASSUME NEW c \in Controllers, NEW ttl \in Ttls, AcquireFree(r, c, ttl)
      PROVE  LeaseInv'
  BY <1>2, AcquireKeepsInv
<1>3. ASSUME NEW c \in Controllers, AcquireAtLimit(r, c)
      PROVE  LeaseInv'
  <2>1. LeaseTypeOK'
    BY <1>3 DEF AcquireAtLimit, LeaseInv, LeaseTypeOK
  <2>2. QED
    BY <1>3, <2>1, NarrowingKeepsInv DEF AcquireAtLimit, LeaseInv, LeaseTypeOK
<1>4. ASSUME NEW c \in Controllers, NEW ttl \in Ttls, NEW t \in 1 .. MaxToken,
             Renew(r, c, t, ttl)
      PROVE  LeaseInv'
  <2>1. LeaseTypeOK'
    BY <1>4 DEF Renew, MayInput, Holds, LeaseInv, LeaseTypeOK, Lease, Live
  <2>2. QED
    BY <1>4, <2>1, NarrowingKeepsInv
       DEF Renew, MayInput, Holds, LeaseInv, LeaseTypeOK, Lease, Live
<1>5. ASSUME NEW c \in Controllers, NEW t \in 1 .. MaxToken, Release(r, c, t)
      PROVE  LeaseInv'
  <2>1. LeaseTypeOK'
    BY <1>5 DEF Release, LeaseInv, LeaseTypeOK
  <2>2. QED
    BY <1>5, <2>1, NarrowingKeepsInv DEF Release, LeaseInv, LeaseTypeOK
<1>6. ASSUME NEW c \in Controllers, NEW ttl \in Ttls, NEW t \in 1 .. MaxToken,
             NEW to \in Controllers, Handoff(r, c, t, to, ttl)
      PROVE  LeaseInv'
  BY <1>6, GrantKeepsInv
     DEF Handoff, MayInput, Holds, Live, LeaseInv, LeaseTypeOK, Lease, Grant
<1>7. ASSUME DropExpired(r)
      PROVE  LeaseInv'
  <2>1. LeaseTypeOK'
    BY <1>7 DEF DropExpired, LeaseInv, LeaseTypeOK
  <2>2. QED
    BY <1>7, <2>1, NarrowingKeepsInv DEF DropExpired, LeaseInv, LeaseTypeOK
<1>8. QED
  BY <1>1, <1>2, <1>3, <1>4, <1>5, <1>6, <1>7 DEF LeaseCallOn

\* So do a revocation, the clock and a restart.
LEMMA EnvironmentKeepsInv ==
    ASSUME LeaseInv, LeaseEnvironment \/ Restart \/ UNCHANGED leaseVars
    PROVE  LeaseInv'
<1>1. ASSUME NEW c \in Controllers, Revoke(c)
      PROVE  LeaseInv'
  <2>1. LeaseTypeOK'
    BY <1>1 DEF Revoke, LeaseInv, LeaseTypeOK
  <2>2. QED
    BY <1>1, <2>1, NarrowingKeepsInv DEF Revoke, LeaseInv, LeaseTypeOK
<1>2. CASE Tick
  <2>1. LeaseTypeOK' BY <1>2 DEF Tick, LeaseInv, LeaseTypeOK
  <2>2. QED BY <1>2, <2>1, NarrowingKeepsInv DEF Tick
<1>3. CASE ClockSetBack
  <2>1. LeaseTypeOK' BY <1>3 DEF ClockSetBack, LeaseInv, LeaseTypeOK
  <2>2. QED BY <1>3, <2>1, NarrowingKeepsInv DEF ClockSetBack
<1>4. CASE Restart
  BY <1>4, LeaseAssumption DEF Restart, LeaseInv, LeaseTypeOK, TokensIdentifyGrants
<1>5. CASE UNCHANGED leaseVars
  BY <1>5 DEF leaseVars, LeaseInv, LeaseTypeOK, NewestGrant, TokensIdentifyGrants
<1>6. QED
  BY <1>1, <1>2, <1>3, <1>4, <1>5 DEF LeaseEnvironment

\* A service that starts for the first time satisfies the inductive invariant.
LEMMA InitHasInv == LeaseInit => LeaseInv
<1> SUFFICES ASSUME LeaseInit PROVE LeaseInv
  OBVIOUS
<1>1. setBack \in BOOLEAN
  BY DEF LeaseInit
<1>2. leases \in [Resources -> Lease \cup {NoLease}] /\ counter \in Nat /\ clock \in Nat
  BY DEF LeaseInit
<1>3. QED
  BY <1>1, <1>2 DEF LeaseInit, LeaseInv, LeaseTypeOK, TokensIdentifyGrants

\* The inductive invariant holds in every reachable state of the lease manager.
THEOREM LeaseInvariant == LeaseSpec => []LeaseInv
<1>1. LeaseInit => LeaseInv
  BY InitHasInv
<1>2. LeaseInv /\ [LeaseNext]_leaseVars => LeaseInv'
  BY CallKeepsInv, AcquireKeepsInv, EnvironmentKeepsInv
     DEF LeaseNext, LeaseCall, CreatorAcquires
<1>3. QED BY <1>1, <1>2, PTL DEF LeaseSpec

\* An input that passes the gate carries the newest token of its resource
\* (lease.ts, check): delayed input of an overtaken holder is refused.
THEOREM InputIsFenced == LeaseSpec => []FencedInput
<1>1. LeaseInv => FencedInput
  BY DEF LeaseInv, FencedInput, MayInput, Holds, Live, NewestGrant
<1>2. QED BY <1>1, LeaseInvariant, PTL

\* A live lease leaves its holder for another one only by the holder's handoff
\* (lease.ts, acquire answers busy until then).
THEOREM LeasesAreNotStolen == LeaseSpec => NoTakeoverBeforeExpiry
<1> DEFINE Moved(r) == Live(r) /\ leases'[r] # NoLease
                         /\ leases'[r].holder # leases[r].holder
           HandedOn(r) == /\ [resource |-> r, holder |-> leases[r].holder,
                              token |-> leases[r].token] \in handed'
                          /\ leases'[r].token > leases[r].token
<1>1. LeaseInv /\ [LeaseNext]_leaseVars =>
          [\A r \in Resources : Moved(r) => HandedOn(r)]_leaseVars
  <2> SUFFICES ASSUME LeaseInv, LeaseNext, NEW r \in Resources, Moved(r)
               PROVE  HandedOn(r)
    OBVIOUS
  <2>1. leases[r] \in Lease /\ leases \in [Resources -> Lease \cup {NoLease}]
    BY DEF LeaseInv, LeaseTypeOK, Live
  <2>2. ASSUME NEW s \in Resources, NEW c \in Controllers, NEW ttl \in Ttls,
               NEW t \in 1 .. MaxToken, NEW to \in Controllers,
               Handoff(s, c, t, to, ttl)
        PROVE  HandedOn(r)
    <3>1. s = r /\ leases[r].holder = c /\ leases[r].token = t
      BY <2>1, <2>2 DEF Handoff, GrantTo, MayInput, Holds
    <3>2. leases[r].token <= counter
      BY DEF LeaseInv, NewestGrant, Live
    <3>3. leases'[r].token = NextToken /\ NextToken > counter
      BY <2>1, <2>2, <3>1, NextTokenAdvances
         DEF Handoff, GrantTo, LeaseInv, LeaseTypeOK
    <3>4. leases[r].token \in Nat /\ NextToken \in Nat /\ counter \in Nat
      BY <2>1, NextTokenAdvances DEF LeaseInv, LeaseTypeOK, Lease, Live
    <3>5. QED BY <2>2, <3>1, <3>2, <3>3, <3>4 DEF Handoff
  <2>3. ASSUME NEW s \in Resources, NEW c \in Controllers, NEW ttl \in Ttls,
               AcquireHeld(s, c, ttl)
        PROVE  FALSE
    BY <2>1, <2>3 DEF AcquireHeld, Live, Lease
  <2>4. ASSUME NEW s \in Resources, NEW c \in Controllers, NEW ttl \in Ttls,
               AcquireFree(s, c, ttl)
        PROVE  FALSE
    BY <2>1, <2>4 DEF AcquireFree, GrantTo, Live, Lease
  <2>5. ASSUME NEW s \in Resources, NEW c \in Controllers, NEW ttl \in Ttls,
               NEW t \in 1 .. MaxToken, Renew(s, c, t, ttl)
        PROVE  FALSE
    BY <2>1, <2>5 DEF Renew, Live, Lease
  <2>6. ASSUME NEW s \in Resources, leases' = [leases EXCEPT ![s] = NoLease]
        PROVE  FALSE
    BY <2>1, <2>6 DEF Live
  <2>7. ASSUME NEW c \in Controllers, Revoke(c)
        PROVE  FALSE
    BY <2>7 DEF Revoke
  <2>8. CASE Tick \/ ClockSetBack \/ Restart
    BY <2>8 DEF Tick, ClockSetBack, Restart
  <2>9. QED
    BY <2>2, <2>3, <2>4, <2>5, <2>6, <2>7, <2>8
       DEF LeaseNext, LeaseCall, LeaseCallOn, CreatorAcquires, LeaseEnvironment,
           AcquireAtLimit, Release, DropExpired
<1>2. QED BY <1>1, LeaseInvariant, PTL DEF LeaseSpec, NoTakeoverBeforeExpiry

\* Two grants of one life of the service never share a token (lease.ts, nextToken).
THEOREM TokensAreUnique == LeaseSpec => []TokensIdentifyGrants
<1>1. LeaseInv => TokensIdentifyGrants
  BY DEF LeaseInv
<1>2. QED BY <1>1, LeaseInvariant, PTL

\* Whatever calls, revocations and restarts do, the state keeps its shape.
THEOREM LeaseTypesHold == LeaseSpec => []LeaseTypeOK
<1>1. LeaseInv => LeaseTypeOK
  BY DEF LeaseInv
<1>2. QED BY <1>1, LeaseInvariant, PTL

-----------------------------------------------------------------------------
(* Tokens across restarts                                                   *)

\* The strengthening behind TokensSurviveRestart: the clock, the floor of every
\* new token, has reached the tokens of all earlier lives of the service.
EarlierBelowClock == setBack \/ \A h \in earlier : h.token <= clock

\* A new token is no smaller than the clock (lease.ts, nextToken).
LEMMA NextTokenReachesClock ==
    ASSUME counter \in Nat, clock \in Nat
    PROVE  NextToken >= clock
BY DEF NextToken

\* A grant whose token is at least the clock keeps the order of the lives.
LEMMA GrantKeepsTokenOrder ==
    ASSUME LeaseInv, EarlierBelowClock, TokensSurviveRestart,
           NEW r \in Resources, NEW c \in Controllers, NEW ttl \in Ttls,
           GrantTo(r, c, ttl), UNCHANGED <<clock, earlier, setBack>>
    PROVE  EarlierBelowClock' /\ TokensSurviveRestart'
<1> DEFINE n == NextToken
<1>1. n \in Nat /\ n >= clock /\ clock \in Nat
  BY NextTokenAdvances, NextTokenReachesClock DEF LeaseInv, LeaseTypeOK
<1>2. granted' = granted \cup {[resource |-> r, holder |-> c, token |-> n]}
  BY DEF GrantTo
<1>3. \A h \in earlier : h.token \in Nat
  BY DEF LeaseInv, LeaseTypeOK, Grant
<1> HIDE DEF n
<1>4. QED
  BY <1>1, <1>2, <1>3 DEF EarlierBelowClock, TokensSurviveRestart

\* A restart ends when the clock has caught up with the counter, which is ahead
\* of every token of the life that ends.
LEMMA RestartKeepsTokenOrder ==
    ASSUME LeaseInv, EarlierBelowClock, Restart
    PROVE  EarlierBelowClock' /\ TokensSurviveRestart'
<1>1. clock \in Nat /\ counter \in Nat /\ clock' \in Nat
  BY LeaseAssumption DEF Restart, LeaseInv, LeaseTypeOK
<1>2. clock' >= clock /\ clock' >= counter
  BY LeaseAssumption, <1>1 DEF Restart
<1>3. \A g \in earlier \cup granted : g.token \in Nat
  BY DEF LeaseInv, LeaseTypeOK, Grant
<1>4. \A g \in granted : g.token <= counter
  BY DEF LeaseInv
<1>5. QED
  BY <1>1, <1>2, <1>3, <1>4 DEF Restart, EarlierBelowClock, TokensSurviveRestart

\* The order of the lives is kept by every step.
LEMMA StepKeepsTokenOrder ==
    ASSUME LeaseInv, EarlierBelowClock, TokensSurviveRestart, [LeaseNext]_leaseVars
    PROVE  EarlierBelowClock' /\ TokensSurviveRestart'
<1>1. ASSUME NEW r \in Resources, NEW c \in Controllers, NEW ttl \in Ttls,
             GrantTo(r, c, ttl), UNCHANGED <<clock, earlier, setBack>>
      PROVE  EarlierBelowClock' /\ TokensSurviveRestart'
  BY <1>1, GrantKeepsTokenOrder
<1>2. ASSUME UNCHANGED <<clock, granted, earlier, setBack>>
      PROVE  EarlierBelowClock' /\ TokensSurviveRestart'
  BY <1>2 DEF EarlierBelowClock, TokensSurviveRestart
<1>3. ASSUME NEW r \in Resources, LeaseCallOn(r)
      PROVE  EarlierBelowClock' /\ TokensSurviveRestart'
  BY <1>1, <1>2, <1>3
     DEF LeaseCallOn, AcquireHeld, AcquireFree, AcquireAtLimit, Renew, Release,
         Handoff, DropExpired
<1>4. ASSUME NEW c \in Controllers,
             \/ \E r \in Resources, ttl \in Ttls : CreatorAcquires(r, c, ttl)
             \/ Revoke(c)
      PROVE  EarlierBelowClock' /\ TokensSurviveRestart'
  BY <1>1, <1>2, <1>4 DEF CreatorAcquires, AcquireFree, Revoke
<1>5. CASE Tick
  <2>1. clock \in Nat /\ \A h \in earlier : h.token \in Nat
    BY DEF LeaseInv, LeaseTypeOK, Grant
  <2>2. QED BY <1>5, <2>1 DEF Tick, EarlierBelowClock, TokensSurviveRestart
<1>6. CASE ClockSetBack
  BY <1>6 DEF ClockSetBack, EarlierBelowClock, TokensSurviveRestart
<1>7. CASE Restart
  BY <1>7, RestartKeepsTokenOrder
<1>8. CASE UNCHANGED leaseVars
  BY <1>2, <1>8 DEF leaseVars
<1>9. QED
  BY <1>3, <1>4, <1>5, <1>6, <1>7, <1>8 DEF LeaseNext, LeaseCall, LeaseEnvironment

\* Unless the wall clock is set back, no token of this life is below one of an
\* earlier life, so an input that was on its way across a restart never counts
\* as newer than a grant made after it (lease.ts, nextToken and its comment).
THEOREM TokensOutliveTheService == LeaseSpec => []TokensSurviveRestart
<1>1. LeaseInit => EarlierBelowClock /\ TokensSurviveRestart
  BY DEF LeaseInit, EarlierBelowClock, TokensSurviveRestart
<1>2. LeaseInv /\ EarlierBelowClock /\ TokensSurviveRestart /\ [LeaseNext]_leaseVars
          => EarlierBelowClock' /\ TokensSurviveRestart'
  BY StepKeepsTokenOrder
<1>3. QED BY <1>1, <1>2, LeaseInvariant, PTL DEF LeaseSpec

=============================================================================
