----------------------------- MODULE InputLease -----------------------------
(***************************************************************************)
(* The input leases of the device service: LeaseManager of                  *)
(* src/agent/server/lease.ts, the lease RPCs that drive it and the          *)
(* revocation of a controller (service.ts).  Any number of controllers may  *)
(* watch a resource; only the holder of its lease may type into it, and     *)
(* only with the fencing token of the current grant.                        *)
(*                                                                         *)
(* Every LeaseManager method is synchronous, so one call is one action.     *)
(* A controller may present any token it was ever granted: a delayed input  *)
(* or a renewal that was overtaken by a handoff is an ordinary behaviour.   *)
(***************************************************************************)
EXTENDS Integers, FiniteSets

CONSTANTS
    Resources,          \* kind:id keys of the leased resources
    Controllers,        \* paired controllers
    Ttls,               \* lease durations a request may ask for
    MaxLeases,          \* MAX_LEASES
    NoLease,            \* the absence of an entry in the lease map
    ClockMayStepBack,   \* Date.now() is a wall clock and may be set back
    MaxClock,           \* bound of the model: last instant of the clock
    MaxToken            \* bound of the model: last token that is granted

ASSUME LeaseAssumption ==
    /\ Ttls \subseteq Nat \ {0}
    /\ MaxLeases \in Nat \ {0}
    /\ ClockMayStepBack \in BOOLEAN
    /\ MaxClock \in Nat
    /\ MaxToken \in Nat

\* NoLease is no lease record.
ASSUME NoLeaseAssumption ==
    NoLease \notin [holder : Controllers, token : Nat, expiresAt : Nat]

VARIABLES
    leases,     \* LeaseManager.leases: resource -> lease or NoLease
    counter,    \* LeaseManager.counter: the last token granted in this life
    clock,      \* now()
    revoked,    \* controllers whose pairing was revoked (database)
    granted,    \* history: every grant of this life of the service
    handed,     \* history: those of them that their holder handed on
    earlier,    \* history: the grants of the lives before the last restart
    setBack     \* history: the wall clock has been set back

leaseVars == <<leases, counter, clock, revoked, granted, handed, earlier, setBack>>

Lease == [holder : Controllers, token : Nat, expiresAt : Nat]
Grant == [resource : Resources, holder : Controllers, token : Nat]

LeaseTypeOK ==
    /\ leases \in [Resources -> Lease \cup {NoLease}]
    /\ counter \in Nat
    /\ clock \in Nat
    /\ revoked \subseteq Controllers
    /\ granted \subseteq Grant
    /\ handed \subseteq Grant
    /\ earlier \subseteq Grant
    /\ setBack \in BOOLEAN

LeaseInit ==
    /\ leases = [r \in Resources |-> NoLease]
    /\ counter = 0
    /\ clock = 1
    /\ revoked = {}
    /\ granted = {}
    /\ handed = {}
    /\ earlier = {}
    /\ setBack = FALSE

-----------------------------------------------------------------------------
(* Helpers of LeaseManager                                                  *)

\* Entries of the map, expired ones included: expiry is only noticed by live().
Stored == {r \in Resources : leases[r] # NoLease}

\* live(key): the entry is there and has not expired.
Live(r) == leases[r] # NoLease /\ leases[r].expiresAt > clock

\* Mutant: the holder is compared, its token is not.
HoldsByName(r, c, t) == Live(r) /\ leases[r].holder = c

\* requireHolder: the current holder with the current token.
Holds(r, c, t) == Live(r) /\ leases[r].holder = c /\ leases[r].token = t

\* The tokens a controller was handed, in this life of the service or before.
Knows(r, c, t) ==
    [resource |-> r, holder |-> c, token |-> t] \in granted \cup earlier

\* Mutant: a second grant in the same millisecond repeats the token.
NextTokenClockOnly == IF counter > clock THEN counter ELSE clock

\* Mutant: a plain counter, starting over after a restart.
NextTokenCounterOnly == counter + 1

\* nextToken(): the clock is a floor of the counter.
NextToken == IF counter + 1 > clock THEN counter + 1 ELSE clock

\* Mutant: the new entry is written without a token.
GrantWithoutToken(r, c, ttl) ==
    /\ NextToken <= MaxToken
    /\ leases' = [leases EXCEPT ![r] = [holder |-> c, expiresAt |-> clock + ttl]]
    /\ counter' = NextToken
    /\ granted' = granted \cup
           {[resource |-> r, holder |-> c, token |-> NextToken]}

\* A new entry for r with a new token.
GrantTo(r, c, ttl) ==
    /\ NextToken <= MaxToken
    /\ leases' = [leases EXCEPT ![r] =
           [holder |-> c, token |-> NextToken, expiresAt |-> clock + ttl]]
    /\ counter' = NextToken
    /\ granted' = granted \cup
           {[resource |-> r, holder |-> c, token |-> NextToken]}

\* Requests of a revoked controller do not get past assertCurrent().
Authorized(c) == c \in Controllers \ revoked

\* check(), the gate in front of terminals.write, resize and kill.  An input
\* that passes changes nothing here: what it may carry is FencedInput.
MayInput(r, c, t) == Authorized(c) /\ Knows(r, c, t) /\ Holds(r, c, t)

-----------------------------------------------------------------------------
(* leases.acquire *)

\* The caller holds the lease already: it is extended and keeps its token.
AcquireHeld(r, c, ttl) ==
    /\ Authorized(c)
    /\ Live(r) /\ leases[r].holder = c
    /\ leases' = [leases EXCEPT ![r].expiresAt = clock + ttl]
    /\ UNCHANGED <<counter, clock, revoked, granted, handed, earlier, setBack>>

\* Mutant: a live lease of somebody else does not make acquire answer busy.
AcquireAnyway(r, c, ttl) ==
    /\ Cardinality(Stored \ {r}) < MaxLeases
    /\ GrantTo(r, c, ttl)
    /\ UNCHANGED <<clock, revoked, handed, earlier, setBack>>

\* Nobody holds it (an expired entry counts as none and is dropped by live()).
AcquireFree(r, c, ttl) ==
    /\ ~Live(r)
    /\ Cardinality(Stored \ {r}) < MaxLeases
    /\ GrantTo(r, c, ttl)
    /\ UNCHANGED <<clock, revoked, handed, earlier, setBack>>

\* resource_limit: the map is full.  live() has dropped the expired entry.
TooManyLeases(r) == ~Live(r) /\ Cardinality(Stored \ {r}) >= MaxLeases

AcquireAtLimit(r, c) ==
    /\ TooManyLeases(r)
    /\ leases' = [leases EXCEPT ![r] = NoLease]
    /\ UNCHANGED <<counter, clock, revoked, granted, handed, earlier, setBack>>

\* terminals.create acquires for its caller once the shell is there, in an
\* execution context: nobody asks again whether the caller is still paired.  The
\* id is new, so no grant names it yet, and a refusal leaves everything alone.
CreatorAcquires(r, c, ttl) ==
    /\ \A g \in granted \cup earlier : g.resource # r
    /\ AcquireFree(r, c, ttl)

\* leases.renew: the current holder with the current token.
Renew(r, c, t, ttl) ==
    /\ MayInput(r, c, t)
    /\ leases' = [leases EXCEPT ![r].expiresAt = clock + ttl]
    /\ UNCHANGED <<counter, clock, revoked, granted, handed, earlier, setBack>>

\* leases.release
Release(r, c, t) ==
    /\ MayInput(r, c, t)
    /\ leases' = [leases EXCEPT ![r] = NoLease]
    /\ UNCHANGED <<counter, clock, revoked, granted, handed, earlier, setBack>>

\* leases.handoff: only to another controller that is still paired.
Handoff(r, from, t, to, ttl) ==
    /\ MayInput(r, from, t)
    /\ to # from /\ to \notin revoked
    /\ GrantTo(r, to, ttl)
    /\ handed' = handed \cup {[resource |-> r, holder |-> from, token |-> t]}
    /\ UNCHANGED <<clock, revoked, earlier, setBack>>

\* Any call that finds an expired entry (holderOf, a late renew, release,
\* handoff or input) drops it before it answers.
DropExpired(r) ==
    /\ leases[r] # NoLease /\ ~Live(r)
    /\ leases' = [leases EXCEPT ![r] = NoLease]
    /\ UNCHANGED <<counter, clock, revoked, granted, handed, earlier, setBack>>

-----------------------------------------------------------------------------
(* The service around it *)

\* Mutant: the pairing is revoked, its leases are left alone.
RevokeKeepingLeases(c) ==
    /\ c \notin revoked
    /\ revoked' = revoked \cup {c}
    /\ UNCHANGED <<leases, counter, clock, granted, handed, earlier, setBack>>

\* revoke(): mark the pairing revoked, releaseAll, close its connections.
Revoke(c) ==
    /\ c \notin revoked
    /\ revoked' = revoked \cup {c}
    /\ leases' = [r \in Resources |->
           IF leases[r] # NoLease /\ leases[r].holder = c
           THEN NoLease ELSE leases[r]]
    /\ UNCHANGED <<counter, clock, granted, handed, earlier, setBack>>

\* The process restarts: the lease map and the counter are memory.  A restart
\* takes time; by the end of it the wall clock has caught up with a counter
\* that outran it (more than one grant per millisecond).  A clock that is set
\* back meanwhile is a ClockSetBack after it.
Restart ==
    /\ leases' = [r \in Resources |-> NoLease]
    /\ counter' = 0
    /\ granted' = {}
    /\ handed' = {}
    /\ earlier' = earlier \cup granted
    /\ clock' \in clock .. MaxClock
    /\ clock' >= counter
    /\ UNCHANGED <<revoked, setBack>>

Tick ==
    /\ clock < MaxClock
    /\ clock' = clock + 1
    /\ UNCHANGED <<leases, counter, revoked, granted, handed, earlier, setBack>>

\* The wall clock is adjusted (NTP, the user, a resumed virtual machine).
ClockSetBack ==
    /\ ClockMayStepBack
    /\ clock' \in 1 .. clock - 1
    /\ setBack' = TRUE
    /\ UNCHANGED <<leases, counter, revoked, granted, handed, earlier>>

\* A lease RPC of a paired controller about resource r.  A call that is refused
\* for its duration or its caller changes nothing, whichever is looked at first.
LeaseCallOn(r) ==
    \E c \in Controllers :
        \/ \E ttl \in Ttls :
               \/ AcquireHeld(r, c, ttl)
               \/ Authorized(c) /\ AcquireFree(r, c, ttl)
               \/ \E t \in 1 .. MaxToken :
                      \/ Renew(r, c, t, ttl)
                      \/ \E to \in Controllers : Handoff(r, c, t, to, ttl)
        \/ Authorized(c) /\ AcquireAtLimit(r, c)
        \/ \E t \in 1 .. MaxToken : Release(r, c, t)
        \/ DropExpired(r)

LeaseCall ==
    \E r \in Resources :
        \/ LeaseCallOn(r)
        \/ \E c \in Controllers, ttl \in Ttls : CreatorAcquires(r, c, ttl)

LeaseEnvironment ==
    \/ \E c \in Controllers : Revoke(c)
    \/ Tick
    \/ ClockSetBack

LeaseNext == LeaseCall \/ LeaseEnvironment \/ Restart

LeaseSpec == LeaseInit /\ [][LeaseNext]_leaseVars

-----------------------------------------------------------------------------
(* Properties *)

\* Inputs are fenced: an input that passes check() carries the newest token
\* ever granted on that resource, granted to the controller that sends it, so a
\* delayed keystroke of an overtaken grant never lands in the terminal of the
\* controller that took over (lease.ts, check, handoff and nextToken).
FencedInput ==
    \A r \in Resources, c \in Controllers, t \in 1 .. MaxToken :
        MayInput(r, c, t) =>
            /\ [resource |-> r, holder |-> c, token |-> t] \in granted
            /\ \A g \in granted : g.resource = r => g.token <= t

\* Tokens are never reused within a life of the service: one token, one grant.
TokensIdentifyGrants ==
    \A g, h \in granted : g.token = h.token => g = h

\* A live lease changes hands only because its holder handed it on: nobody else
\* can take it before it expires, however often acquire is retried (lease.ts,
\* acquire and handoff), and the token it had is below the new one.
NoTakeoverBeforeExpiry ==
    [][\A r \in Resources :
          Live(r) /\ leases'[r] # NoLease /\ leases'[r].holder # leases[r].holder
              => /\ [resource |-> r, holder |-> leases[r].holder,
                     token |-> leases[r].token] \in handed'
                 /\ leases'[r].token > leases[r].token]_leaseVars

\* The entry of the map is the newest grant of its resource.
NewestGrant(r) ==
    /\ [resource |-> r, holder |-> leases[r].holder, token |-> leases[r].token] \in granted
    /\ \A g \in granted : g.resource = r => g.token <= leases[r].token

\* The inductive invariant behind FencedInput: the counter is ahead of every
\* token of this life, and every entry of the map is its resource's newest grant.
LeaseInv ==
    /\ LeaseTypeOK
    /\ \A g \in granted : g.token <= counter
    /\ \A r \in Resources : leases[r] # NoLease => NewestGrant(r)
    /\ TokensIdentifyGrants

\* What nextToken's comment says (lease.ts:49), as far as it holds: unless the wall
\* clock is set back, a token granted after a restart is not smaller than one
\* granted before it.
TokensSurviveRestart ==
    setBack \/ \A g \in granted, h \in earlier : g.token >= h.token

\* What the refusal says: "Too many active leases" is answered only while
\* MAX_LEASES leases are active.
LimitMeansActive ==
    \A r \in Resources :
        TooManyLeases(r) => Cardinality({x \in Resources : Live(x)}) >= MaxLeases
=============================================================================
