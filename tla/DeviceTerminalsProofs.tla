------------------------ MODULE DeviceTerminalsProofs ------------------------
(***************************************************************************)
(* What holds of the terminals of a device for any limits and any number of *)
(* terminals, controllers and workspaces: the total limit, and the fencing  *)
(* of input, which the composition with the leases does not break.          *)
(***************************************************************************)
EXTENDS DeviceTerminals, InputLeaseProofs, FiniteSetTheorems

TermInv ==
    /\ terminals \in [Resources -> Terminal \cup {NoTerminal}]
    /\ TotalLimit

\* The two sets the limit counts are finite.
LEMMA CountsAreNaturals ==
    /\ IsFiniteSet(Alive) /\ Cardinality(Alive) \in Nat
    /\ IsFiniteSet(Creating) /\ Cardinality(Creating) \in Nat
<1>1. Alive \subseteq Resources /\ Creating \subseteq Resources
  BY DEF Alive, Creating, Are
<1>2. QED BY <1>1, FS_Subset, FS_CardinalityType, TerminalAssumption

\* The limit holds again in a state that counts no more than this one.
LEMMA FewerKeepLimit ==
    ASSUME TotalLimit, Alive' \subseteq Alive, Creating' \subseteq Creating
    PROVE  TotalLimit'
<1>1. Cardinality(Alive') <= Cardinality(Alive) /\ Cardinality(Alive') \in Nat
  BY CountsAreNaturals, FS_Subset, FS_CardinalityType
<1>2. Cardinality(Creating') <= Cardinality(Creating) /\ Cardinality(Creating') \in Nat
  BY CountsAreNaturals, FS_Subset, FS_CardinalityType
<1>3. QED BY <1>1, <1>2, CountsAreNaturals, TerminalAssumption DEF TotalLimit

\* Taking expired terminals out of the list touches no terminal that counts.
LEMMA ReapedCountsTheSame ==
    ASSUME terminals \in [Resources -> Terminal \cup {NoTerminal}],
           NEW expired \in SUBSET Are({"exited"})
    PROVE  /\ Reaped(expired) \in [Resources -> Terminal \cup {NoTerminal}]
           /\ \A x \in Resources :
                  \/ Reaped(expired)[x] = terminals[x]
                  \/ /\ x \notin Alive /\ x \notin Creating
                     /\ Reaped(expired)[x].state = "gone"
<1> SUFFICES ASSUME NEW x \in Resources
             PROVE  /\ Reaped(expired)[x] \in Terminal \cup {NoTerminal}
                    /\ \/ Reaped(expired)[x] = terminals[x]
                       \/ /\ x \notin Alive /\ x \notin Creating
                          /\ Reaped(expired)[x].state = "gone"
  BY DEF Reaped
<1>1. CASE x \in expired
  <2>1. terminals[x] \in Terminal /\ terminals[x].state = "exited"
    BY <1>1 DEF Are
  <2>2. Reaped(expired)[x] = Became(x, "gone")
    BY <1>1 DEF Reaped
  <2>3. QED BY <2>1, <2>2 DEF Became, Terminal, Alive, Creating, Are
<1>2. CASE x \notin expired
  BY <1>2 DEF Reaped
<1>3. QED BY <1>1, <1>2

\* A create that begins takes the place its check has found free.
LEMMA BeginKeepsInv ==
    ASSUME TermInv, NEW r \in Resources, NEW c \in Controllers, NEW w \in Workspaces,
           CreateBegin(r, c, w)
    PROVE  TermInv'
<1>1. PICK expired \in SUBSET Are({"exited"}) :
          terminals' = [Reaped(expired) EXCEPT ![r] =
              [state |-> "opening", workspace |-> w, creator |-> c]]
  BY DEF CreateBegin
<1>2. terminals[r] = NoTerminal
  BY DEF CreateBegin
<1>3. /\ Reaped(expired) \in [Resources -> Terminal \cup {NoTerminal}]
      /\ \A x \in Resources : \/ Reaped(expired)[x] = terminals[x]
                              \/ /\ x \notin Alive /\ x \notin Creating
                                 /\ Reaped(expired)[x].state = "gone"
  BY ReapedCountsTheSame DEF TermInv
<1>4. terminals'[r] = [state |-> "opening", workspace |-> w, creator |-> c]
  BY <1>1, <1>3
<1>5. terminals'[r] \in Terminal /\ terminals'[r] # NoTerminal
  BY <1>4, TerminalAssumption DEF Terminal
<1>6. \A x \in Resources \ {r} : terminals'[x] = Reaped(expired)[x]
  BY <1>1, <1>3
<1>7. terminals' \in [Resources -> Terminal \cup {NoTerminal}]
  BY <1>1, <1>3, <1>4, <1>5
<1>8. Alive' \subseteq Alive
  BY <1>3, <1>4, <1>6 DEF Alive, Are
<1>9. Creating' \subseteq Creating \cup {r}
  BY <1>3, <1>6 DEF Creating, Are
<1>10. Cardinality(Alive') <= Cardinality(Alive) /\ Cardinality(Alive') \in Nat
  BY <1>8, CountsAreNaturals, FS_Subset, FS_CardinalityType
<1>11. /\ IsFiniteSet(Creating \cup {r})
       /\ Cardinality(Creating \cup {r}) <= Cardinality(Creating) + 1
  <2>1. /\ IsFiniteSet(Creating \cup {r})
        /\ Cardinality(Creating \cup {r}) =
               IF r \in Creating THEN Cardinality(Creating) ELSE Cardinality(Creating) + 1
    BY CountsAreNaturals, FS_AddElement
  <2>2. QED BY <2>1, CountsAreNaturals
<1>12. /\ Cardinality(Creating') <= Cardinality(Creating \cup {r})
       /\ Cardinality(Creating') \in Nat /\ Cardinality(Creating \cup {r}) \in Nat
  BY <1>9, <1>11, FS_Subset, FS_CardinalityType
<1>13. TotalLimit'
  BY <1>10, <1>11, <1>12, CountsAreNaturals, TerminalAssumption
     DEF TotalLimit, CreateBegin, HasCapacity
<1>14. QED BY <1>7, <1>13 DEF TermInv

\* A create that is answered turns the place it had kept into a terminal.
LEMMA DoneKeepsInv ==
    ASSUME TermInv, NEW r \in Resources, NEW ttl \in Ttls, CreateDone(r, ttl)
    PROVE  TermInv'
<1>1. /\ terminals[r] \in Terminal /\ r \in Creating /\ r \notin Alive
      /\ terminals' = [terminals EXCEPT ![r] = Became(r, "alive")]
  BY DEF CreateDone, TermInv, Creating, Alive, Are
<1>2. terminals'[r] \in Terminal /\ terminals'[r].state = "alive"
  BY <1>1 DEF Became, TermInv, Terminal
<1>3. \A x \in Resources \ {r} : terminals'[x] = terminals[x]
  BY <1>1 DEF TermInv
<1>4. terminals' \in [Resources -> Terminal \cup {NoTerminal}]
  BY <1>1, <1>2, <1>3 DEF TermInv
<1>5. Alive' \subseteq Alive \cup {r} /\ Creating' \subseteq Creating \ {r}
  BY <1>2, <1>3 DEF Alive, Creating, Are
<1>6. /\ IsFiniteSet(Alive \cup {r}) /\ IsFiniteSet(Creating \ {r})
      /\ Cardinality(Alive \cup {r}) = Cardinality(Alive) + 1
      /\ Cardinality(Creating \ {r}) = Cardinality(Creating) - 1
  BY <1>1, CountsAreNaturals, FS_AddElement, FS_RemoveElement
<1>7. /\ Cardinality(Alive') <= Cardinality(Alive \cup {r})
      /\ Cardinality(Creating') <= Cardinality(Creating \ {r})
      /\ Cardinality(Alive') \in Nat /\ Cardinality(Creating') \in Nat
  BY <1>5, <1>6, FS_Subset, FS_CardinalityType
<1>8. TotalLimit'
  BY <1>6, <1>7, CountsAreNaturals, TerminalAssumption DEF TotalLimit, TermInv
<1>9. QED BY <1>4, <1>8 DEF TermInv

\* Every other step only takes terminals away.
LEMMA TermStepKeepsInv ==
    ASSUME TermInv, [TermNext]_termVars
    PROVE  TermInv'
<1>1. ASSUME NEW r \in Resources, NEW c \in Controllers, NEW w \in Workspaces,
             CreateBegin(r, c, w)
      PROVE  TermInv'
  BY <1>1, BeginKeepsInv
<1>2. ASSUME NEW r \in Resources, NEW ttl \in Ttls, CreateDone(r, ttl)
      PROVE  TermInv'
  BY <1>2, DoneKeepsInv
<1>3. ASSUME NEW r \in Resources, CreateFails(r) \/ Exit(r)
      PROVE  TermInv'
  <2>1. PICK s \in {"gone", "exited"} :
            /\ terminals[r] # NoTerminal
            /\ terminals' = [terminals EXCEPT ![r] = Became(r, s)]
    BY <1>3 DEF CreateFails, Exit, Creating, Alive, Are
  <2>2. terminals[r] \in Terminal
    BY <2>1 DEF TermInv
  <2>3. terminals'[r] \in Terminal /\ terminals'[r].state = s
    BY <2>1, <2>2 DEF Became, TermInv, Terminal
  <2>4. \A x \in Resources \ {r} : terminals'[x] = terminals[x]
    BY <2>1 DEF TermInv
  <2>5. terminals' \in [Resources -> Terminal \cup {NoTerminal}]
    BY <2>1, <2>3, <2>4 DEF TermInv
  <2>6. Alive' \subseteq Alive /\ Creating' \subseteq Creating
    BY <2>3, <2>4 DEF Alive, Creating, Are
  <2>7. QED BY <2>5, <2>6, FewerKeepLimit DEF TermInv
<1>4. ASSUME NEW expired \in SUBSET Resources, List(expired)
      PROVE  TermInv'
  <2>1. expired \in SUBSET Are({"exited"}) /\ terminals' = Reaped(expired)
    BY <1>4 DEF List
  <2>2. /\ terminals' \in [Resources -> Terminal \cup {NoTerminal}]
        /\ \A x \in Resources : \/ terminals'[x] = terminals[x]
                                \/ terminals'[x].state = "gone"
    BY <2>1, ReapedCountsTheSame DEF TermInv
  <2>3. Alive' \subseteq Alive /\ Creating' \subseteq Creating
    BY <2>2 DEF Alive, Creating, Are
  <2>4. QED BY <2>2, <2>3, FewerKeepLimit DEF TermInv
<1>5. CASE TerminalRestart
  <2>1. \A x \in Resources :
            \/ terminals'[x] = NoTerminal
            \/ terminals'[x] \in Terminal /\ terminals'[x].state = "gone"
    BY <1>5 DEF TerminalRestart, TermInv, Terminal, Became
  <2>2. terminals' \in [Resources -> Terminal \cup {NoTerminal}]
    BY <1>5, <2>1 DEF TerminalRestart
  <2>3. Alive' \subseteq Alive /\ Creating' \subseteq Creating
    BY <2>1 DEF Alive, Creating, Are
  <2>4. QED BY <2>2, <2>3, FewerKeepLimit DEF TermInv
<1>6. CASE UNCHANGED terminals
  BY <1>6 DEF TermInv, TotalLimit, Alive, Creating, Are
<1>7. QED
  BY <1>1, <1>2, <1>3, <1>4, <1>5, <1>6
     DEF TermNext, TerminalLeaseCall, termVars

\* A create that is answered late grants like any other call, so the invariant of
\* the leases stands under the terminals too.
LEMMA TermStepKeepsLeases ==
    ASSUME LeaseInv, TermInv, [TermNext]_termVars
    PROVE  LeaseInv'
<1>1. ASSUME NEW r \in Resources, NEW ttl \in Ttls, CreateDone(r, ttl)
      PROVE  LeaseInv'
  <2>1. terminals[r].creator \in Controllers
    BY <1>1 DEF CreateDone, Creating, Are, TermInv, Terminal
  <2>2. \/ AcquireFree(r, terminals[r].creator, ttl)
        \/ AcquireAtLimit(r, terminals[r].creator)
    BY <1>1 DEF CreateDone
  <2>3. QED BY <2>1, <2>2, AcquireKeepsInv
<1>2. CASE TerminalLeaseCall
  <2>1. PICK r \in Resources : LeaseCallOn(r)
    BY <1>2 DEF TerminalLeaseCall, Known, Are
  <2>2. QED BY <2>1, CallKeepsInv
<1>3. CASE LeaseEnvironment \/ TerminalRestart \/ UNCHANGED leaseVars
  BY <1>3, EnvironmentKeepsInv DEF TerminalRestart
<1>4. QED
  BY <1>1, <1>2, <1>3
     DEF TermNext, CreateBegin, CreateFails, Exit, List, termVars, leaseVars

\* Both inductive invariants hold of the terminals and their leases together.
THEOREM TerminalInvariant == TermSpec => [](LeaseInv /\ TermInv)
<1>1. TermInit => LeaseInv /\ terminals \in [Resources -> Terminal \cup {NoTerminal}]
  BY InitHasInv DEF TermInit
<1>2. TermInit => LeaseInv /\ TermInv
  <2> SUFFICES ASSUME TermInit PROVE TermInv
    BY <1>1
  <2>1. Alive = {} /\ Creating = {}
    BY DEF TermInit, Alive, Creating, Are
  <2>2. QED
    BY <2>1, FS_EmptySet, TerminalAssumption DEF TermInit, TermInv, TotalLimit
<1>3. LeaseInv /\ TermInv /\ [TermNext]_termVars => LeaseInv' /\ TermInv'
  BY TermStepKeepsInv, TermStepKeepsLeases
<1>4. QED BY <1>2, <1>3, PTL DEF TermSpec

\* The terminals and the leases keep their shape in every reachable state.
THEOREM TerminalTypesHold == TermSpec => []TermTypeOK
<1>1. LeaseInv /\ TermInv => TermTypeOK
  BY DEF LeaseInv, TermInv, TermTypeOK
<1>2. QED BY <1>1, TerminalInvariant, PTL

\* No more terminals run or are being opened than the device allows, for any
\* limit and any overlap of creates (terminals.ts, create).
THEOREM TerminalsStayWithinLimit == TermSpec => []TotalLimit
<1>1. TermInv => TotalLimit
  BY DEF TermInv
<1>2. QED BY <1>1, TerminalInvariant, PTL

\* Input stays fenced when the terminals take the leases: the create that is
\* answered late grants like any other (terminals.ts, lease.ts).
THEOREM TerminalInputIsFenced == TermSpec => []FencedInput
<1>1. LeaseInv => FencedInput
  BY DEF LeaseInv, FencedInput, MayInput, Holds, Live, NewestGrant
<1>2. QED BY <1>1, TerminalInvariant, PTL

-----------------------------------------------------------------------------
(* What a revoked controller is left with                                   *)

\* An id nobody was told yet: it was not given out, or its shell is awaited.
Fresh(r) == terminals[r] = NoTerminal \/ r \in Creating

\* The strengthening behind RevokedHoldOnlyCreated: what was not told to anybody
\* was not granted to anybody, so the grant that ends a create is the first.
CreatorInv ==
    /\ RevokedHoldOnlyCreated
    /\ \A r \in Resources : Fresh(r) =>
           leases[r] = NoLease /\ \A g \in granted : g.resource # r

\* What a step may do to the terminals: a fresh one may stop being fresh, any
\* other keeps its creator.
KeepsCreators ==
    \A r \in Resources :
        /\ Fresh(r)' => Fresh(r)
        /\ ~Fresh(r) => terminals'[r] # NoTerminal /\ terminals'[r].creator = terminals[r].creator

\* Entries only disappear, and nobody is revoked who keeps one.
LEMMA NarrowingKeepsCreators ==
    ASSUME CreatorInv, KeepsCreators, granted' \subseteq granted,
           \A r \in Resources : leases'[r] # NoLease =>
               /\ leases[r] # NoLease
               /\ leases'[r].holder = leases[r].holder
               /\ leases'[r].token = leases[r].token
               /\ leases'[r].holder \in revoked' => leases[r].holder \in revoked
    PROVE  CreatorInv'
<1>1. \A r \in Resources : Fresh(r)' =>
          leases'[r] = NoLease /\ \A g \in granted' : g.resource # r
  BY DEF CreatorInv, KeepsCreators
<1>2. ASSUME NEW r \in Resources, leases'[r] # NoLease, leases'[r].holder \in revoked'
      PROVE  /\ terminals'[r] # NoTerminal /\ terminals'[r].creator = leases'[r].holder
             /\ \A g \in granted' : g.resource = r => g.token = leases'[r].token
  <2>1. ~Fresh(r)
    BY <1>2 DEF CreatorInv
  <2>2. QED BY <1>2, <2>1 DEF CreatorInv, RevokedHoldOnlyCreated, KeepsCreators
<1>3. RevokedHoldOnlyCreated'
  BY <1>2 DEF RevokedHoldOnlyCreated
<1>4. QED BY <1>1, <1>3 DEF CreatorInv

\* Steps that leave the leases alone and only move terminals along.
LEMMA TerminalStepKeepsCreators ==
    ASSUME TermInv, CreatorInv, UNCHANGED leaseVars, KeepsCreators
    PROVE  CreatorInv'
BY NarrowingKeepsCreators DEF leaseVars

\* Whoever gets or keeps an entry by a lease call is still paired.
LEMMA CallKeepsCreators ==
    ASSUME LeaseInv, TermInv, CreatorInv, NEW r \in Known, LeaseCallOn(r),
           UNCHANGED terminals
    PROVE  CreatorInv'
<1>1. /\ leases \in [Resources -> Lease \cup {NoLease}] /\ r \in Resources
      /\ ~Fresh(r)
  BY DEF LeaseInv, LeaseTypeOK, Known, Fresh, Creating, Are
<1>2. \A s \in Resources : Fresh(s)' <=> Fresh(s)
  BY DEF Fresh, Creating, Are
<1>3. ASSUME revoked' = revoked,
             \A s \in Resources \ {r} : leases'[s] = leases[s],
             \A g \in granted' : g \in granted \/ g.resource = r,
             leases'[r] # NoLease => leases'[r].holder \notin revoked
      PROVE  CreatorInv'
  <2>1. \A s \in Resources : Fresh(s)' =>
            leases'[s] = NoLease /\ \A g \in granted' : g.resource # s
    BY <1>1, <1>2, <1>3 DEF CreatorInv
  <2>2. RevokedHoldOnlyCreated'
    BY <1>3 DEF CreatorInv, RevokedHoldOnlyCreated
  <2>3. QED BY <2>1, <2>2 DEF CreatorInv
<1>4. ASSUME NEW c \in Controllers \ revoked, NEW ttl \in Ttls, GrantTo(r, c, ttl),
             UNCHANGED revoked
      PROVE  CreatorInv'
  BY <1>1, <1>3, <1>4 DEF GrantTo
<1>5. ASSUME NEW c \in Controllers, NEW ttl \in Ttls,
             AcquireHeld(r, c, ttl) \/ \E t \in 1 .. MaxToken : Renew(r, c, t, ttl)
      PROVE  CreatorInv'
  <2>1. /\ leases[r] \in Lease /\ leases[r].holder \notin revoked
        /\ leases' = [leases EXCEPT ![r].expiresAt = clock + ttl]
        /\ UNCHANGED <<revoked, granted>>
    BY <1>1, <1>5 DEF AcquireHeld, Renew, MayInput, Holds, Live, Authorized
  <2>2. leases'[r].holder \notin revoked
    BY <1>1, <2>1 DEF Lease
  <2>3. QED BY <1>1, <1>3, <2>1, <2>2
<1>6. ASSUME leases' = [leases EXCEPT ![r] = NoLease], UNCHANGED <<granted, revoked>>
      PROVE  CreatorInv'
  BY <1>1, <1>3, <1>6
<1>7. QED
  BY <1>4, <1>5, <1>6
     DEF LeaseCallOn, AcquireFree, Authorized, AcquireAtLimit, Release, Handoff, DropExpired

\* The grant that ends a create is the first of its terminal, for its creator.
LEMMA DoneKeepsCreators ==
    ASSUME LeaseInv, TermInv, CreatorInv, NEW r \in Resources, NEW ttl \in Ttls,
           CreateDone(r, ttl)
    PROVE  CreatorInv'
<1> DEFINE c == terminals[r].creator
<1>1. /\ terminals[r] \in Terminal /\ r \in Creating /\ c \in Controllers
      /\ terminals' = [terminals EXCEPT ![r] = Became(r, "alive")]
  BY DEF CreateDone, TermInv, Creating, Are, Terminal
<1>2. /\ terminals'[r].state = "alive" /\ terminals'[r].creator = c
      /\ terminals'[r] \in Terminal
  BY <1>1 DEF Became, TermInv, Terminal
<1>3. \A s \in Resources \ {r} : terminals'[s] = terminals[s]
  BY <1>1 DEF TermInv
<1>4. terminals'[r] # NoTerminal
  BY <1>2, TerminalAssumption DEF Terminal
<1>5. Fresh(r) /\ ~Fresh(r)' /\ \A s \in Resources \ {r} : Fresh(s)' <=> Fresh(s)
  BY <1>1, <1>2, <1>3, <1>4 DEF Fresh, Creating, Are
<1>6. leases[r] = NoLease /\ \A g \in granted : g.resource # r
  BY <1>5 DEF CreatorInv
<1>7. /\ revoked' = revoked
      /\ \A s \in Resources \ {r} : leases'[s] = leases[s]
      /\ \A g \in granted' : g \in granted \/ g.resource = r
      /\ leases'[r] # NoLease =>
             /\ leases'[r].holder = c
             /\ \A g \in granted' : g.resource = r => g.token = leases'[r].token
  <2>1. leases \in [Resources -> Lease \cup {NoLease}]
    BY DEF LeaseInv, LeaseTypeOK
  <2>2. CASE AcquireFree(r, c, ttl)
    <3> DEFINE n == NextToken
    <3>1. /\ leases' = [leases EXCEPT ![r] =
                 [holder |-> c, token |-> n, expiresAt |-> clock + ttl]]
          /\ granted' = granted \cup {[resource |-> r, holder |-> c, token |-> n]}
          /\ revoked' = revoked
      BY <2>2 DEF AcquireFree, GrantTo
    <3> HIDE DEF n
    <3>2. leases'[r] = [holder |-> c, token |-> n, expiresAt |-> clock + ttl]
      BY <2>1, <3>1
    <3>3. QED BY <1>6, <2>1, <3>1, <3>2
  <2>3. CASE AcquireAtLimit(r, c)
    BY <2>1, <2>3 DEF AcquireAtLimit
  <2>4. QED BY <2>2, <2>3 DEF CreateDone
<1>8. \A s \in Resources : Fresh(s)' =>
          leases'[s] = NoLease /\ \A g \in granted' : g.resource # s
  BY <1>5, <1>7 DEF CreatorInv
<1>9. RevokedHoldOnlyCreated'
  BY <1>2, <1>3, <1>4, <1>7 DEF CreatorInv, RevokedHoldOnlyCreated
<1>10. QED BY <1>8, <1>9 DEF CreatorInv

\* Every step of the composition keeps it.
LEMMA TermStepKeepsCreators ==
    ASSUME LeaseInv, TermInv, CreatorInv, [TermNext]_termVars
    PROVE  CreatorInv'
<1>1. ASSUME NEW r \in Resources, NEW c \in Controllers, NEW w \in Workspaces,
             CreateBegin(r, c, w)
      PROVE  CreatorInv'
  <2>1. PICK expired \in SUBSET Are({"exited"}) :
            terminals' = [Reaped(expired) EXCEPT ![r] =
                [state |-> "opening", workspace |-> w, creator |-> c]]
    BY <1>1 DEF CreateBegin
  <2>2. terminals[r] = NoTerminal /\ UNCHANGED leaseVars
    BY <1>1 DEF CreateBegin
  <2>3. \A s \in Resources \ {r} : terminals'[s] = Reaped(expired)[s]
    BY <2>1 DEF Reaped
  <2>4. \A s \in expired : /\ ~Fresh(s) /\ terminals[s] \in Terminal
                           /\ Reaped(expired)[s] = Became(s, "gone")
    BY DEF Reaped, Are, Fresh, Creating, TermInv
  <2>5. \A s \in expired : /\ Became(s, "gone") \in Terminal
                           /\ Became(s, "gone").creator = terminals[s].creator
                           /\ Became(s, "gone").state = "gone"
    BY <2>4 DEF Became, Terminal
  <2>6. \A s \in Resources \ expired : s # r => terminals'[s] = terminals[s]
    BY <2>3 DEF Reaped
  <2>7. KeepsCreators
    <3> SUFFICES ASSUME NEW s \in Resources
                 PROVE  /\ Fresh(s)' => Fresh(s)
                        /\ ~Fresh(s) => /\ terminals'[s] # NoTerminal
                                        /\ terminals'[s].creator = terminals[s].creator
      BY DEF KeepsCreators
    <3>1. CASE s = r
      BY <2>2, <3>1 DEF Fresh
    <3>2. CASE s # r /\ s \in expired
      BY <2>3, <2>4, <2>5, <3>2, TerminalAssumption DEF Fresh, Creating, Are, Terminal
    <3>3. CASE s # r /\ s \notin expired
      BY <2>6, <3>3 DEF Fresh, Creating, Are
    <3>4. QED BY <3>1, <3>2, <3>3
  <2>8. QED BY <2>2, <2>7, TerminalStepKeepsCreators
<1>2. ASSUME NEW r \in Resources, NEW ttl \in Ttls, CreateDone(r, ttl)
      PROVE  CreatorInv'
  BY <1>2, DoneKeepsCreators
<1>3. ASSUME NEW gone \in SUBSET Resources, NEW state \in {"gone", "exited"},
             \A s \in gone : terminals[s] # NoTerminal,
             terminals' = [s \in Resources |->
                 IF s \in gone THEN Became(s, state) ELSE terminals[s]]
      PROVE  KeepsCreators
  <2> SUFFICES ASSUME NEW s \in Resources
               PROVE  /\ Fresh(s)' => Fresh(s)
                      /\ ~Fresh(s) => /\ terminals'[s] # NoTerminal
                                      /\ terminals'[s].creator = terminals[s].creator
    BY DEF KeepsCreators
  <2>1. CASE s \in gone
    <3>1. /\ terminals'[s] \in Terminal /\ terminals'[s].state = state
          /\ terminals'[s].creator = terminals[s].creator
      BY <1>3, <2>1 DEF Became, Terminal, TermInv
    <3>2. terminals'[s] # NoTerminal
      BY <3>1, TerminalAssumption DEF Terminal
    <3>3. QED BY <3>1, <3>2 DEF Fresh, Creating, Are
  <2>2. CASE s \notin gone
    BY <1>3, <2>2 DEF Fresh, Creating, Are
  <2>3. QED BY <2>1, <2>2
<1>4. ASSUME NEW r \in Resources, CreateFails(r) \/ Exit(r)
      PROVE  CreatorInv'
  <2>1. PICK state \in {"gone", "exited"} :
            /\ terminals[r] # NoTerminal /\ UNCHANGED leaseVars
            /\ terminals' = [terminals EXCEPT ![r] = Became(r, state)]
    BY <1>4 DEF CreateFails, Exit, Creating, Alive, Are
  <2>2. terminals' = [s \in Resources |->
            IF s \in {r} THEN Became(s, state) ELSE terminals[s]]
    BY <2>1 DEF TermInv
  <2>3. QED BY <1>3, <2>1, <2>2, TerminalStepKeepsCreators
<1>5. ASSUME NEW expired \in SUBSET Resources, List(expired)
      PROVE  CreatorInv'
  BY <1>3, <1>5, TerminalStepKeepsCreators DEF List, Reaped, Are
<1>6. CASE TerminalRestart
  <2>1. \A s \in Resources : leases'[s] = NoLease
    BY <1>6 DEF TerminalRestart, Restart
  <2>2. granted' = {}
    BY <1>6 DEF TerminalRestart, Restart
  <2>3. QED BY <2>1, <2>2 DEF CreatorInv, RevokedHoldOnlyCreated
<1>7. CASE TerminalLeaseCall
  BY <1>7, CallKeepsCreators DEF TerminalLeaseCall
<1>8. CASE UNCHANGED terminals /\ (LeaseEnvironment \/ UNCHANGED leaseVars)
  <2>1. KeepsCreators
    BY <1>8 DEF KeepsCreators, Fresh, Creating, Are
  <2>2. ASSUME NEW c \in Controllers, Revoke(c) PROVE CreatorInv'
    BY <2>1, <2>2, NarrowingKeepsCreators DEF Revoke
  <2>3. CASE Tick \/ ClockSetBack \/ UNCHANGED leaseVars
    BY <2>1, <2>3, NarrowingKeepsCreators DEF Tick, ClockSetBack, leaseVars
  <2>4. QED BY <1>8, <2>2, <2>3 DEF LeaseEnvironment
<1>9. QED
  BY <1>1, <1>2, <1>4, <1>5, <1>6, <1>7, <1>8 DEF TermNext, termVars, leaseVars

\* A lease that a revoked controller still holds is the first grant of a terminal
\* whose create was under way (methods/terminals.ts:52): revoke() takes all the
\* others, and no lease call gives it one or keeps one alive (service.ts, revoke).
THEOREM RevokedKeepOnlyTheirCreates == TermSpec => []RevokedHoldOnlyCreated
<1>1. TermInit => CreatorInv
  BY DEF TermInit, LeaseInit, CreatorInv, RevokedHoldOnlyCreated
<1>2. LeaseInv /\ TermInv /\ CreatorInv /\ [TermNext]_termVars => CreatorInv'
  BY TermStepKeepsCreators
<1>3. CreatorInv => RevokedHoldOnlyCreated
  BY DEF CreatorInv
<1>4. QED BY <1>1, <1>2, <1>3, TerminalInvariant, PTL DEF TermSpec
=============================================================================
