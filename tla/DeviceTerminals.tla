--------------------------- MODULE DeviceTerminals ---------------------------
(***************************************************************************)
(* The terminals of the device service: TerminalManager                     *)
(* (src/agent/server/terminals.ts), the terminal RPCs that drive it and the *)
(* input leases they take (InputLease).  A terminal belongs to the device:  *)
(* a controller that disconnects, switches away or is revoked kills none.   *)
(*                                                                         *)
(* terminals.create awaits the shell; between its checks and its answer     *)
(* everything else may happen.  It runs in an execution context, which does *)
(* not ask again whether the controller is still paired (request-context.ts,*)
(* DeviceExecutionContext).                                                 *)
(***************************************************************************)
EXTENDS InputLease

CONSTANTS
    Workspaces,
    MaxPerWorkspace,    \* maxPerWorkspace, 8 by default
    MaxTotal,           \* maxTotal, 32 by default
    NoTerminal          \* an id that was not given out yet

ASSUME TerminalAssumption ==
    /\ IsFiniteSet(Resources)
    /\ MaxPerWorkspace \in Nat \ {0} /\ MaxTotal \in Nat \ {0}
    /\ NoTerminal \notin [state : {"opening", "alive", "exited", "gone"},
                          workspace : Workspaces, creator : Controllers]

VARIABLE terminals  \* TerminalManager.sessions and the creates under way, by id

termVars == <<terminals, leases, counter, clock, revoked, granted, handed, earlier,
              setBack>>

Terminal == [state : {"opening", "alive", "exited", "gone"},
             workspace : Workspaces, creator : Controllers]

TermTypeOK == LeaseTypeOK /\ terminals \in [Resources -> Terminal \cup {NoTerminal}]

TermInit == LeaseInit /\ terminals = [r \in Resources |-> NoTerminal]

-----------------------------------------------------------------------------

Are(states)  == {r \in Resources : terminals[r] # NoTerminal /\ terminals[r].state \in states}
Alive        == Are({"alive"})
Creating     == Are({"opening"})        \* the counter "creating"
AliveIn(w)   == {r \in Alive : terminals[r].workspace = w}
Known        == Are({"alive", "exited", "gone"})

\* Mutant: the entry forgets who opened the terminal.
BecameAnonymous(r, state) == [state |-> state, workspace |-> terminals[r].workspace]

\* The entry of terminal r in another state.
Became(r, state) ==
    [state |-> state, workspace |-> terminals[r].workspace,
     creator |-> terminals[r].creator]

\* reap(): the exited terminals whose retention has passed, any of them.
Reaped(expired) ==
    [r \in Resources |->
        IF r \in expired THEN Became(r, "gone") ELSE terminals[r]]

\* Mutant: creates under way are not counted.
HasCapacityForAlive(w) ==
    /\ Cardinality(Alive) < MaxTotal
    /\ Cardinality(AliveIn(w)) < MaxPerWorkspace

\* The limit check of create.
HasCapacity(w) ==
    /\ Cardinality(Alive) + Cardinality(Creating) < MaxTotal
    /\ Cardinality(AliveIn(w)) < MaxPerWorkspace

\* terminals.create up to the await of open.  r is the id newId() will return.
CreateBegin(r, c, w) ==
    /\ Authorized(c)
    /\ terminals[r] = NoTerminal
    /\ HasCapacity(w)
    /\ \E expired \in SUBSET Are({"exited"}) :
           terminals' = [Reaped(expired) EXCEPT ![r] =
               [state |-> "opening", workspace |-> w, creator |-> c]]
    /\ UNCHANGED leaseVars

\* open failed (the workspace is gone, is remote, or the shell does not start).
CreateFails(r) ==
    /\ r \in Creating
    /\ terminals' = [terminals EXCEPT ![r] = Became(r, "gone")]
    /\ UNCHANGED leaseVars

\* open resolved: the session is stored and its creator acquires the lease,
\* which is refused when the lease map is full - the terminal stays.  Only the
\* return of the promise lies between the two: no request can name the new id
\* before its answer or a later list has told it.
CreateDone(r, ttl) ==
    /\ r \in Creating
    /\ terminals' = [terminals EXCEPT ![r] = Became(r, "alive")]
    /\ \/ AcquireFree(r, terminals[r].creator, ttl)
       \/ AcquireAtLimit(r, terminals[r].creator)

\* onExit: the process ended by itself or was killed.
Exit(r) ==
    /\ r \in Alive
    /\ terminals' = [terminals EXCEPT ![r] = Became(r, "exited")]
    /\ UNCHANGED leaseVars

\* terminals.list reaps before it answers.
List(expired) ==
    /\ expired # {} /\ expired \subseteq Are({"exited"})
    /\ terminals' = Reaped(expired)
    /\ UNCHANGED leaseVars

\* Lease calls name a terminal whose id its creator or a watcher has seen.
TerminalLeaseCall ==
    /\ \E r \in Known : LeaseCallOn(r)
    /\ UNCHANGED terminals

\* The process restarts: sessions and creates under way are gone.
TerminalRestart ==
    /\ Restart
    /\ terminals' = [r \in Resources |->
           IF terminals[r] = NoTerminal THEN NoTerminal
           ELSE Became(r, "gone")]

TermNext ==
    \/ \E r \in Resources :
           \/ \E c \in Controllers, w \in Workspaces : CreateBegin(r, c, w)
           \/ \E ttl \in Ttls : CreateDone(r, ttl)
           \/ CreateFails(r)
           \/ Exit(r)
    \/ \E expired \in SUBSET Resources : List(expired)
    \/ TerminalLeaseCall
    \/ LeaseEnvironment /\ UNCHANGED terminals
    \/ TerminalRestart

TermSpec == TermInit /\ [][TermNext]_termVars

-----------------------------------------------------------------------------
(* Properties *)

\* However many creates overlap, no more terminals run or are being opened than
\* the device allows: a create that waits for its shell keeps its place
\* (terminals.ts, create: alive.length + this.creating).
TotalLimit == Cardinality(Alive) + Cardinality(Creating) <= MaxTotal

\* A revoked controller is left with what its last creates give it: a lease it
\* still holds is the first and only grant of a terminal it opened itself, so no
\* acquire, renewal or handoff after the revocation got it there (service.ts:184,
\* releaseAll; methods/terminals.ts:52, acquire after the await).
RevokedHoldOnlyCreated ==
    \A r \in Resources :
        leases[r] # NoLease /\ leases[r].holder \in revoked =>
            /\ terminals[r] # NoTerminal /\ terminals[r].creator = leases[r].holder
            /\ \A g \in granted : g.resource = r => g.token = leases[r].token

\* The comment in revoke() says more (service.ts:184): a revoked controller cannot
\* go on holding any lease.  A create that was awaiting its shell makes it false.
RevokedHoldNothing ==
    \A r \in Resources : leases[r] # NoLease => leases[r].holder \notin revoked

\* The other half of the limit in the header of terminals.ts (line 8): a
\* workspace runs at most MaxPerWorkspace terminals.
WorkspaceLimit == \A w \in Workspaces : Cardinality(AliveIn(w)) <= MaxPerWorkspace

\* Whoever opens a terminal may type into it (methods/terminals.ts:53): a
\* terminal that comes alive has its creator as the holder of its lease.
CreatorTypes ==
    [][\A r \in Resources :
          r \in Creating /\ r \in Alive'
              => leases'[r] # NoLease /\ leases'[r].holder = terminals[r].creator
      ]_termVars
=============================================================================
