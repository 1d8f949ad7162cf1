-------------------------- MODULE HoldDaemonProofs --------------------------
(* Proofs about HoldDaemon, for any connections, slots and clock, and about  *)
(* HoldSftp, for any operations and SFTP clients.                            *)
EXTENDS HoldDaemon, HoldSftp, FiniteSetTheorems, TLAPS

\* Connections whose serveConn is somewhere in S.
In(f, S) == {x \in Conns : f[x] \in S}

\* What a connection that moves adds to the number of those in S.
Change(from, to, S) == (IF to \in S THEN 1 ELSE 0) - (IF from \in S THEN 1 ELSE 0)

\* One connection moves: the number of those in S changes by where it leaves
\* and where it arrives.
LEMMA Moved ==
    ASSUME NEW f \in [Conns -> ConnPc], NEW c \in Conns, NEW g, NEW S,
           \A x \in Conns : x # c => g[x] = f[x]
    PROVE  /\ Cardinality(In(f, S)) \in Nat
           /\ f[c] \in S => Cardinality(In(f, S)) > 0
           /\ Cardinality(In(g, S))
                = Cardinality(In(f, S)) + Change(f[c], g[c], S)
<1> USE DEF Change
<1>1. IsFiniteSet(In(f, S))
  <2>1. In(f, S) \in SUBSET Conns
    BY DEF In
  <2> QED
    BY <2>1, FS_Subset, DaemonAssumption
<1>2. Cardinality(In(f, S)) \in Nat
  BY <1>1, FS_CardinalityType
<1>3. ASSUME f[c] \in S PROVE Cardinality(In(f, S)) > 0
  <2>1. In(f, S) # {}
    BY <1>3 DEF In
  <2> QED
    BY <2>1, <1>1, <1>2, FS_EmptySet
<1>4. CASE f[c] \in S /\ g[c] \in S
  <2>1. In(g, S) = In(f, S)
    BY <1>4 DEF In
  <2> QED
    BY <2>1, <1>2, <1>3, <1>4
<1>5. CASE f[c] \in S /\ g[c] \notin S
  <2>1. In(g, S) = In(f, S) \ {c} /\ c \in In(f, S)
    BY <1>5 DEF In
  <2>2. Cardinality(In(g, S)) = Cardinality(In(f, S)) - 1
    BY <2>1, <1>1, FS_RemoveElement
  <2> QED
    BY <2>2, <1>2, <1>3, <1>5
<1>6. CASE f[c] \notin S /\ g[c] \in S
  <2>1. In(g, S) = In(f, S) \cup {c} /\ c \notin In(f, S)
    BY <1>6 DEF In
  <2>2. Cardinality(In(g, S)) = Cardinality(In(f, S)) + 1
    BY <2>1, <1>1, FS_AddElement
  <2> QED
    BY <2>2, <1>2, <1>6
<1>7. CASE f[c] \notin S /\ g[c] \notin S
  <2>1. In(g, S) = In(f, S)
    BY <1>7 DEF In
  <2> QED
    BY <2>1, <1>2, <1>7
<1> QED
  BY <1>4, <1>5, <1>6, <1>7

----------------------------------------------------------------------------

\* The process is gone, and every connection with it.
Gone == main = "ended" => \A c \in Conns : pc[c] \in {"none", "closed"}

\* Only a connection past its operation was told anything.
ToldLate ==
    \A c \in Conns : told[c] # "nothing"
        => pc[c] \in {"stop", "uncount", "retouch", "release", "closed"}

\* The counts, with the sets they count in a form the lemma applies to.
Exact ==
    main # "ended" => /\ sem = Cardinality(In(pc, Holding))
                      /\ active = Cardinality(In(pc, InFlight))

CountInv == TypeOK /\ Gone /\ ToldLate /\ Exact /\ IdleSparesRunning

LEMMA InitCounted == Init => CountInv
<1> SUFFICES ASSUME Init PROVE CountInv
  OBVIOUS
<1>1. TypeOK
  BY DaemonAssumption DEF Init, TypeOK, ConnPc
<1>2. In(pc, Holding) = {} /\ In(pc, InFlight) = {}
  BY DEF Init, In, Holding, InFlight, Change
<1>3. Exact
  BY <1>2, FS_EmptySet DEF Init, Exact
<1> QED
  BY <1>1, <1>3 DEF CountInv, Init, Gone, ToldLate, IdleSparesRunning

\* A step of serveConn keeps the counts exact.
LEMMA ConnStep ==
    ASSUME CountInv, NEW c \in Conns,
           Arrive(c) \/ Accept(c) \/ ServeConn(c)
    PROVE  CountInv'
<1> USE DEF counts, stopping
<1>0. /\ pc \in [Conns -> ConnPc] /\ sem \in Int /\ active \in Int
      /\ Slots \in Nat
  BY DaemonAssumption DEF CountInv, TypeOK
<1>1. ASSUME NEW from, NEW to, Step(c, from, to)
      PROVE  /\ Cardinality(In(pc', Holding))
                  = Cardinality(In(pc, Holding)) + Change(from, to, Holding)
             /\ Cardinality(In(pc', InFlight))
                  = Cardinality(In(pc, InFlight)) + Change(from, to, InFlight)
  <2>1. pc[c] = from /\ pc' = [pc EXCEPT ![c] = to]
    BY <1>1 DEF Step
  <2>2. pc'[c] = to /\ \A x \in Conns : x # c => pc'[x] = pc[x]
    BY <2>1, <1>0
  <2>3. \A S : Cardinality(In(pc', S))
                 = Cardinality(In(pc, S)) + Change(pc[c], pc'[c], S)
    BY <2>2, <1>0, Moved
  <2> QED
    BY <2>1, <2>2, <2>3
<1>2. /\ Cardinality(In(pc, Holding)) \in Nat
      /\ Cardinality(In(pc, InFlight)) \in Nat
      /\ pc[c] \in Holding => Cardinality(In(pc, Holding)) > 0
  BY <1>0, Moved
<1>3. CountInv
  OBVIOUS
<1>4. CASE Arrive(c)
  <2>1. Step(c, "none", "backlog")
    BY <1>4 DEF Arrive
  <2>2. Exact'
    BY <2>1, <1>1, <1>2, <1>3, <1>4
    DEF CountInv, Exact, Arrive, Holding, InFlight, Change
  <2> QED
    BY <2>2, <1>3, <1>4 DEF CountInv, Arrive, Step, TypeOK, ConnPc, Gone,
        ToldLate, IdleSparesRunning
<1>5. CASE Accept(c)
  <2>1. Step(c, "backlog", "hello")
    BY <1>5 DEF Accept
  <2>2. Exact'
    BY <2>1, <1>1, <1>2, <1>3, <1>5
    DEF CountInv, Exact, Accept, Holding, InFlight, Change
  <2> QED
    BY <2>2, <1>3, <1>5 DEF CountInv, Accept, Step, TypeOK, ConnPc, Gone,
        ToldLate, IdleSparesRunning
<1>6. CASE ReadRequest(c)
  <2>1. Step(c, "hello", "slot") \/ Step(c, "hello", "closed")
    BY <1>6 DEF ReadRequest
  <2>2. Exact'
    BY <2>1, <1>1, <1>2, <1>3, <1>6
    DEF CountInv, Exact, ReadRequest, Holding, InFlight, Change
  <2> QED
    BY <2>2, <1>3, <1>6 DEF CountInv, ReadRequest, Step, Tell, TypeOK, ConnPc,
        Gone, ToldLate, IdleSparesRunning
<1>7. CASE TakeSlot(c)
  <2>1. Step(c, "slot", "count") \/ Step(c, "slot", "closed")
    BY <1>7 DEF TakeSlot
  <2>2. main # "ended"
    BY <2>1, <1>3 DEF CountInv, Gone, Step
  <2>3. Exact'
    BY <2>1, <1>0, <1>1, <1>2, <1>3, <1>7
    DEF CountInv, Exact, TakeSlot, Step, Holding, InFlight, Change
  <2> QED
    BY <2>3, <1>0, <1>3, <1>7 DEF CountInv, TakeSlot, Step, Tell, TypeOK,
        ConnPc, Gone, ToldLate, IdleSparesRunning
<1>8. CASE Count(c)
  <2>1. Step(c, "count", "touch")
    BY <1>8 DEF Count
  <2>2. Exact'
    BY <2>1, <1>1, <1>2, <1>3, <1>8
    DEF CountInv, Exact, Count, Holding, InFlight, Change
  <2> QED
    BY <2>2, <1>0, <1>3, <1>8 DEF CountInv, Count, Step, TypeOK, ConnPc, Gone,
        ToldLate, IdleSparesRunning
<1>9. CASE Touch(c)
  <2>1. Step(c, "touch", "run")
    BY <1>9 DEF Touch
  <2>2. Exact'
    BY <2>1, <1>1, <1>2, <1>3, <1>9
    DEF CountInv, Exact, Touch, Holding, InFlight, Change
  <2> QED
    BY <2>2, <1>3, <1>9 DEF CountInv, Touch, Step, TypeOK, ConnPc, Gone,
        ToldLate, IdleSparesRunning
<1>10. CASE Run(c)
  <2>1. Step(c, "run", "stop") \/ Step(c, "run", "uncount")
    BY <1>10 DEF Run
  <2>2. Exact'
    BY <2>1, <1>1, <1>2, <1>3, <1>10
    DEF CountInv, Exact, Run, Holding, InFlight, Change
  <2> QED
    BY <2>2, <1>3, <1>10 DEF CountInv, Run, Step, Tell, TypeOK, ConnPc, Gone,
        ToldLate, IdleSparesRunning
<1>11. CASE Stop(c)
  <2>1. UNCHANGED pc \/ Step(c, "stop", "uncount")
    BY <1>11 DEF Stop
  <2>2. Exact'
    BY <2>1, <1>1, <1>2, <1>3, <1>11
    DEF CountInv, Exact, Stop, Holding, InFlight, Change
  <2> QED
    BY <2>2, <1>3, <1>11 DEF CountInv, Stop, Shut, Step, TypeOK, ConnPc, Gone,
        ToldLate, IdleSparesRunning
<1>12. CASE Uncount(c)
  <2>1. Step(c, "uncount", "retouch")
    BY <1>12 DEF Uncount
  <2>2. Exact'
    BY <2>1, <1>1, <1>2, <1>3, <1>12
    DEF CountInv, Exact, Uncount, Holding, InFlight, Change
  <2> QED
    BY <2>2, <1>0, <1>3, <1>12 DEF CountInv, Uncount, Step, TypeOK, ConnPc,
        Gone, ToldLate, IdleSparesRunning
<1>13. CASE Retouch(c)
  <2>1. Step(c, "retouch", "release")
    BY <1>13 DEF Retouch
  <2>2. Exact'
    BY <2>1, <1>1, <1>2, <1>3, <1>13
    DEF CountInv, Exact, Retouch, Holding, InFlight, Change
  <2> QED
    BY <2>2, <1>3, <1>13 DEF CountInv, Retouch, Step, TypeOK, ConnPc, Gone,
        ToldLate, IdleSparesRunning
<1>14. CASE Release(c)
  <2>1. Step(c, "release", "closed")
    BY <1>14 DEF Release
  <2>2. sem > 0
    BY <2>1, <1>0, <1>2, <1>3 DEF CountInv, Exact, Gone, Step, Holding
  <2>3. Exact'
    BY <2>1, <1>1, <1>2, <1>3, <1>14
    DEF CountInv, Exact, Release, Holding, InFlight, Change
  <2> QED
    BY <2>2, <2>3, <1>0, <1>3, <1>14 DEF CountInv, Release, Step, TypeOK,
        ConnPc, Gone, ToldLate, IdleSparesRunning
<1> QED
  BY <1>4, <1>5, <1>6, <1>7, <1>8, <1>9, <1>10, <1>11, <1>12, <1>13, <1>14
  DEF ServeConn

\* Steps of the other goroutines take no slot.
LEMMA DaemonStep ==
    ASSUME CountInv, Daemon \/ Drop \/ Tick \/ UNCHANGED vars
    PROVE  CountInv'
<1> USE DEF CountInv, TypeOK, Gone, ToldLate, Exact, IdleSparesRunning,
        serving, counts, stopping, Shut, Watchers
<1>1. CASE CloseListener \/ CloseClient \/ CloseDone
  BY <1>1 DEF CloseListener, CloseClient, CloseDone
<1>2. CASE AcceptError
  BY <1>2 DEF AcceptError
<1>3. CASE ProcessExit
  BY <1>3 DEF ProcessExit, ConnPc
<1>4. CASE WatchActive
  <2>1. main # "ended" => In(pc, InFlight) = {}
    <3>1. In(pc, InFlight) \in SUBSET Conns
      BY DEF In
    <3>2. IsFiniteSet(In(pc, InFlight))
      BY <3>1, FS_Subset, DaemonAssumption
    <3> QED
      BY <3>2, <1>4, FS_EmptySet DEF WatchActive
  <2>2. \A c \in Conns : pc[c] \notin {"run", "stop"}
    BY <2>1 DEF In, InFlight
  <2>3. {c \in Conns : pc[c] \in {"run", "stop"}} = {}
    BY <2>2
  <2> QED
    BY <2>3, <1>4 DEF WatchActive
<1>5. CASE WatchLast
  BY <1>5 DEF WatchLast
<1>6. CASE WatchShut
  BY <1>6 DEF WatchShut
<1>7. CASE WatchDone
  BY <1>7 DEF WatchDone
<1>8. CASE Drop
  BY <1>8 DEF Drop
<1>9. CASE Tick
  BY <1>9, DaemonAssumption DEF Tick
<1>10. CASE UNCHANGED vars
  BY <1>10 DEF vars
<1> QED
  BY <1>1, <1>2, <1>3, <1>4, <1>5, <1>6, <1>7, <1>8, <1>9, <1>10 DEF Daemon

LEMMA Counts == Spec => []CountInv
<1>1. CountInv /\ [Next]_vars => CountInv'
  BY ConnStep, DaemonStep DEF Next, Ended
<1> QED
  BY InitCounted, <1>1, PTL DEF Spec

\* Every variable keeps its type; in particular no more than Slots slots are
\* ever taken, whatever the number of connections (hold.go:340-347).
THEOREM TypeCorrect == Spec => []TypeOK
<1>1. CountInv => TypeOK
  BY DEF CountInv
<1> QED
  BY Counts, <1>1, PTL

\* While the process lives, sem and active count exactly the connections that
\* hold a slot and those in flight (hold.go:340-351).
THEOREM CountsExact == Spec => []Counted
<1>1. CountInv => Counted
  BY DEF CountInv, Counted, Exact, In
<1> QED
  BY Counts, <1>1, PTL

\* An operation that was running when idleWatch ticked defers the timeout
\* (hold.go:304).
THEOREM IdleDefers == Spec => []IdleSparesRunning
<1>1. CountInv => IdleSparesRunning
  BY DEF CountInv
<1> QED
  BY Counts, <1>1, PTL

\* A client is told one outcome (hold.go:336-362).
THEOREM ToldOnce == Spec => AnsweredOnce
<1>1. CountInv /\ [Next]_vars
        => [\A c \in Conns : told[c] # "nothing" => told'[c] = told[c]]_vars
  <2> DEFINE Once == \A c \in Conns : told[c] # "nothing" => told'[c] = told[c]
  <2> SUFFICES ASSUME CountInv, [Next]_vars PROVE Once \/ UNCHANGED vars
    OBVIOUS
  <2> USE DEF CountInv, TypeOK, ToldLate, serving, counts, stopping
  <2>1. ASSUME NEW c \in Conns, Arrive(c) \/ Accept(c) PROVE Once
    BY <2>1 DEF Arrive, Accept
  <2>2. ASSUME NEW c \in Conns, ServeConn(c) PROVE Once
    BY <2>2 DEF ServeConn, ReadRequest, TakeSlot, Count, Touch, Run, Stop,
        Uncount, Retouch, Release, Step, Tell
  <2>3. CASE Daemon
    BY <2>3 DEF Daemon, CloseListener, CloseClient, CloseDone, AcceptError,
        ProcessExit, WatchActive, WatchLast, WatchShut, WatchDone
  <2>4. CASE Drop \/ Tick
    BY <2>4 DEF Drop, Tick
  <2> QED
    BY <2>1, <2>2, <2>3, <2>4 DEF Next, Ended
<1> QED
  BY Counts, <1>1, PTL DEF Spec, AnsweredOnce

----------------------------------------------------------------------------
(* The shared SFTP client.                                                  *)

\* sftpMu is held exactly while newSFTP runs, and then nothing is cached.
Locked ==
    /\ \A o \in Ops : opPc[o] = "open" <=> mu = o
    /\ mu # None => sftpc = None

\* A client in the cache or in use has been opened.
Used ==
    /\ sftpc # None => status[sftpc] # "unused"
    /\ \A o \in Ops : using[o] # None => status[using[o]] # "unused"
    /\ \A o \in Ops : result[o] \in {"lost", "cut"} => using[o] # None

\* No client is closed but by an operation that failed on it; one that has not
\* failed yet has no result.
Blamed ==
    /\ \A s \in Sftps : status[s] = "closed" =>
          \E o \in Ops : using[o] = s /\ result[o] \in {"lost", "cut"}
    /\ \A o \in Ops :
          /\ opPc[o] \in {"idle", "lock", "open", "use"} => result[o] = "none"
          /\ opPc[o] = "relock" => result[o] \in {"lost", "cut"}

SftpInv == SftpTypeOK /\ Locked /\ Used /\ Blamed /\ NoneLeaked /\ Reopened

LEMMA SftpStep == SftpInv /\ [SftpNext]_sftpVars => SftpInv'
<1> SUFFICES ASSUME SftpInv, [SftpNext]_sftpVars PROVE SftpInv'
  OBVIOUS
<1> USE SftpAssumption DEF SftpInv, SftpTypeOK, Locked, Used, OpStep, End
<1>1. ASSUME NEW o \in Ops, Begin(o) PROVE SftpInv'
  BY <1>1 DEF Begin, NoneLeaked, Reopened, Blamed
<1>2. ASSUME NEW o \in Ops, Reuse(o) PROVE SftpInv'
  <2>1. SftpTypeOK' /\ Locked' /\ Used' /\ NoneLeaked' /\ Reopened'
    BY <1>2 DEF Reuse, NoneLeaked, Reopened, Blamed
  <2>2. Blamed'
    <3>1. opPc[o] = "lock" /\ result[o] = "none" /\ UNCHANGED <<result, status>>
      BY <1>2 DEF Reuse, Blamed
    <3>2. \A p \in Ops : p # o => using'[p] = using[p] /\ opPc'[p] = opPc[p]
      BY <1>2 DEF Reuse
    <3>3. opPc'[o] \in {"use", "open"}
      BY <1>2 DEF Reuse
    <3> QED
      BY <3>1, <3>2, <3>3 DEF Blamed
  <2> QED
    BY <2>1, <2>2
<1>3. ASSUME NEW o \in Ops, Open(o) PROVE SftpInv'
  <2>1. mu = o /\ sftpc = None
    BY <1>3 DEF Open
  <2>2. PICK s \in Sftps :
            /\ status[s] = "unused"
            /\ status' = [status EXCEPT ![s] = "open"]
            /\ sftpc' = s
            /\ using' = [using EXCEPT ![o] = s]
    BY <1>3 DEF Open
  <2>3. SftpTypeOK' /\ Locked' /\ Used'
    BY <2>1, <2>2, <1>3 DEF Open
  <2>4. NoneLeaked'
    BY <2>1, <2>2 DEF NoneLeaked
  <2>5. Reopened'
    BY <2>1, <2>2, <1>3 DEF Open, Reopened
  <2>6. Blamed'
    BY <2>1, <2>2, <1>3 DEF Open, Blamed
  <2> QED
    BY <2>3, <2>4, <2>5, <2>6
<1>4. ASSUME NEW o \in Ops, OpenFails(o) PROVE SftpInv'
  BY <1>4 DEF OpenFails, NoneLeaked, Reopened, Blamed
<1>5. ASSUME NEW o \in Ops, Finish(o) PROVE SftpInv'
  BY <1>5 DEF Finish, NoneLeaked, Reopened, Blamed
<1>6. ASSUME NEW o \in Ops, Lost(o) \/ Cut(o) PROVE SftpInv'
  BY <1>6 DEF Lost, Cut, NoneLeaked, Reopened, Blamed
<1>7. ASSUME NEW o \in Ops, DropSftp(o) PROVE SftpInv'
  BY <1>7 DEF DropSftp, NoneLeaked, Reopened, Blamed
<1>8. ASSUME NEW s \in Sftps, Lose(s) PROVE SftpInv'
  BY <1>8 DEF Lose, NoneLeaked, Reopened, Blamed
<1>9. CASE UNCHANGED sftpVars
  BY <1>9 DEF sftpVars, NoneLeaked, Reopened, Blamed
<1> QED
  BY <1>1, <1>2, <1>3, <1>4, <1>5, <1>6, <1>7, <1>8, <1>9 DEF SftpNext, WithSFTP

LEMMA SftpInvariant == SftpSpec => []SftpInv
<1>1. SftpInit => SftpInv
  BY SftpAssumption
     DEF SftpInit, SftpInv, SftpTypeOK, Locked, Used, Blamed, NoneLeaked, Reopened
<1> QED
  BY <1>1, SftpStep, PTL DEF SftpSpec

\* Whoever is past the lock has been given a client (hold.go:490-511).
THEOREM SftpTypeCorrect == SftpSpec => []SftpTypeOK
<1>1. SftpInv => SftpTypeOK
  BY DEF SftpInv
<1> QED
  BY SftpInvariant, <1>1, PTL

\* However losses, drops and reopenings interleave, the only SFTP client that is
\* open is the cached one (hold.go:490-511).
THEOREM NeverLeaks == SftpSpec => []NoneLeaked
<1>1. SftpInv => NoneLeaked
  BY DEF SftpInv
<1> QED
  BY SftpInvariant, <1>1, PTL

\* Nobody is given a client after an operation failed on it (hold.go:487-489).
THEOREM LostIsDropped == SftpSpec => []Reopened
<1>1. SftpInv => Reopened
  BY DEF SftpInv
<1> QED
  BY SftpInvariant, <1>1, PTL

\* An operation is told that its SFTP client is gone only if the subsystem was lost
\* or another operation of that client has failed before (hold.go:487-511).
THEOREM ClientsDoNotHurt == SftpSpec => OnlyOwnClientHurts
<1> DEFINE Fair == \A o \in Ops :
               result'[o] = "lost" /\ result[o] # "lost"
                  => \/ status[using[o]] = "lost"
                     \/ \E p \in Ops \ {o} : /\ using[p] = using[o]
                                             /\ result[p] \in {"lost", "cut"}
<1>1. SftpInv /\ [SftpNext]_sftpVars => [Fair]_sftpVars
  <2> SUFFICES ASSUME SftpInv, SftpNext, NEW o \in Ops,
                      result'[o] = "lost", result[o] # "lost"
               PROVE  \/ status[using[o]] = "lost"
                      \/ \E p \in Ops \ {o} : /\ using[p] = using[o]
                                              /\ result[p] \in {"lost", "cut"}
    OBVIOUS
  <2>1. Lost(o)
    BY DEF SftpNext, WithSFTP, SftpInv, SftpTypeOK, OpStep, End, Begin, Reuse, Open,
           OpenFails, Finish, Lost, Cut, DropSftp, Lose
  <2>2. result[o] = "none" /\ using[o] \in Sftps
    BY <2>1 DEF SftpInv, SftpTypeOK, Blamed, Lost, OpStep
  <2> QED
    BY <2>1, <2>2 DEF SftpInv, Blamed, Lost
<1> QED
  BY SftpInvariant, <1>1, PTL DEF SftpSpec, OnlyOwnClientHurts

============================================================================
