---------------------------- MODULE ProxyProofs ----------------------------
(* Proofs about Proxy, for any proxies, ports and number of losses.          *)
EXTENDS Proxy, TLAPS

\* TypeOK, in parts.
ClientType ==
    /\ pc \in [Proxies -> {"dial", "listen", "env", "serve", "cleanup", "close",
                           "backoff", "stopped", "failed", "killed"}]
    /\ stop \subseteq Proxies
    /\ gen \in [Proxies -> 0..(Losses + 1)]
    /\ link \in [Proxies -> {"none", "up", "broken", "closed"}]
    /\ port \in [Proxies -> Ports \cup {None}]
    /\ cleans \subseteq Proxies
    /\ left \in 0..Losses

ServerType ==
    /\ srv \subseteq Conns /\ pending \subseteq Conns
    /\ fwd \in [Ports -> Conns \cup {None}]

FileType ==
    /\ env \in Records \cup {None}
    /\ lost \subseteq Conns /\ kept \subseteq Conns
    /\ taken \subseteq Foreign
    /\ rd \in {"read", "probe", "source"}
    /\ rfile \in Records \cup {None}
    /\ rd = "probe" => rfile \in Records

\* A proxy has dialed once, and once more for each loss at most.
Attached(p) == pc[p] \in {"listen", "env", "serve", "cleanup", "close"}
Dials ==
    \A p \in Proxies :
        /\ gen[p] <= Losses - left + 1
        /\ pc[p] \in {"dial", "backoff"} => gen[p] <= Losses - left
        /\ Attached(p) => link[p] # "none" /\ gen[p] >= 1
        /\ link[p] \in {"broken", "closed"} /\ Attached(p) => gen[p] <= Losses - left
        /\ link[p] = "up" /\ pc[p] \in {"cleanup", "close"} => p \in stop
        /\ link[p] = "up" => Attached(p)
        /\ pc[p] = "env" => port[p] \in Ports

\* A request that waits for its answer has its listener.
Bound == \A c \in pending : \E t \in Ports : fwd[t] = c

ProxyInv ==
    ClientType /\ ServerType /\ FileType /\ Dials /\ Bound /\ ForwardsEnd

LEMMA RunStep ==
    ASSUME NEW p \in Proxies, ProxyInv, Run(p)
    PROVE  ProxyInv'
<1> USE ProxyAssumption DEF ProxyInv, ClientType, ServerType, FileType, Dials,
        Bound, ForwardsEnd, Attached, client, server, past, reader,
        others, Records, Conns, Mine, Step
<1>1. CASE Dial(p)
  <2>1. ClientType' /\ ServerType' /\ FileType'
    BY <1>1 DEF Dial
  <2>2. Dials'
    BY <1>1 DEF Dial
  <2>3. Bound' /\ ForwardsEnd'
    BY <1>1 DEF Dial
  <2> QED
    BY <2>1, <2>2, <2>3 DEF ProxyInv
<1>2. CASE DialFails(p)
  <2>1. ClientType' /\ ServerType' /\ FileType'
    BY <1>2 DEF DialFails, Retry
  <2>2. Dials'
    BY <1>2 DEF DialFails, Retry
  <2>3. Bound' /\ ForwardsEnd'
    BY <1>2 DEF DialFails, Retry
  <2> QED
    BY <2>1, <2>2, <2>3 DEF ProxyInv
<1>3. CASE ListenLost(p)
  <2>1. ClientType' /\ ServerType' /\ FileType'
    BY <1>3 DEF ListenLost, Retry
  <2>2. Dials'
    BY <1>3 DEF ListenLost, Retry
  <2>3. Bound' /\ ForwardsEnd'
    BY <1>3 DEF ListenLost, Retry
  <2> QED
    BY <2>1, <2>2, <2>3 DEF ProxyInv
<1>4. CASE WriteEnv(p)
  <2>1. ClientType' /\ ServerType' /\ FileType'
    BY <1>4 DEF WriteEnv
  <2>2. Dials'
    BY <1>4 DEF WriteEnv
  <2>3. Bound' /\ ForwardsEnd'
    BY <1>4 DEF WriteEnv
  <2> QED
    BY <2>1, <2>2, <2>3 DEF ProxyInv
<1>5. CASE ServeEnds(p)
  <2>1. ClientType' /\ ServerType' /\ FileType'
    BY <1>5 DEF ServeEnds
  <2>2. Dials'
    BY <1>5 DEF ServeEnds
  <2>3. Bound' /\ ForwardsEnd'
    BY <1>5 DEF ServeEnds
  <2> QED
    BY <2>1, <2>2, <2>3 DEF ProxyInv
<1>6. CASE Cleanup(p)
  <2>1. ClientType' /\ ServerType' /\ FileType'
    BY <1>6 DEF Cleanup
  <2>2. Dials'
    BY <1>6 DEF Cleanup
  <2>3. Bound' /\ ForwardsEnd'
    BY <1>6 DEF Cleanup
  <2> QED
    BY <2>1, <2>2, <2>3 DEF ProxyInv
<1>7. CASE Close(p)
  <2>1. ClientType' /\ ServerType' /\ FileType'
    BY <1>7 DEF Close, Retry
  <2>2. Dials'
    BY <1>7 DEF Close, Retry
  <2>3. Bound' /\ ForwardsEnd'
    BY <1>7 DEF Close, Retry
  <2> QED
    BY <2>1, <2>2, <2>3 DEF ProxyInv
<1>8. CASE Backoff(p)
  <2>1. ClientType' /\ ServerType' /\ FileType'
    BY <1>8 DEF Backoff
  <2>2. Dials'
    BY <1>8 DEF Backoff
  <2>3. Bound' /\ ForwardsEnd'
    BY <1>8 DEF Backoff
  <2> QED
    BY <2>1, <2>2, <2>3 DEF ProxyInv
<1> QED
  BY <1>1, <1>2, <1>3, <1>4, <1>5, <1>6, <1>7, <1>8 DEF Run

LEMMA TroubleStep ==
    ASSUME NEW p \in Proxies, ProxyInv, Stop(p) \/ Kill(p) \/ Break(p) \/ Notice(p)
    PROVE  ProxyInv'
<1> USE ProxyAssumption DEF ProxyInv, ClientType, ServerType, FileType, Dials,
        Bound, ForwardsEnd, Attached, client, server, past, reader,
        others, Records, Conns, Mine, Step
<1>1. CASE Stop(p)
  <2>1. ClientType' /\ ServerType' /\ FileType'
    BY <1>1 DEF Stop
  <2>2. Dials'
    BY <1>1 DEF Stop
  <2>3. Bound' /\ ForwardsEnd'
    BY <1>1 DEF Stop
  <2> QED
    BY <2>1, <2>2, <2>3 DEF ProxyInv
<1>2. CASE Kill(p)
  <2>1. ClientType' /\ ServerType' /\ FileType'
    BY <1>2 DEF Kill, Ended
  <2>2. Dials'
    BY <1>2 DEF Kill, Ended
  <2>3. Bound' /\ ForwardsEnd'
    BY <1>2 DEF Kill, Ended
  <2> QED
    BY <2>1, <2>2, <2>3 DEF ProxyInv
<1>3. CASE Break(p)
  <2>1. ClientType' /\ ServerType' /\ FileType'
    BY <1>3 DEF Break
  <2>2. Dials'
    BY <1>3 DEF Break
  <2>3. Bound' /\ ForwardsEnd'
    BY <1>3 DEF Break
  <2> QED
    BY <2>1, <2>2, <2>3 DEF ProxyInv
<1>4. CASE Notice(p)
  <2>1. ClientType' /\ ServerType' /\ FileType'
    BY <1>4 DEF Notice
  <2>2. Dials'
    BY <1>4 DEF Notice
  <2>3. Bound' /\ ForwardsEnd'
    BY <1>4 DEF Notice
  <2> QED
    BY <2>1, <2>2, <2>3 DEF ProxyInv
<1> QED
  BY <1>1, <1>2, <1>3, <1>4

LEMMA ServeStep == ProxyInv /\ Serve => ProxyInv'
<1> SUFFICES ASSUME ProxyInv, Serve PROVE ProxyInv'
  OBVIOUS
<1> USE ProxyAssumption DEF ProxyInv, ClientType, ServerType, FileType, Dials,
        Bound, ForwardsEnd, Attached, client, server, past, reader,
        others, Records, Conns, Mine, Step
<1>1. ASSUME NEW p \in Proxies, DenyForward(p) PROVE ProxyInv'
  <2>1. ClientType' /\ ServerType' /\ FileType'
    BY <1>1 DEF DenyForward
  <2>2. Dials'
    BY <1>1 DEF DenyForward
  <2>3. Bound' /\ ForwardsEnd'
    BY <1>1 DEF DenyForward
  <2> QED
    BY <2>1, <2>2, <2>3 DEF ProxyInv
<1>2. ASSUME NEW p \in Proxies, NEW t \in Ports, BindForward(p, t) PROVE ProxyInv'
  <2>1. ClientType' /\ ServerType' /\ FileType'
    BY <1>2 DEF BindForward
  <2>2. Dials'
    BY <1>2 DEF BindForward
  <2>3. Bound' /\ ForwardsEnd'
    BY <1>2 DEF BindForward
  <2> QED
    BY <2>1, <2>2, <2>3 DEF ProxyInv
<1>3. ASSUME NEW c \in Conns, AddForward(c) PROVE ProxyInv'
  <2>1. ClientType' /\ ServerType' /\ FileType'
    BY <1>3 DEF AddForward, Reply
  <2>2. Dials'
    BY <1>3 DEF AddForward, Reply
  <2>3. Bound' /\ ForwardsEnd'
    BY <1>3 DEF AddForward, Reply
  <2> QED
    BY <2>1, <2>2, <2>3 DEF ProxyInv
<1>4. ASSUME NEW c \in Conns, EndConn(c) PROVE ProxyInv'
  <2>1. ClientType' /\ ServerType' /\ FileType'
    BY <1>4 DEF EndConn
  <2>2. Dials'
    BY <1>4 DEF EndConn
  <2>3. Bound' /\ ForwardsEnd'
    BY <1>4 DEF EndConn
  <2> QED
    BY <2>1, <2>2, <2>3 DEF ProxyInv
<1> QED
  BY <1>1, <1>2, <1>3, <1>4 DEF Serve

LEMMA ProxyStep == ProxyInv /\ [Next]_vars => ProxyInv'
<1> SUFFICES ASSUME ProxyInv, [Next]_vars PROVE ProxyInv'
  OBVIOUS
<1>1. ASSUME NEW p \in Proxies, Run(p) PROVE ProxyInv'
  BY <1>1, RunStep
<1>2. ASSUME NEW p \in Proxies, Stop(p) \/ Kill(p) \/ Break(p) \/ Notice(p)
      PROVE  ProxyInv'
  BY <1>2, TroubleStep
<1>3. CASE Serve
  BY <1>3, ServeStep
<1> USE ProxyAssumption DEF ProxyInv, ClientType, ServerType, FileType, Dials,
        Bound, ForwardsEnd, Attached, client, server, past, reader,
        others, Records, Conns, Mine, Step
<1>4. CASE Exec
  <2>1. ClientType' /\ ServerType' /\ FileType'
    BY <1>4 DEF Exec, ReadEnv, Probe, Source
  <2>2. Dials'
    BY <1>4 DEF Exec, ReadEnv, Probe, Source
  <2>3. Bound' /\ ForwardsEnd'
    BY <1>4 DEF Exec, ReadEnv, Probe, Source
  <2> QED
    BY <2>1, <2>2, <2>3 DEF ProxyInv
<1>5. CASE UNCHANGED vars
  <2>1. ClientType' /\ ServerType' /\ FileType'
    BY <1>5 DEF vars
  <2>2. Dials'
    BY <1>5 DEF vars
  <2>3. Bound' /\ ForwardsEnd'
    BY <1>5 DEF vars
  <2> QED
    BY <2>1, <2>2, <2>3 DEF ProxyInv
<1>6. ASSUME NEW t \in Ports, OtherListens(t) PROVE ProxyInv'
  BY <1>6 DEF OtherListens
<1> QED
  BY <1>1, <1>2, <1>3, <1>4, <1>5, <1>6 DEF Next

LEMMA ProxyInvariant == Spec => []ProxyInv
<1>1. Init => ProxyInv
  BY ProxyAssumption
     DEF Init, ProxyInv, ClientType, ServerType, FileType, Dials, Attached,
         Bound, ForwardsEnd
<1> QED
  BY <1>1, ProxyStep, PTL DEF Spec

\* A proxy dials no more often than connections break, and a request that is
\* answered has the port of its own listener (proxy.go:82-104, server.go).
THEOREM TypeCorrect == Spec => []TypeOK
<1>1. ProxyInv => TypeOK
  BY DEF ProxyInv, ClientType, ServerType, FileType, TypeOK
<1> QED
  BY ProxyInvariant, <1>1, PTL

\* No listener outlives its connection, the one that is opened while the
\* connection ends included: the port becomes free for the next run.
THEOREM PortsComeFree == Spec => []ForwardsEnd
<1>1. ProxyInv => ForwardsEnd
  BY DEF ProxyInv
<1> QED
  BY ProxyInvariant, <1>1, PTL

----------------------------------------------------------------------------
(* exec --proxy.                                                           *)

\* The server has the newest connection of a proxy while it is up, and the
\* listener the proxy has asked for on it.
Held ==
    \A p \in Proxies :
        /\ link[p] = "up" => Mine(p) \in srv
        /\ link[p] = "up" /\ pc[p] \in {"env", "serve"} =>
              Mine(p) \notin pending /\ port[p] \in Ports /\ fwd[port[p]] = Mine(p)

\* A file was written over some connection of its proxy.  While that is the
\* newest one and serves, the file says where.
Recorded(r) ==
    LET p == r.by[1] IN
    /\ r.by[2] <= gen[p]
    /\ r.by = Mine(p) => /\ pc[p] \notin {"listen", "env"}
                         /\ pc[p] = "serve" => r.port = port[p]

Known ==
    /\ env # None => Recorded(env)
    /\ rd = "probe" => Recorded(rfile)

LEMMA RunFinds ==
    ASSUME NEW p \in Proxies, ProxyInv, Held, Known, Run(p)
    PROVE  Held' /\ Known'
<1> USE ProxyAssumption DEF ProxyInv, ClientType, ServerType, FileType, Dials, Attached,
        client, server, past, reader, others, Records, Conns, Mine, Step
<1>1. CASE Dial(p)
  <2>1. Held'
    BY <1>1 DEF Held, Dial
  <2>2. Known'
    BY <1>1 DEF Known, Recorded, Dial
  <2> QED
    BY <2>1, <2>2
<1>2. CASE DialFails(p)
  <2>1. Held'
    BY <1>2 DEF Held, DialFails, Retry
  <2>2. Known'
    BY <1>2 DEF Known, Recorded, DialFails, Retry
  <2> QED
    BY <2>1, <2>2
<1>3. CASE ListenLost(p)
  <2>1. Held'
    BY <1>3 DEF Held, ListenLost, Retry
  <2>2. Known'
    BY <1>3 DEF Known, Recorded, ListenLost, Retry
  <2> QED
    BY <2>1, <2>2
<1>4. CASE WriteEnv(p)
  <2>1. Held'
    BY <1>4 DEF Held, WriteEnv
  <2>2. Known'
    <3> DEFINE new == [by |-> Mine(p), port |-> port[p]]
    <3>1. env' \in {env, None, new}
      BY <1>4 DEF WriteEnv
    <3>2. /\ pc[p] = "env" /\ pc' = [pc EXCEPT ![p] = "serve"]
          /\ UNCHANGED <<gen, port, rd, rfile>>
      BY <1>4 DEF WriteEnv
    <3>3. ASSUME NEW f \in Records, Recorded(f) PROVE Recorded(f)'
      BY <3>2, <3>3 DEF Recorded
    <3>4. Recorded(new)'
      <4>1. new.by[1] = p /\ new.by[2] = gen[p] /\ new.port = port[p]
        OBVIOUS
      <4>2. pc'[p] = "serve" /\ gen[p] <= gen[p]
        BY <3>2
      <4> QED
        BY <3>2, <4>2 DEF Recorded
    <3> QED
      BY <3>1, <3>2, <3>3, <3>4 DEF Known
  <2> QED
    BY <2>1, <2>2
<1>5. CASE ServeEnds(p)
  <2>1. Held'
    BY <1>5 DEF Held, ServeEnds
  <2>2. Known'
    BY <1>5 DEF Known, Recorded, ServeEnds
  <2> QED
    BY <2>1, <2>2
<1>6. CASE Cleanup(p)
  <2>1. Held'
    BY <1>6 DEF Held, Cleanup
  <2>2. Known'
    BY <1>6 DEF Known, Recorded, Cleanup
  <2> QED
    BY <2>1, <2>2
<1>7. CASE Close(p)
  <2>1. Held'
    BY <1>7 DEF Held, Close, Retry
  <2>2. Known'
    BY <1>7 DEF Known, Recorded, Close, Retry
  <2> QED
    BY <2>1, <2>2
<1>8. CASE Backoff(p)
  <2>1. Held'
    BY <1>8 DEF Held, Backoff
  <2>2. Known'
    BY <1>8 DEF Known, Recorded, Backoff
  <2> QED
    BY <2>1, <2>2
<1> QED
  BY <1>1, <1>2, <1>3, <1>4, <1>5, <1>6, <1>7, <1>8 DEF Run

LEMMA OthersFind ==
    ASSUME ProxyInv, Held, Known, [Next]_vars,
           \A p \in Proxies : ~Run(p)
    PROVE  Held' /\ Known'
<1> USE ProxyAssumption DEF ProxyInv, ClientType, ServerType, FileType, Dials, Attached,
        client, server, past, reader, others, Records, Conns, Mine, Step
<1>1. ASSUME NEW p \in Proxies, Stop(p) \/ Kill(p) \/ Break(p) \/ Notice(p)
      PROVE  Held' /\ Known'
  <2>1. Held'
    BY <1>1 DEF Held, Stop, Kill, Break, Notice
  <2>2. Known'
    BY <1>1 DEF Known, Recorded, Stop, Kill, Break, Notice
  <2> QED
    BY <2>1, <2>2
<1>2. ASSUME NEW p \in Proxies, DenyForward(p) PROVE Held' /\ Known'
  <2>1. Held'
    BY <1>2 DEF Held, DenyForward
  <2>2. Known'
    BY <1>2 DEF Known, Recorded, DenyForward
  <2> QED
    BY <2>1, <2>2
<1>3. ASSUME NEW p \in Proxies, NEW t \in Ports, BindForward(p, t)
      PROVE  Held' /\ Known'
  <2>1. Held'
    BY <1>3 DEF Held, BindForward
  <2>2. Known'
    BY <1>3 DEF Known, Recorded, BindForward
  <2> QED
    BY <2>1, <2>2
<1>4. ASSUME NEW c \in Conns, AddForward(c) PROVE Held' /\ Known'
  <2>1. Held'
    BY <1>4 DEF Held, AddForward, Reply, Bound
  <2>2. Known'
    BY <1>4 DEF Known, Recorded, AddForward, Reply
  <2> QED
    BY <2>1, <2>2
<1>5. ASSUME NEW c \in Conns, EndConn(c) PROVE Held' /\ Known'
  <2>1. Held'
    BY <1>5 DEF Held, EndConn
  <2>2. Known'
    BY <1>5 DEF Known, Recorded, EndConn
  <2> QED
    BY <2>1, <2>2
<1>6. CASE Exec \/ UNCHANGED vars
  <2>1. Held'
    BY <1>6 DEF Held, Exec, ReadEnv, Probe, Source, vars
  <2>2. Known'
    BY <1>6 DEF Known, Recorded, Exec, ReadEnv, Probe, Source, vars
  <2> QED
    BY <2>1, <2>2
<1>7. ASSUME NEW t \in Ports, OtherListens(t) PROVE Held' /\ Known'
  BY <1>7 DEF Held, Known, Recorded, OtherListens
<1> QED
  BY <1>1, <1>2, <1>3, <1>4, <1>5, <1>6, <1>7 DEF Next, Serve

\* Whatever became of earlier connections, other runs and other programs since it
\* has read proxy.env: a command is not refused while the proxy that wrote the file
\* serves, and it tries that proxy's own listener (exec.go:156-165, server.go).
THEOREM FindsServing == Spec => ServingIsFound
<1>1. Init => Held /\ Known
  BY DEF Init, Held, Known
<1>2. ProxyInv /\ Held /\ Known /\ [Next]_vars => Held' /\ Known'
  BY RunFinds, OthersFind
<1>3. ProxyInv /\ Held /\ Known /\ [Next]_vars =>
          [\A p \in Proxies :
              /\ rd = "probe" /\ rd' # "probe"
              /\ rfile.by = Mine(p) /\ pc[p] = "serve" /\ link[p] = "up"
              => rd' = "source" /\ fwd[rfile.port] = Mine(p)]_vars
  <2> SUFFICES ASSUME ProxyInv, Held, Known, [Next]_vars, NEW p \in Proxies,
                      rd = "probe", rd' # "probe", rfile.by = Mine(p),
                      pc[p] = "serve", link[p] = "up"
               PROVE  rd' = "source" /\ fwd[rfile.port] = Mine(p)
    BY DEF vars
  <2>1. Probe
    BY DEF Next, Run, Dial, DialFails, ListenLost, WriteEnv, ServeEnds, Cleanup,
           Close, Backoff, Stop, Kill, Break, Notice, Serve, DenyForward,
           BindForward, AddForward, EndConn, OtherListens, Exec, ReadEnv, Source,
           vars, others, reader
  <2>2. fwd[rfile.port] = Mine(p)
    <3>1. rfile.by[1] = p
      BY DEF Mine
    <3>2. rfile.port = port[p]
      BY <3>1 DEF Known, Recorded
    <3> QED
      BY <3>2 DEF Held
  <2>3. Mine(p) # None
    BY ProxyAssumption DEF ProxyInv, FileType, Records
  <2> QED
    BY <2>1, <2>2, <2>3 DEF Probe
<1> QED
  BY ProxyInvariant, <1>1, <1>2, <1>3, PTL DEF Spec, ServingIsFound

----------------------------------------------------------------------------
(* proxy.env.                                                              *)

\* A proxy that is still attached has lost its connection only if it broke.
Broken ==
    \A p \in Proxies :
        Attached(p) /\ link[p] \in {"broken", "closed"} => Mine(p) \in lost

\* EnvHonest, and the removal of the file is deferred.
EnvKept ==
    env # None =>
        LET p == env.by[1] IN
        \/ env.by \in lost \cup kept \/ pc[p] = "killed"
        \/ /\ env.by = Mine(p) /\ env.port = port[p]
           /\ pc[p] \in {"serve", "cleanup"} /\ p \in cleans

LEMMA EnvStep ==
    ASSUME ClientType, FileType, Dials, Broken, EnvKept, [Next]_vars
    PROVE  Broken' /\ EnvKept'
<1> USE ProxyAssumption DEF Broken, EnvKept, Attached, Mine, client, server,
        past, reader, others, Records, Conns, Step
<1>0. env # None => env.by[1] \in Proxies
  BY DEF FileType
<1>1. ASSUME NEW p \in Proxies, Dial(p) PROVE Broken' /\ EnvKept'
  BY <1>0, <1>1 DEF Dial, ClientType
<1>2. ASSUME NEW p \in Proxies, DialFails(p) PROVE Broken' /\ EnvKept'
  BY <1>0, <1>2 DEF DialFails, Retry, ClientType
<1>3. ASSUME NEW p \in Proxies, ListenLost(p) PROVE Broken' /\ EnvKept'
  BY <1>0, <1>3 DEF ListenLost, Retry, ClientType
<1>4. ASSUME NEW p \in Proxies, WriteEnv(p) PROVE Broken' /\ EnvKept'
  BY <1>0, <1>4 DEF WriteEnv, ClientType
<1>5. ASSUME NEW p \in Proxies, ServeEnds(p) PROVE Broken' /\ EnvKept'
  BY <1>0, <1>5 DEF ServeEnds, ClientType
<1>6. ASSUME NEW p \in Proxies, Cleanup(p) PROVE Broken' /\ EnvKept'
  <2>1. Broken'
    BY <1>0, <1>6 DEF Cleanup, ClientType
  <2>2. EnvKept'
    <3>1. /\ pc[p] = "cleanup" /\ pc' = [pc EXCEPT ![p] = "close"]
          /\ link[p] # "broken" /\ cleans' = cleans \ {p}
          /\ UNCHANGED <<gen, port, lost>>
          /\ p \in cleans /\ link[p] = "up" =>
                env' = None \/ (env' = env /\ kept' = kept \cup {Mine(p)})
          /\ ~(p \in cleans /\ link[p] = "up") => UNCHANGED <<env, kept>>
          /\ kept \subseteq kept' /\ env' \in {env, None}
      BY <1>6 DEF Cleanup
    <3>2. CASE env # None /\ env.by[1] = p
      <4>1. link[p] \in {"up", "closed"}
        BY <3>1 DEF ClientType, Dials
      <4>2. env.by \in lost \cup kept \/ (env.by = Mine(p) /\ p \in cleans)
        BY <3>1, <3>2
      <4> QED
        BY <3>1, <4>1, <4>2
    <3>3. CASE env # None /\ env.by[1] # p
      BY <1>0, <3>1, <3>3 DEF ClientType
    <3> QED
      BY <3>1, <3>2, <3>3
  <2> QED
    BY <2>1, <2>2
<1>7. ASSUME NEW p \in Proxies, Close(p) PROVE Broken' /\ EnvKept'
  BY <1>0, <1>7 DEF Close, Retry, ClientType
<1>8. ASSUME NEW p \in Proxies, Backoff(p) PROVE Broken' /\ EnvKept'
  BY <1>0, <1>8 DEF Backoff, ClientType
<1>9. ASSUME NEW p \in Proxies, Stop(p) \/ Kill(p) PROVE Broken' /\ EnvKept'
  BY <1>0, <1>9 DEF Stop, Kill, ClientType
<1>10. ASSUME NEW p \in Proxies, Break(p) \/ Notice(p) PROVE Broken' /\ EnvKept'
  BY <1>0, <1>10 DEF Break, Notice, ClientType
<1>11. ASSUME NEW p \in Proxies, DenyForward(p) PROVE Broken' /\ EnvKept'
  BY <1>0, <1>11 DEF DenyForward, ClientType
<1>12. ASSUME NEW p \in Proxies, NEW t \in Ports, BindForward(p, t)
       PROVE  Broken' /\ EnvKept'
  BY <1>0, <1>12 DEF BindForward
<1>13. ASSUME NEW c \in Conns, AddForward(c) PROVE Broken' /\ EnvKept'
  BY <1>0, <1>13 DEF AddForward, Reply, ClientType
<1>14. ASSUME NEW c \in Conns, EndConn(c) PROVE Broken' /\ EnvKept'
  BY <1>0, <1>14 DEF EndConn
<1>15. CASE Exec \/ UNCHANGED vars
  BY <1>15 DEF Exec, ReadEnv, Probe, Source, vars
<1>16. ASSUME NEW t \in Ports, OtherListens(t) PROVE Broken' /\ EnvKept'
  BY <1>16 DEF OtherListens
<1> QED
  BY <1>1, <1>2, <1>3, <1>4, <1>5, <1>6, <1>7, <1>8, <1>9, <1>10, <1>11, <1>12,
     <1>13, <1>14, <1>15, <1>16 DEF Next, Run, Serve

\* However runs of tn proxy on one account overlap, reconnect and stop, proxy.env
\* names a proxy that serves on that port, or one whose connection broke, that was
\* killed, or that has failed to remove the file (proxy.go:142-173).
THEOREM EnvIsHonest == Spec => []EnvHonest
<1>1. Init => Broken /\ EnvKept
  BY DEF Init, Broken, EnvKept, Attached
<1>2. ProxyInv /\ Broken /\ EnvKept /\ [Next]_vars => Broken' /\ EnvKept'
  BY EnvStep DEF ProxyInv
<1>3. EnvKept => EnvHonest
  BY DEF EnvKept, EnvHonest
<1> QED
  BY ProxyInvariant, <1>1, <1>2, <1>3, PTL DEF Spec

=============================================================================
