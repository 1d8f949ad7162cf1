# Verification of tune (`tn`)

`tn` runs commands and moves files over SSH. `tn hold` keeps one authenticated
connection per host alive in a daemon, which every other command reuses and
starts when it is missing. This directory holds TLA+ models of that program, the
TLC configurations that check them on small instances, and proofs of their most
important properties for every instance.

To check a module: `tlc -config HoldStartup_serial.cfg MCHoldStartup.tla`; to check
its proofs: `tlapm HoldStartupProofs.tla`. PROJECT.json maps every definition to the
lines it models, and lists the runs, the hazards and the theorems.

## The system

| Component | Source | State it keeps | Operations |
|---|---|---|---|
| hold: startup and client | `hold_unix.go`, `holdclient.go`, `hold.go` | lock file (flock), socket path, daemon processes, one connection per command | `tryHeld`, `ensureHold`, `spawnHold`, `stopHold`, `prepareHoldSocket`, direct fallback |
| hold: daemon | `hold.go` | slots, `active`, `last`, `stopOnce`, listener, SSH client | accept loop, `serveConn`, `idleWatch`, `shutdown` |
| hold: shared SFTP client | `hold.go` (`withSFTP`) | `sftpMu`, the cached client | open lazily, use, drop when lost |
| hold: operations and frames | `hold.go`, `holdclient.go`, `holdproto.go` | request, stdin frames, output frames, exit frame; session, stdin pipe; client idle timer | exec, read, write, ls, push, pull |
| files | `files.go` | remote files, `path.tn-tmp` | `writeFile`, `readFile`, push, pull, ls |
| upload-key | `uploadkey.go` | remote `authorized_keys` | read, merge, write; for the jump host first |
| mirror | `mirror.go` | remote and local listings, worker pool | walk, plan, download, delete, watch |
| proxy | `proxy.go` | remote forward, SOCKS server, shared `proxy.env` | reconnect with backoff, write and remove `proxy.env` |
| SOCKS5 server | `socks/socks5.go` | connections | handshake, dial, two-way copy |
| exec | `exec.go` | none | quoting, choice of held or direct path, exit code, `--proxy` prefix |
| dial, host keys, auth | `sshx/*.go` | SSH connection, jump host, `known_hosts` | two-hop dial, keepalive, host-key policies |
| doctor | `doctor.go` | the slots of its probe pool | dial, ping, close each host |
| configuration | `config/config.go`, `init.go` | `~/.tn/config.json` | load, edit, atomic save |
| status, bench, shell, root | `cli/*.go` | none that outlives the command | probes, terminal handling, flags |
| SSH test server | `sshtest/server.go` | connections, forwards | exec, sftp, `tcpip-forward` |

How they interact: every command resolves its settings from the configuration and
its flags, then tries the hold. `tryHeld` connects to the socket, reads the
daemon's hello, compares the settings' id and sends one request; what it cannot do
held it does over a connection of its own. Only `exec`, `read`, `write`, `ls`, `push`
and `pull` called non-interactively start a missing daemon, under a lock per host.
The daemon runs the request on its SSH connection, the SFTP operations on one shared
SFTP client, and streams frames back. The file operations are the same functions
whether the daemon calls them or the command. `upload-key`, `mirror`, `proxy` and
`doctor` dial for themselves; `proxy.env` joins a proxy to later `exec --proxy`
commands, and `known_hosts` joins all runs of `Dial`.

What is hard here:

- processes that share a lock, a socket path and a config file, and may die between
  any two system calls;
- a protocol whose outcome may be lost after the request was sent;
- goroutines that share counters, an idle timer, a once-only shutdown and a cached
  client;
- streams joined by goroutines (held exec, SOCKS), where each end must release the
  others whoever goes first, and say honestly how it went;
- remote files changed call by call by several runs, on servers with and without
  an atomic rename, from sources that may break off;
- reconnecting, retrying and polling loops (proxy, mirror) over shared files and over
  files that change meanwhile;
- several dials that check, ask and append to one `known_hosts`.

What makes each part correct:

- startup: an operation runs at most once and only with the settings its command
  would dial with; one daemon per host starts at a time and stays reachable; only
  dead sockets are removed; every command ends, whoever dies;
- daemon: the 64 slots and the in-flight count are exact on every path; idleness
  never stops a daemon that is working; a shutdown ends the process and every
  connection;
- shared SFTP client: none leaks, a lost one is not handed out again, nobody waits
  for ever, an operation is hurt by operations on its own client only;
- held exec: frames are not torn, all output precedes the exit code, the code is the
  command's, signals arrive, and both ends end;
- remote writes: readers see the old or the new content, a file that one run writes at
  a time changes at one instant, failed writes leave nothing;
- upload-key: keys that were there or were reported as added are there;
- mirror: a quiet round that succeeds leaves equality, rounds end, the mirror converges,
  and nothing the walk has seen is deleted;
- proxy: `proxy.env` names a proxy that serves, listeners go with their connections, a
  stop ends it, a loss is recovered from;
- SOCKS: the response is whole, each side of a pipe ends the other;
- dial, host keys, doctor: every error path closes what was opened, a changed key is
  never accepted, what is accepted is pinned, and every probe gets its turn.

`PROJECT.json` lists the hazards behind these, line by line.

## Modules

| Module | What it is |
|---|---|
| `HeldOp` | abstract: the life of one operation through a hold |
| `HoldStartup` | clients, daemons, lock, socket path; refines `HeldOp` |
| `HoldStartupProofs` | proofs about `HoldStartup` |
| `HoldDaemon` | the goroutines of one daemon |
| `HoldSftp` | the SFTP client a daemon's operations share |
| `HoldDaemonProofs` | proofs about both |
| `HoldExec`, `HoldExecProofs` | one exec through a hold: both ends, the session, the command |
| `AtomicFile` | abstract: remote files that change at one instant |
| `RemoteWrite`, `RemoteWriteProofs` | `writeFile` and `readFile`; refines `AtomicFile` |
| `Dial` | runs of `Dial` over one `known_hosts`, a doctor's probes among them |
| `UploadKey` | `upload-key`, composed of `Dial` and `RemoteWrite` |
| `UploadKeyProofs` | proofs about `Dial` and `UploadKey`, over `RemoteWriteProofs` |
| `Mirror`, `MirrorProofs` | rounds of `mirror` beside edits of the remote files |
| `Proxy`, `ProxyProofs` | runs of `proxy`, the server's forwards, `proxy.env`, `exec --proxy` |
| `Socks`, `SocksProofs` | one connection of the SOCKS5 server |
| `MC*` | small instances for TLC |

`HoldStartup` treats a daemon's operations as single steps; `HoldDaemon` opens one
daemon, `HoldSftp` its `withSFTP`, `HoldExec` its `opExec` with the client at the other end,
and `RemoteWrite` what `withSFTP` runs for a write. `UploadKey` extends `Dial` and
instantiates `RemoteWrite`; `Proxy` has a connection as one step of `Dial`, and `Socks` opens
one connection of the server it runs.

Definitions named after a fault (`AcquireShared`, `CopyUnchecked`, ...) and marked
"Mutant of ..." are plausible bugs of the code. They are part of no specification: put in
place of the definition they name, TLC must find the property listed for them violated,
which shows that the property can fail.

### HoldStartup

One step is one system call, message or local decision of one process.

- `disk`, `settings`: the config file and what each process resolved from it and from its
  host-key policy when it started (`holdConfigID`).
- `lock`: the flock; it is freed by the kernel when its holder dies.
- `path`: what `~/.tn/hold-<host>.sock` names: a daemon's socket, a dead one, or nothing.
  A socket is bound (`Bind`) before it listens (`Listen`), as in `net.Listen`; in
  between a connect is refused.
- `conn`: the daemon at the other end of each process's last connection; a probe by a
  starting daemon included.
- `pc`, `child`, `refused`, `req`, `ran`, `result`, `told`: where each process is, the daemon a
  client spawned, which daemons saw ECONNREFUSED, how far a request is, who ran it, what was reported,
  and who was told to stop.

`Connect` and `Greeted`/`AttachFails` are `holdAttach`; `Load` to `Direct` follow
`tryHeld`, `ensureHold`, `spawnHold`, `stopHold` and `holdRoundTrip` call by call; `LoadDaemon` to
`Exit` follow `runHoldDaemon`. A client is an operation that may start a daemon (`op`), one
that may not (`info`), `tn hold` or `tn hold --stop`. The environment kills clients and daemons,
ends a daemon (idle timeout, lost connection, SIGTERM), edits the config, lets a starter's
deadline pass, starts a daemon by hand, lets a hello time out and lets a client give up after `--idle`. Which of
these may happen is the constant `Faults`.

`HeldOp` says what a caller relies on: an operation is open, then committed by the write of its
request or closed without it; a committed operation is run at most once, by a daemon,
possibly after the command has reported; the command runs it itself only when it was never committed. The
mapping reads the phase off `pc` and `req`, and the runner off `ran`.

### HoldDaemon

A step is one access of a goroutine to shared state. `serveConn` of a connection goes through
`read`, the slot (`TakeSlot`), `active.Add(1)` (`Count`), `touch`, the operation (`Run`), the deferred
`active.Add(-1)` and `touch` (`Uncount`, `Retouch`) and the release of the slot, in the order the deferred calls
run. `idleWatch` reads `active`, reads `last` and shuts down in three steps (`WatchActive`, `WatchLast`,
`WatchShut`). `Shut` is `stopOnce.Do`: one caller runs the body (`CloseListener`, `CloseClient`, `CloseDone`), the others
wait for it. `noticed` is a history variable: the operations that were running when `idleWatch` ticked.

### HoldSftp

`withSFTP` with `sftpMu` held across `newSFTP` (`Reuse`, `Open`, `OpenFails`), the operation (`Finish`, `Lost`, `Cut`)
and the second critical section that drops a lost client (`DropSftp`). `Cut` is the error of the operation's own
stream that the code takes for a loss.

### RemoteWrite

The server's files are inodes. `file` and `tmp` say which inode a path and its `path.tn-tmp` name, `data` what
its chunks hold, and `handle` which inode a run has open, so that a reader keeps the inode it opened while the
path moves on. `Open` to `Cleanup` are the SFTP calls of `writeFile`, in order, with the fallback for servers without
`posix-rename` (`Remove`, `RenameAgain`); `ReadOpen` and `ReadChunk` are `readFile`. `SourceEnds` says when `io.Copy` sees the end
of its source: for a held write this depends on how the client's frames end (`opWrite`, `holdRoundTrip`).
`PosixRename` fails when the extension or the temporary file is missing, or its answer is lost with the connection, and the fallback's
`Rename` for any reason (`broken`). A server that has the extension and refuses the rename all the same (permissions, quota) is left out.

Files are of two kinds. `Rough` files may be written by several runs at once, or from a source that is cut short;
on the others (`Steady`) neither happens. `Plain` files are on servers without `posix-rename`. Runs and readers of
all kinds interleave.

`AtomicFile` says what `tn write` promises: a file goes from one whole content to another at one instant, and a
success is reported only for a write that took place. The mapping shows it each Steady file's inode and the results
of the runs that write one.

### HoldExec

One exec, both ends. The client's goroutines are `pump` (stdin), `sig` (signals), the reader (`Receive`) and the main loop
(`Show`, `Exited`, `IdleExpires`); the daemon's are the bridge of `opExec`, the session's two copies of the output and
`serve`, which is `serveConn` around `opExec`. `hand` is what a goroutine is about to write or to pass on.

- `wire`: the socket. A frame is two writes, its header and its payload, under `frameConn.mu` (`WriteHead`, `WriteBody`); it holds
  `Sock` of them, so that writers block. `eof` and no other frame has an empty payload.
- `inbox`: `frameCh` with room for one, and the frame in the reader's hands.
- `sin`, `sout`: the windows of the SSH channel. `pipe` is the `io.Pipe` between the bridge and the session.
- `remote`: the command, which ends by itself, at the end of its stdin, or on a signal (`CommandKinds`). Any of them may read its stdin, and only one that
  waits for the end of it has to.

`StartError` is `sess.Start` failing, with `exitCodeOf` of what it returns; `FinishSession` is `sess.Wait`. The inside of
`golang.org/x/crypto/ssh` is taken to deliver what it has read before it reports an end.

### Proxy

`pc` is where `RunE` and `runProxyOnce` of a proxy are. A connection is `<<proxy, number>>`; its two ends notice its end at
different moments: `link` is the client's view (`Break`, then `Notice` by the keepalive), `srv` the server's (`EndConn`). The
server opens a listener (`BindForward`) before it records it (`AddForward`), which closes it again when the connection has
ended in between. `proxy.env` has the connection it was written over and its port. `DenyForward` is the answer that `isPermanentProxyError` takes for one that does not pass. A write
of `proxy.env` may fail before, in or after its fallback's gap (`WriteEnv`), and its removal fails without a word (`Cleanup`); `kept` remembers
the connections whose removal failed. `ReadEnv`, `Probe`, `Source` are the three looks that the prefix of `exec --proxy` takes at the file. `Foreign` ports are those that other
programs listen on at times (`OtherListens`): they deny a forward and answer a probe like any listener.

### Socks

`handle` is one process up to `pipe` (`hs`), then its two copies (`copying`). A connection counts chunks sent and arrived in each
direction. `nudged` are the read deadlines that a copy sets on the other's source when it ends; over an SSH channel setting
one fails, and the failure is ignored, so only the target's works there. `habit` and `keeps` say how client and target behave. The target answers when it
likes, the request read or not; once it has closed, the next chunk written to it is answered by a reset, which may come before what the downward copy has not read yet.

### Mirror

A round is `Walk` (a file at a time), `Plan`, `Feed` to the pool, `Joined` and `DeleteGone`; a worker's job is `Open`, `Copy`, `Stamp`. A file's version
is a number that stands for its size and mtime. `Copy` yields the version that was opened, or a mixture (`Torn`) when it was
overwritten meanwhile. `Stamp` sets the mtime that the walk saw. A change can meet every stage (`Edit`); so can a failing call, the loss
of the connection and an interrupt, which the loop sees between rounds only. A call that fails is an error of the round in the walk and the downloads; in the local
listing, the stamp and the delete pass the code takes no notice, and `missed` holds what such a round could not list or remove. Directories are left out.

### Dial, UploadKey

A run of `Dial` goes through its hops; at each it makes its methods, connects, and then its callback checks the key shown (`Check`), perhaps
asks and appends it (`Pin`), before the login. `Check` reads `known_hosts` as it is then; between `Check` and `Pin` other runs append. `ClosedOnError` is what
the error path of each step closes. `Rekey` changes a host's key at any moment. `found` is a history variable: what was
pinned when the key was checked. The probes of a `doctor` are runs that wait for a slot.

`UploadKey` extends `Dial`: a run that is up reads the keys at its host, and either is done or writes what it has read with its own. The write
is `RemoteWrite`'s `WriteFile`, instantiated with the hosts as paths, call by call. `--jump` is a run that has to succeed before another (`After`). The
premise is `Alone`: two runs do not merge at one host at a time. The code does nothing to ensure it. A call of the write may fail, and `WriteLost` cuts it off at any call,
by a kill or with the connection. `gapped` is a history variable: the hosts where a run ended between the removal and the rename of the fallback. `KeysKept` exempts them: their
`authorized_keys` is gone, and the next run writes only its own keys.

## Runs

| Run | Question | Bounds | States |
|---|---|---|---|
| `serial` | When every starter stays to the end: does one daemon start at a time, stay reachable, and are only dead sockets removed? | a hold, an operation and a stop; a daemon of another version and two more; daemons killed and expired, a client that gives up waiting | 311 k |
| `faults` | Is an operation run at most once, with matching settings, as `HeldOp` says; does every command end, a reported stop happen, a clean exit leave nothing, whoever is killed? | an operation and a stop, a serving daemon and another, two configs; clients killed, edits, deadlines, a hello that times out, a daemon started by hand | 161 k |
| `daemon` | Are slots and counts exact, does work defer idleness, does a shutdown end the process, does an idle daemon exit? | two operations and a stop for one slot, a clock of one tick, lost connections, bad requests | 178 k |
| `shared` | Does no SFTP client leak, is a lost one never handed out, does every operation get its turn? | three operations, three clients | 9.5 k |
| `exec` | Is output complete before a code is reported, is the code the command's, do both ends end, does a signal arrive? | two chunks of stdin and one of each output, a socket of two parts, a window of one chunk, one signal; kills, silence, loss | 324 k |
| `writes` | Do readers see whole files, do files change atomically, is there no litter? | a direct and a held run, a reader, three files (normal, without posix-rename, rough), two chunks | 65 k |
| `proxy` | Is `proxy.env` honest, do ports come free, does `exec --proxy` find a proxy that serves, does a stop end a proxy, is a loss recovered from? | a proxy on a fixed port and one on any, two ports, one of which another program uses at times, one loss, kills, failing SFTP | 265 k |
| `socks` | Is the response whole, does either end's end, or a silent client, end the handler? | two chunks each way, three kinds of client, two of target, TCP and channel | 3.7 k |
| `mirror` | Does a quiet successful round leave equality, do rounds end, does the mirror converge? | two files and an excluded one, two workers, two edits, a failing call, loss, interrupt | 1,025 k |
| `upload` | Does every error path close what was opened, is a changed key never accepted, is no key lost, does every run end? | `upload-key --jump` and two probes of a doctor with one slot, two hosts, one of them without posix-rename, all policies but `insecure`, one changed host key, a write that fails or is cut off | 236 k |
| `cut` | violates `CutsLeaveWhole` | one held write | |
| `start_lost` | violates `CodeHonest` | one command, a loss before the answer to its start | |

Why the bounds are enough for what the runs are for.

- `HoldStartup`: the races are between two parties over one path or lock: two starters, a starter and a stopper, a daemon that goes and one
  that comes; the third client or daemon is there so that a race can repeat after a restart. The theorems drop the bounds.
- `HoldDaemon`: three connections for one slot reach a full pool and a refusal, with a stop among them; the counts are proved for every
  number. The clock needs `Idle` and no more, since time enters only by `now - last >= Idle`.
- `HoldExec`: buffers of the smallest size at which writers block, so that every cycle of waiting that a larger buffer only postpones
    can close; one chunk tells whether output was lost or a code came early. The window takes one chunk of stdin, so that with two the bridge can be stuck behind the second.
- `RemoteWrite`: a write of two chunks can break off or be read in the middle; two runs cover overlap and repetition after a death.
- `HoldSftp`: two operations race over a lost client and a third gets the new one.
- `Proxy`: two proxies share the file; one loss gives a proxy a second connection beside the remains of its first, and the server its old
    listener beside the new request. With two ports the proxy that picks its own waits in the model while both are taken, where a real server has more to pick from.
- `Socks`: with two chunks a copy can end before, between and after them.
- `Mirror`: two edits put a file through two versions within a round, or change one file in two rounds; two workers and two jobs overlap.
- `UploadKey`: two runs and two probes dial two hosts that they share in both roles, so that every hop meets a key that another
  pins, and one change of a key is one more than a pin can cover.

`CHECK_DEADLOCK FALSE` stands only where runs all end or may rest: `RemoteWrite`, `HoldSftp`, `HoldExec`, `Socks` and `Proxy`. `HoldStartup`,
`HoldDaemon`, `Mirror` and `UploadKey` have a step for their final states (`Quiescent`, `Ended`, `Over`), so that any other stop is reported.

Symmetry is used in `serial` only, which checks no liveness, over the daemons that have not started.

### Fairness

- `HoldStartup`: each live process is scheduled (WF per process), a connection attempt is made. No fault, edit or
  expiry is fair. SF of the starter's deadline (`GiveUp`): a loop whose probes fail for ever, because the hello of a live daemon
  times out each time, is one that looks at its deadline for ever. Without it TLC finds that loop.
- `HoldDaemon`: goroutines are scheduled, time passes while the daemon runs, and an operation ends. `AcceptError` is
  fair only after a shutdown, when the closed listener makes it certain.
- `HoldSftp`: SF per operation, because `sync.Mutex` hands itself to a starving waiter, and because `newSFTP` and the
  operation return. The latter is an assumption on the network.
- `HoldExec`, `Socks`, `UploadKey`: WF of all scheduled steps together. Each step consumes something bounded, a frame, a chunk, a
  stage, so that no step can be put off for ever by the others, and this is the same as WF of each. Typing, signalling, faults and a client that
  need not speak are outside it, and so is a command that reads its stdin, unless it waits for the end of it. In `UploadKey` servers are taken to
  answer or to close: see the divergence on deadlines.
- `Proxy`: WF of each proxy, of its keepalive and of the server. Other programs need not end, nor commands run. Losses are bounded, so a dial succeeds in the end.
- `Mirror`: WF of the command and of each worker; the interval passes. Edits are bounded, which is the premise of `Converges`.

## Theorems

All hold for every number of processes, daemons, connections, files, ports and chunks, and under every fault unless it is said otherwise.

| Theorem | Rests on |
|---|---|
| `HoldStartup`: `TypeCorrect` | |
| `RunsOnce`, `SettingsMatch`, `ImplementsHeldOp` | `OpsInv` |
| `ExitsClean` | `PathBound`; no daemon is killed |
| `SerialReachable`, `SerialCoalesces`, `SerialRemovesOnlyStale` | `SerialInv`; starters are not killed and do not give up, no daemon is started by hand, no live daemon misses its hello |
| `HoldDaemon`: `TypeCorrect`, `CountsExact`, `IdleDefers`, `ToldOnce` | `CountInv` |
| `HoldSftp`: `SftpTypeCorrect`, `NeverLeaks`, `LostIsDropped`, `ClientsDoNotHurt` | `SftpInv` |
| `HoldExec`: `TypeCorrect`, `PrintsAll`, `ReportsOrNeverRan` | `ExecInv` |
| `ReportsItsCode` | `ExecInv`; the connection is not lost between the exec request and its answer |
| `RemoteWrite`: `TypeCorrect`, `ReadersSeeWhole`, `FilesAreWhole`, `FilesRemain`, `LeavesNoLitter`, `ImplementsAtomic` | `WriteInv` |
| `Proxy`: `TypeCorrect`, `PortsComeFree` | `ProxyInv` |
| `FindsServing` | `ProxyInv`, `Held`, `Known` |
| `EnvIsHonest` | `ProxyInv`, `EnvKept` |
| `Socks`: `TypeCorrect`, `WholeResponse` | `PipeInv` |
| `Mirror`: `TypeCorrect`, `KeepsSeen` | `MirrorInv` |
| `SuccessSyncs` | `MirrorInv`, `SyncInv` |
| `Dial`, `UploadKey`: `TypeCorrect`, `LeavesNothing`, `TrustsPinned` | `DialInv` |
| `MergesKeep`, `WritesAtomically` | `KeysInv`, and `RemoteWrite`'s `WriteInv`; runs of upload-key at one host do not overlap (`Alone`); for `MergesKeep`, none has ended in the fallback's gap there |

Every invariant and every action property that a passing run checks is the conclusion of a theorem, and so are both refinements. The type invariants
are proved for every module, and for most only proved; `AtMostOneRun`, `AnsweredOnce`, `FilesWhole`, `FilesStay` and `SeenKept` are likewise proved only, or
follow from the refinements that runs check. Each inductive invariant was checked by TLC on the instance of its module's run before it was proved.

The constants' assumptions are what the proofs use of them, and no more: sets of processes that are counted are finite, the sentinels (`None`, `Nobody`, ...) are none of
the things they stand beside, sizes are natural numbers, and the socket holds at least one frame. `Mirror` assumes that the local clock's mtime (`Now`) is none of the remote
versions: a download whose stamp has not been set differs from the remote file in size or mtime, as in any listing where it has not the same mtime to the second.

**Operations.** That an operation runs once is not inductive: it needs to be known how far the request is.
`OpInv` ties the three together: until the request is written nobody but the client has run it; afterwards only the
daemon at the other end, and nobody while it is still on the wire; that daemon's settings are the client's, because the
client compared them before it sent, and a process never changes its settings. Each step of each process keeps this for every client.
`ImplementsHeldOp` maps each step to a step of `HeldOp` or a stutter by the same invariant.

**Serial startups.** `Reachable`, `StartupCoalesces` and `RemovesOnlyStale` follow from `SerialInv`: between its probe
and its child's readiness a client holds the lock (`LockInv`); a daemon starts only while its starter waits for it
(`StartInv`), so there is one at a time; the path names the bound daemon or a dead one (`PathInv`); what a daemon is about to remove is
dead (`StaleInv`); and a starter that starts a daemon has seen that none listens (`ProbeInv`). The premise `Serial` is what makes the lock
cover a whole startup: a starter that is killed or gives up, or a daemon started by hand, leaves a startup nobody
holds the lock for (first divergence below).

**Counts.** `CountInv` states the counters as cardinalities of the sets of connections at certain places. The lemma `Moved` says how such a
cardinality changes when one connection moves; each step of `serveConn` is an instance.
After the process has ended the counters mean nothing, which `Gone` captures.

**SFTP.** `SftpInv` says who may be between the two critical sections and that the client being opened is nobody else's. `Blamed` names, for each client that was
closed, an operation that had failed on it, and an operation that is told of a loss has not failed before, so that the one to blame is another.

**Exec.** `ExecInv` follows a chunk from the command to the client: it is in the SSH window, in the hands of its copy, a header in the socket or a frame in the inbox, and the
number of those and of what is printed is the number written (`Conserved`). Three things keep that balance true. Headers and payloads alternate in the socket whoever writes
them, and the last header waits for its payload exactly while `frameConn.mu` is held (`Framed`), so that the reader never takes a payload for a frame. A copy ends only when its
stream has ended and is empty (`CopiesEnd`). Nothing follows the exit frame, because `serveConn` writes it after both copies have ended (`ExitLast`, `Sessions`). At the exit
frame everything on its way is therefore zero, and what was printed is what was written. `Count` is a cardinality of places in a sequence; the lemmas
`CountAppend` and `CountRead` say what
the two ends of the socket do to it. A code that is not the command's needs the branch of `StartError` that `early_loss` opens (`start_lost` shows it), and then there was no command.

**Writes.** That a reader sees one content rests on where inodes are: an inode is only ever at the path it was made
for (`AtHome`), the run at work on a Steady file has its temporary file to itself (`Own`), and that file is nobody's
file and open in no reader (`Apart`), so what is renamed into place is complete and never written again (`Written`,
`Prefix`). `AtHome` holds for Rough files too, which is why whatever happens to them cannot touch a Steady one.

**Proxy.** `Dials` counts connections against the losses there were, so that a number always exists for the next dial. `Bound` says that a
request that waits for its answer has its listener; with it `ForwardsEnd` is inductive: a connection's end frees what is recorded, and
`AddForward` what is not. `FindsServing` needs both ends of a path: a proxy that serves over a connection which is up holds the listener of its port (`Held`), and a
file written over that connection has this port, whoever read it when (`Known`). `EnvKept` adds to `EnvHonest` that the writer of the file will still remove it, and `Broken` that a proxy which is attached loses its connection
by nothing but a break.

**Socks.** `Order` keeps deadlines and closes out of `pipe`; `Ends` says why a copy may have ended, and that, while the client keeps its sending side
open, neither ends before the response is there: the upward copy ends first only by the client or by a write to a target that
has closed, and then part of the request has not arrived.

**Mirror.** Every job, and every file in a worker's hands, was seen by the walk (`Downloads`), and nothing to be deleted was (`Deletions`);
between its `Open` and its `Stamp` a local file is there, because the delete pass waits for the pool. That success means equality needs two things
more. A stamp is honest or harmless (`Stamped`): a
local file that carries a remote version has its content, or the remote file has left that version, and versions do not come back; the same holds of
every download at work (`Pulled`), since
what is copied is what was opened unless the file changed meanwhile. And within a round that has seen no failure, every file that was seen is in the jobs, with a worker, or
stamped as it was seen (`Covered`), every other is to be deleted, missed or not there (`Swept`), and what was seen is still so (`Walked`).

**Dial.** `Connected` says which connections each stage of a dial has open, which is what its error path closes; `Checked` carries what the key check
of each hop has established to the end of
the run, through appends of others, which only add keys, and through changes of hosts' keys. `SlotsKept` counts the probes at work.

**Keys.** `UploadKeyProofs` takes what a write does from `RemoteWriteProofs`, instantiated with the hosts as paths: every step of `UploadKey` is a
step of its writes or leaves them alone
(`WritesAsFiles`), and hence they are atomic. `Turns` gives each host to one run at a time, which is `Alone`. `Contents` says whose keys the file has
when it is there, and `Kept` that neither the
file nor what a run has read to merge with misses a key that is due; the gap of the fallback is inside a run's turn, unless the run ends there, and
then its host is in `gapped` for good.

Only model-checked: the liveness properties (`AllFinish`, `StopStops`, `ShutdownEnds`, `IdleEnds`, `OpsEnd`, `ExecEnds`, `DaemonReleased`, `SignalArrives`, `StopEnds`, `Recovers`,
`HandlerEnds`, `RoundsEnd`, `Converges`, `CallsEnd`), because the prover has no rule for fairness and ENABLED.

## Divergences

Met while modelling. Two have a run that shows a trace, listed under "findings" in PROJECT.json:

- A held client that is killed between two stdin frames leaves a truncated file in place (`cut`).
- A connection lost before the answer to the exec request makes `sess.Start` return `io.EOF`, which `exitCodeOf` takes for success: the command never
  ran and 0 is reported (`start_lost`).

The hold:

- A starter that dies while its child starts lets the next child remove the first one's live socket (hold.go:160-195).
- `tn hold --stop && tn hold` may report the daemon that is about to stop (holdclient.go:48, hold.go:362-364, hold_unix.go:40-44).
- An operation that starts between the reads of `idleWatch` is cut off by the idle shutdown; between `active.Add(-1)` and
  `touch` one that has just ended is neither in flight nor recent (hold.go:293-305, 349).
- A daemon that dies after its hello and before the request is written makes the command fail, although nothing was sent (holdclient.go:73).
- An Accept error without a shutdown ends the accept loop for good (hold.go:275).
- A held client that is killed within a frame makes the daemon close the SFTP client of the others (hold.go:504, 207-209).
- A signal after the end of stdin is lost, because the bridge has stopped reading (hold.go:428, holdclient.go:69-71).
- A command that does not read its stdin leaves the bridge in `stdinW.Write` once the channel's window is full (hold.go:425), and a signal frame behind it is not read
  (hold.go:428) while the command runs. The client forwards signals "mirroring the direct path" (holdclient.go:69-71), which sends them beside stdin
  (exec.go:117-131). `SignalArrives` excepts this by `[]Stuck`, without which TLC shows it.
- A held client that is killed while its command's output fills the window leaves session and slot in use for as long as the command runs.

Remote files and keys:

- Two overlapping writes of one file share `path.tn-tmp`: a reader may see chunks of both, and the slower may remove the file the faster
  has written (files.go:243-261). In the model this happens to Rough files only.
- Two overlapping `upload-key` runs at one host lose keys, or, without `posix-rename`, the whole `authorized_keys`.
- One `upload-key` is enough for that on a server without `posix-rename`: when it is killed, loses its connection or has its second rename refused between
  files.go:261 and 262, the old `authorized_keys` is gone, and after a refusal so is the new one (263). A later run finds no file and writes only its own keys.
- `readPubKeys` uploads the first line of what `ssh.ParseAuthorizedKey` was given, so a `.pub` file that starts with a comment or an empty line yields
  that line, and a comment at its end is a parse error; uploadkey.go:120 says both are skipped (uploadkey.go:135-147).

Mirror: a change that keeps size and second is missed; with `--delete`, files that are local only because a filter excludes them are removed (mirror.go:282);
a path that changes between file and directory fails every round (193-208); so does a lost connection (95); a failed download leaves a truncated file;
Ctrl-C is seen between rounds only; a file to delete that cannot be listed or removed is passed over, at most with a line of output, and the round still reports success
(167-179, 289-292); so does one whose `os.Chtimes` failed, which is downloaded again (260).

Proxy: after a loss the server may still hold a fixed port, and its denial ends the proxy (proxy.go:53-56, 115); a proxy that stops removes the
`proxy.env` another has written (168); a lost connection or a kill leaves it behind, and so does a clean exit whose `newSFTP` or `Remove` fails, without a
word (163-170), though the help says it is removed (49-51); `exec --proxy` trusts such a stale file as soon as any other program or proxy listens on
its port (exec.go:156); between the probe and the sourcing the
file may change or go.

SOCKS: SSH channels refuse deadlines, so neither the handshake's nor pipe's works there (socks5.go:59, 165-168); the response to a client that closes its sending side
is cut; so is the response of a target that answers early and closes, when the client keeps sending: the upward write fails and its end sets the deadline that stops the
downward copy (160-161), or the reset overtakes the response. A read deadline does not free a copy that is blocked in a write, so that a target which stops reading holds the
handler; `HandlerEnds` assumes that targets read.

Dial: a handshake sees neither the context nor `Timeout` (client.go:39, 63-73, 106-112), so that `--timeout` does not bound a silent server; the mutex around
`known_hosts` is one per callback, so that parallel runs append a host twice (known.go:48-49); each hop of each `Dial` leaves a connection to the agent open
(auth.go:50); `doctor --parallel 0` waits for ever (doctor.go:48).

## Not modelled

- TCP and the SSH protocol: a dial succeeds or fails, a channel delivers in order. JSON, the bytes of frames and of SOCKS messages.
- push, pull and ls through a hold: one call each of `files.go` on the shared client, whose life is `HoldSftp`'s; their copying of files is the copy of `Mirror` and `RemoteWrite`
  without the temporary file.
- `bench`, `status`, `shell`, `init`, `config`: sequential commands that keep no state between calls, or replace one file by a rename.
- Command lines, output formatting, logging, terminal handling; Windows, where the hold reports that it is unsupported.
- The tests' SSH server, but for its sessions and forwards, which stand for the real server's in `HoldExec` and `Proxy`.

## Plan

Done: every part with concurrency, shared files or a protocol is modelled, and every safety property that a run checks is proved. Left:

1. A sharper premise for the serial theorems.
2. Theorems that say how far the divergences reach: what holds of overlapping writes and uploads, and of a held write that is cut short.
