# Backlot in TLA+

TLA+ models of Backlot: the session router and lot-boss, each by itself and
together, the continuity desk, the start and stop of a Firecracker world, the
way an audit event takes from the guest to the desk, the plan and the seccomp
filter of the inner jail, and the egress proxy. TLC checks them on small
instances; TLAPS proves every safety property the passing runs check, and the two
refinements, for every instance, some under a stated restriction.

`tlc -config Desk_faulty.cfg MCDesk` runs a model, `tlapm DeskProofs.tla` checks
the proofs of a module. `PROJECT.json` lists the runs, the source lines each
definition models, the hazards, and for every property a mutated definition
(`Name_Mutation`, next to `Name`) under which TLC finds the property violated.

## The system

An agent talks HTTP to the **router**, which keeps nothing but a sticky map from
session to world and calls **lot-boss**. lot-boss leases worlds: each is a
Firecracker VMM started through the jailer. Inside the guest **world-runtime**
runs commands through `inner/run.py` in a bubblewrap jail; `run.py` writes a
hash-chained audit file that world-runtime forwards over vsock, the host appends
to `events.jsonl`, and lot-boss commits to the **desk**, an append-only store.
Beside them runs an **egress proxy** with an allowlist.

| component | state | operations | what is hard | what makes it correct |
|---|---|---|---|---|
| desk (`desk/`) | `seq`, `tip` in memory; `global.jsonl`, one file per world | Commit, ListWorld, replay | two appends per commit; crash or failure between and within them; restart | sequence order survives, nothing acknowledged drops out of its chain, a cursor misses nothing |
| lot-boss (`lot/`) | map of slots, `nextCID`, `stopping`; per slot paused, lastActive, ttl | Lease, Heartbeat, SetNetwork, Exec, Destroy, pauseLoop, StopAll | the mutex is released while VMMs boot, run and die; Firecracker calls fail; shutdown at any time | cap, no leaked VMM, state agrees with Firecracker, shutdown ends |
| router (`router/`) | sticky map in two directions | handleLease, handleDelete, forwarding handlers | handlers interleave between calls; calls fail after acting; restarts | the map stays consistent, sessions stay apart, bindings last |
| world (`runtime/world`) | process, event port, bind over the jail's `/dev/kvm` | Start, Stop, Exec, Pause, Resume | deadlines of four processes race; cleanup on every error path | nothing is left, Firecracker has KVM, the emitter is connected |
| event path (`inner/`, `runtime/`, `lot/`) | audit file, connection, `events.jsonl`, offset | run.py's events, forwardAudit, drainEvents, forwardEvents | overlapping execs on one audit path, short writes, over-long lines, a desk that is down or late, destroy | no event twice or out of order, answered execs are visible |
| jail plan, seccomp (`inner/`) | none | load_policy, build_plan, compile_seccomp | order of mounts, jump offsets | the filter decides what the policy says, decoys stay on top |
| egress proxy (`proxy/`) | allowlist; per tunnel two sockets and two copies | ServeHTTP, hijackCONNECT | the host is judged in one part of a request and dialled from another; the copies close each other's sockets; data sent ahead of the answer | only allowed hosts, streams unaltered, tunnels end |

## Modules

| module | models | proofs | instances |
|---|---|---|---|
| `Desk` | `desk/store.go`, `event.go`, `server.go` | `DeskProofs` | `MCDesk` |
| `LotBoss` | `lot/boss.go`, `pause.go`, `cmd/lot-boss` | `LotBossProofs` | `MCLotBoss` |
| `Router` | `router/` | `RouterProofs` | `MCRouter` |
| `WorldStart` | `runtime/world`, `fc-waitkvm`, `connectEmitter` | `WorldStartProofs` | `MCWorldStart` |
| `EventPath` | `inner/audit.py`, `run.py`, `world-runtime`, `drainEvents`, `forwardEvents` | `EventPathProofs` | `MCEventPath` |
| `LossyFifo` | what the event path promises | | |
| `Fleet` | `Router` with `LotBoss` as its engine, and the forwarding handlers | `FleetProofs` | `MCFleet` |
| `Proxy` | `proxy/main.go` | `ProxyProofs` | `MCProxy` |
| `Jail` | `inner/policy.py`, `host.py`, `bwrap.py`, `seccomp.py`, `run.py` | `JailProofs` | `MCJail` |

What is one action follows the locks. `StickyMap` methods, everything lot-boss
does under one hold of its mutex, and a call of ListWorld are atomic; a handler
that lets go of a lock, waits for another process or may die in between is
several actions.

**Desk.** `Commit` is `CommitGlobal` and `CommitWorld` (or their failures), with
the event in `pending` between; the store's mutex keeps other calls out, a crash
does not. A file is a sequence of lines; a failed append leaves nothing, part of
a line, a line without its newline, or the whole line (`Faults`), and a write
after an unterminated line runs together with it (`WriteLine`). `FileOf` is
`sanitizeID`. A hash is the number of the commit attempt. `Poll` is an auditor
that passes the last sequence number it saw as the cursor; `seen` and `acked`
are history.

**LotBoss.** A Lease call generates its id, so `phase[w]` is at once the place of
the call and the life of the world. `vmm[w]` is the process and `paused[w]` what
lot-boss believes of it; an API call that fails was refused, or (`"lost"`) was
carried out and its answer lost. Time is relative: `idle[w]` counts since the
last activity. Destroy is three steps: the slot goes, the VMM is stopped
(`DestroyStop`), the desk is told (`DestroyTells`). `CommitDesk` is one attempt;
one that is given up after 10 s is in `late`, and `LateCommit` may land it at any
time, or never. `Exit` is the end of `main` once `StopAll` is done; handlers
still running end with it.

**Router.** `req[r].step` names the next call of a handler or the answer it waits
for. lot-boss is the worlds it boots (`booting`) and holds (`live`); it finishes
what it has begun, also when the router's client has given up (`LeaseGivesUp`,
`DestroyGivesUp`), because neither Lease nor Destroy looks at the request's
context. A deletion may name any id at any time: lot-boss lists its worlds, and
the desk has events of a world that is still booting. `early` notes the worlds
whose deletion reached lot-boss before they had a slot, so that lot-boss found
nothing, the deletion was answered with success and the world came to life.

**Fleet.** The actions of `Router` that do not touch the engine, and for the
others one action that is a step of the handler and a step of `LotBoss` at once:
Lease begins in lot-boss and the handler waits; when lot-boss has inserted or
refused the world, the handler that still waits is answered. `R` is `Router` with
`booting`, `live` and `issued` read off the phases of LotBoss: every step of Fleet
must be a step or a stutter of it, so what is proved of `Router` holds with
lot-boss behind it. Heartbeats, network calls and deletions are forwarded for
any id. `Restarts` lets lot-boss be told to stop and the router restart. Execs are left out for the size of the state space.

**WorldStart.** `step` is where Start or Stop is; `proc` follows the process from
the jailer through fc-waitkvm to Firecracker; `node` is the jail's `/dev/kvm`.
`waited`, `kvmWaited` and `emitWaited` count the waits in seconds and stop at
their limits. A health probe begun before the deadline may end up to `ProbeWait`
after it. Unmounting the bind may fail, which the code only logs (`stuck`).

**EventPath.** One world, from the return of world.Start to world_stop. Execs
overlap as they like, for nothing in world-runtime or lot-boss keeps them apart,
and a client timed out after 60 s may call again; `overlapped` is the history of
those that did. A file is named after the exec that created it, so the unlink of
the shared audit path and an open descriptor on the unlinked file are distinct.
A line is short, too long for the guest's scanner (`long`), too long only once
wrapped (`edge`), cut off by a short write (`torn`), or torn and written over
(`spoilt`). The forwarder runs before the lease is decided and may still run
after world_stop; `lease` is where Lease and Destroy are, and `desk` has
lot-boss's own events among the forwarded ones. A commit that is given up is in
`late` and may land later. `LossyFifo` is the promise: what the emitter sends
arrives at most once, in the order sent but for deliveries that were given up
and arrive late; its `Notice` stands for the events that lot-boss commits itself.

**Proxy.** One connection. A request names its host in the request line, or only
in the Host header, and the code reads it twice: `JudgedHost` is what `hostOf`
cuts out of the RequestURI or of r.Host, `RHost` what net/http has parsed, which
is dialled. A `Target` may have another part beside a host and a port, which
`hostOf` takes for the host, and an address in brackets, of which it keeps the
bracket.
Data is numbered chunks; `in` and `out` are the kernel's buffers of each
direction, `hold` what io.Copy has read and not written. The far ends send,
read, half-close and vanish freely; a socket closed with unread input is reset.

**Jail.** A path is a sequence of names, so that "under" is a prefix. `mounts` is
the bind part of the bwrap command line in its order, `prog` the instructions of
the filter with their jump offsets; `RunFilter` is the kernel's machine. A failure
anywhere ends in `"refused"`, as run.py then starts nothing.

## Runs that pass

| run | instance | shows |
|---|---|---|
| `Desk_faulty` | 3 worlds, two of them on one file, 4 commits, short and long lines, world-file faults, crashes anywhere | `global.jsonl` stays ordered; no acknowledged event drops out of its chain; a broken world file means an unacknowledged event; cursors miss nothing; no reader is given another world's event |
| `LotBoss_safety` | 3 worlds, cap 2, 1 exec, TTLs bad, 0 and 1, refused API calls | cap, no stray VMM, shutdown; slot state agrees with Firecracker; activity resumes; no TTL freezes a world in use |
| `LotBoss_live` | 2 worlds, cap 1, TTLs bad, 0 and 1, commits that are given up or land late | the desk is told the truth; leases answered, destroyed worlds die, shutdown ends, idle worlds paused |
| `Router_sticky` | 2 requests, 2 sessions, 2 worlds, deletions of any id, faults, restarts | isolation, deletion, neighbours |
| `EventPath_overlap` | 3 execs that may overlap, 2 events, nothing failing | an exec that ran alone has sent all its events as one chain, whatever overlapped before it; `EventPath` implements `LossyFifo` |
| `EventPath_faults` | 1 exec, 4 events, decoy opens, all sizes, short writes, failing appends, 2 commits given up, a destroy | no exec event before world_start or of a refused world; what reached the host is committed; `EventPath` implements `LossyFifo` |
| `WorldStart_deadlines` | the code's deadlines in seconds | clean stops, KVM, emitter; Start and Stop end |
| `Fleet_calls` | 3 requests, 1 session, 1 world, cap 1, timeouts, deletions of any id, a shutdown, router restarts, lost commits | `Fleet` implements `Router`; slots are lost to clients only by a call given up; no id is told before its world had a slot; an answered deletion is one |
| `Proxy_tunnel` | every request over 2 names and an address, one name allowed; 3 chunks each way, buffers of 2 | where a request names a host and a port, the host judged is the host dialled; streams arrive unaltered; tunnels end |
| `Jail_plan` | all lists of up to 3 of 5 call names, and policies over nested paths, links, a workspace on a secret and two nested decoys | the filter decides every call as the policy says; every decoy path shows a decoy |

The bounds. Two commits of one world and one of another are enough for a chain
to break or a number to be reused; the run has one more. World files take whole
and newline-less failed lines; a line cut shorter makes ListWorld refuse the
file, which the theorems cover. Three leases are the fewest that compete for two
slots with one of them refused; two requests of a session are the fewest that
race; a request slot is free again once answered, so later leases and deletions
of the same run follow. Two execs are the fewest that overlap, and a third runs
alone beside them: `AnsweredSent` is about it. With two events (`MaxEvents`) one
exec may leave something in the file that another opens, unlinks or forwards.
`EventPath_faults` has one exec, for which start, exec, decoy open and exit are
four events, and `MaxLate` of two lets world_start and one line be given up.
`MaxIdle` is the longest TTL of its run; Fleet has 0, so its worlds are not
paused, which `LotBoss_safety` covers. Fleet has one world, enough for a lease,
two deletions, a shutdown and a restart to meet; the race for the cap is that of
`LotBoss_safety`, a second world that of `Router_sticky`, and the theorems are
for any number of both. Three chunks through buffers of two fill a direction
with a chunk in hand. Three allowed names put a call before, at and after the
clone handler. WorldStart needs no bound: its counters stop at the deadlines.
The ids that share a file are interchangeable in `Desk_faulty`, worlds in
`LotBoss_safety`, execs in `EventPath_overlap`, requests in `Fleet_calls`; none
of these runs checks liveness, and no other run uses symmetry.

Deadlock is not checked where the system may stop: lot-boss exits, a desk that
refuses to start stays down, a destroyed world takes no execs, a stopped world
does nothing, a refused policy starts nothing, an answered connection is over.

Fairness. Goroutines that can run do (weak fairness per handler or loop); calls
end in a timeout (exec 90 s, Firecracker 3 s, health 45 s) or in a SIGKILL. The
pause loop and the forwarder have tickers. io.Copy goes on when it can. Clients,
signals, VMMs, the jailer, the guest and the far ends of a tunnel owe nothing,
nor does a commit that was given up. For `EventsReachDesk` a line committed once
is enough, whether the desk took it or the one try was given up.

## Runs that find a disagreement

`LotBoss_orphan` states what the design says, "O4 no orphan VMM after stop"
(`docs/grok-build-m3.md:236`), and TLC shows a behaviour of the code that
violates it. A lease is still in world.Start when StopAll takes its list, so
StopAll finds no slot of it (`lot/boss.go:465`); StopAll ends, Shutdown makes
ListenAndServe return at once, and main ends without waiting for the handler
(`lot/cmd/lot-boss/main.go:65`). The VMM it was booting runs on. A check of
`stopping` when Lease takes the mutex again would not help: in this behaviour it
never does.

`Proxy_authority` states what the proxy's comment says, "Default deny. Only hosts
in EGRESS_ALLOW (comma-separated) may CONNECT or be proxied."
(`proxy/main.go:4`). A CONNECT is judged by what `hostOf` cuts out of the whole
RequestURI (`:71`) and dialled by r.Host, which net/http has parsed (`:101`). For
a target with more than a host and a port the two may be different names, and an
address in brackets is judged by its bracket. For all other requests
`JudgedIsDialled` holds, and is proved.

`PROJECT.json` quotes the lines under "findings".

Limits of the code seen while modelling, which the models can show but no run
is kept for; the passing runs and the theorems state the restriction that
excludes each:

* the comment at `desk/store.go:144` speaks of keeping the tip consistent with
  global, but a failed append to a world file returns before the tip is set
  (`:146`): the next event of the world names the same predecessor as the one in
  `global.jsonl`. `Desk_faulty` has such failures, and `AckedOnChain` says what is
  left of the chain: a fork never leaves an acknowledged event out.
* a crash between the two appends (`desk/store.go:143`), or a failed one, leaves an
  event in `global.jsonl` only, and `VerifyChain` then rejects the world file from
  there on; the design has a "Per-world hash chain" (`docs/grok-build-m3.md:129`).
  `BreaksAreUnacked` says that a file breaks only where such an event is missing.
* a failed Sync gives back a sequence number already on disk (`desk/store.go:140`);
  a torn line of `global.jsonl` swallows the next, acknowledged one (`:158`). Both
  excluded by `GlobalFaults`. Commit accepts a line longer than replay reads
  (`:73`), and the desk does not start again: the run has such lines, the theorems
  about sequence order and cursors exclude them by `Sizes`.
* booting leases are not counted, so VMMs may exceed the cap for a while though
  slots do not (`lot/boss.go:254`); a Pause whose answer is lost is not undone
  (`lot/pause.go:24`), excluded by `APIFaults`; a command longer than `ttl_pause`
  is frozen (`lot/boss.go:415`).
* any error of Get unbinds a session (`router/server.go:75`), and of two
  concurrent leases of one session the second Bind replaces the first
  (`:93`) though its world lives; the design says "`X-Session-Id` maps to one
  `world_id` until destroy or prune" (`docs/grok-build-m3.md:148`).
  `NeighboursKeepBinding` allows both as the session's own requests.
* a lease the router gave up on after 60 s (`router/engine.go:131`) leaves a world
  nobody knows, which holds a slot under the cap until lot-boss stops: the
  `abandoned` of `SlotsAccountedFor`. A delete that names a world still booting is
  answered with success and the world comes to life (`router/server.go:192`, the
  `early` of `DeletedIsGone`). A second delete is answered with success
  while the first is still stopping the VMM (`phase "removed"` in `DeletedIsGone`).
* Destroy cancels the forwarder before its last read (`lot/boss.go:455`), so
  events of an answered exec may stay in `events.jsonl`, against "decoy/start/exit
  visible off-world" (`docs/grok-build-m3.md:237`); `EventsReachDesk` excludes
  worlds being destroyed. The guest's `runtime_up` may be on the desk before
  `world_start`, or for a world that was refused (`:296`); execs' events may not. A
  world_start whose commit was given up may land behind anything.
* a bind over the jail's `/dev/kvm` whose unmount fails stays
  (`runtime/world/world.go:448`); `StoppedClean` excepts it.
* a client that half-closes its side of a tunnel has the other side closed too,
  and the rest of the response is cut (`proxy/main.go:123`); a copy stuck writing
  to a side that does not read is never ended. `StreamsIntact` promises the whole
  stream only to the direction that ends first, and `TunnelEnds` excepts a full
  buffer.
* `DecoyOnTop` is about the paths of the decoys; what else a policy's binds show
  is the policy's. `build_plan` binds the command last, on `/.backlot-bin/<name>`
  (`inner/bwrap.py:193`), and nothing keeps a policy from naming a secret and a
  decoy there, or below it: the command would lie over the decoy. The theorem
  supposes that no policy does (`DecoysClearOfCommand`); none of the run's does.
* execs of one world that overlap share and unlink one audit file
  (`runtime/cmd/world-runtime/main.go:193`, `inner/audit.py:47`): their events may
  be lost, sent twice under new numbers, or chained to each other's. The code
  promises them nothing; `AnsweredSent` is about the execs beside them.

## What is proved

TLAPS checks these for every value of the constants (any worlds, sessions,
requests, caps, deadlines), from the named ASSUMEs of the modules. The inductive
invariants, and a few consequences of them (`AppendOnly`, `WorldFilesInGlobal`,
`DistinctCIDs`, `StickyInverse`), are proved and not repeated in a run; each
invariant was checked by TLC on the instances of the runs before it was proved.
A theorem that needs less than the code's full range of faults says so in its
ASSUME, and the list above says which behaviour of the code the ASSUME excludes.

* **Desk.** `TypeCorrect` and `AppendOnlyHolds` with every fault. `DeskSafe` and
  its consequences (`GlobalSeqStrict`, `LinksLeadBack`, `WorldFilesInGlobal`,
  `AuditorMissesNothing`) suppose that a failed append to `global.jsonl` leaves
  nothing and lines fit the scanner; without that they are false (a reused
  sequence number, a line replay refuses). Sequence order alone is not inductive:
  replay must find a counter at least as large as every line (`GlobalWhole`,
  `SeqCoversGlobal`), and no cursor may be ahead of the event between its two
  appends (`PendingIsLast`, `CursorInGlobal`). `TipInGlobal` is what makes each
  new link lead into the log, stale tip or not.
  `AuditorSeesOwnWorld` needs no restriction: `IdentityInv` says that a hash names
  one event, in whichever file its line is, and that a reader is given its own.
  `AckedOnChain` takes any line, any world-file fault and appends to `global.jsonl`
  that fail with all of the line or nothing: the tip covers every acknowledged
  event of its world, and so does each link (`ChainInv`).
  `BreaksAreUnacked` has the restriction of `DeskSafe`; `FileInv` ties each line
  of a world file to the one before it or to an unacknowledged event of the log
  between them, and says that acknowledged events are in the file.
* **LotBoss.** `LotBossSafe`, then `CapHeld`, `NoStrayVMM`, `DistinctCIDs`,
  `DeskToldTruth`, `NoPauseInUse`, `StopAllClears`; `StateAgreesWithVMM` and
  `ActivityResumes` when no answer is lost. The invariant ties the VMM, the CID
  and the desk log to the phase of the calls (`VMMByPhase`, `CIDsByLease`,
  `DeskByPhase`, with what was given up), and keeps every slot StopAll found on
  its list until it is gone (`StopAllProgress`).
* **Router.** `RouterSafe`, then `StickyInverse`, `SessionIsolation` and the
  action properties `DeletedStaysUnbound` and `NeighboursKeepBinding`. The
  strengthening is `FreshUntilBound`: a world from the moment its id is taken until
  it is bound is bound to no session and told to nobody; a deletion may ask for it,
  and is then in `early`. `IdsIssued` keeps ids from coming back. By
  `FleetRefinesRouter` they are properties of the router with lot-boss behind it.
* **WorldStart.** `WorldStartSafe`, then `StoppedClean`, `FirecrackerHasKVM`,
  `EmitterConnected`, for all deadlines with HealthWait + ProbeWait <=
  EmitterWait (45 + 2 <= 60 in the code). `EmitterBehindHealth` carries the last:
  while the host waits, the guest has not tried for longer than the host.
* **Fleet.** `FleetRefinesLotBoss` (each step is one of LotBoss or leaves it alone)
  and `FleetRefinesRouter` (each step is one of Router under the mapping `R`, or a
  stutter). The first brings `LotBossInv` into Fleet, the second `RouterInv`;
  `PartsStaySafe`, `DeletedStaysUnboundHolds`, `BindingsKept` and
  `RoutedActivityResumes` (the action properties of the two) state the gain. Of its
  own Fleet needs `OneDestroyer` (no two handlers are inside Destroy for one world)
  and `LeasesTracked` (already while a world boots, a handler waits for it or the
  router gave up on it): together with the invariants of the parts they are
  `FleetInv`, and `SlotsAccountedFor`, `AnsweredHadSlot` and `DeletedIsGone` follow.
* **EventPath.** All for any number of execs, overlapping or not. `PathSafe` is
  the invariant of the way: `QuietBeforeSlot` says that no exec has begun before
  the slot is there, which gives `StartBeforeExec`; `InOrder` says that wire,
  `events.jsonl` and what is still to be committed carry rising numbers, newer than
  all that was committed or given up, and with `OneLineEach` gives that `EventPath`
  implements `LossyFifo`. `AloneSafe` is about the execs that overlap no other:
  nobody else has their file open or writes to it (`Own`), their lines are one
  chain (`Chained`), and what forwardAudit has passed is under way (`Passed`);
  `AnsweredSent` follows.
* **Proxy.** `ProxySafe`, then `JudgedIsDialled` and `StreamsIntact` for any
  names, addresses, list, number of chunks and buffer size. `JudgedFirst` says that
  nothing is dialled before it is judged. For the streams, what has arrived, is
  held by a copy, lies in a buffer or is yet to be sent follow one another without
  a gap (`InOrder`, `Balance`), and the direction that ended first has nothing
  under way (`FirstIsDone`).
* **Jail.** `FilterMatchesPolicy` for any policy and any number of allowed names.
  `ProgramShape` says what `compile_seccomp` puts at which position, `FilterInv`
  what the machine knows at each: in the tests, that the call is none of the names
  tested so far. That the program has the names of the policy rests on
  `SubsequenceElems`, an induction over a sequence; it is done with the least
  number for which the claim fails (`LeastNumber`), since induction theorems with
  an operator as parameter are of no use to the provers. For the same reason the
  filters of the code are `Subsequence`, a recursive function, and not SelectSeq.
  `DecoyOnTop` for any binds, under `DecoysClearOfCommand`: the mounts are `Before`,
  the decoys and at most the command (`Layers`), so the last mount over a decoy's
  place (`GreatestNumber`) is a decoy.

Only model-checked: the eight liveness properties (`LeaseAnswered`,
`DestroyedWorldDies`, `ShutdownCompletes`, `IdleWorldPaused`,
`EventsReachDesk`, `StartReturns`, `StopEnds`, `TunnelEnds`), for fairness and
ENABLED are beyond the prover.

## Assumptions about what is outside the repository

The jailer, Firecracker, the kernel and HTTP are modelled from how the code uses
them: they may be late, refuse, die or lose an answer. World ids do not repeat
(32 random bits), SHA-256 does not collide, and one writer owns each file of the
desk.

## Not modelled

* The test harnesses (`m2test`, `m3test`), guest image, compose files and scripts:
  not part of the running system, or pure I/O.
* The shepherd calls Start, waits for a signal and calls Stop, which `WorldStart`
  covers. A signal before Start returns ends it without a Stop.
* The YAML parser, the hashes and the decoys' contents of `inner/`: pure functions
  on text. The CONNECT handshake of `vsockhost`: one request and one answer on a
  fresh connection. inotify parsing, output capture of execs, the router's event
  listing and the 501 endpoints for snapshots: they keep no state.

## Plan

Left to prove: an abstract log that `Desk` implements
through crashes and replays; what is left of the audit chains of execs that
overlap; the lost answers of LotBoss (what a slot may then believe).
