----------------------------- MODULE EventPath ------------------------------
(***************************************************************************)
(* The way of an audit event of one world: run.py writes it to the exec's  *)
(* audit file in the guest (inner/audit.py, inner/run.py); when the        *)
(* command has ended, world-runtime forwards the file over vsock           *)
(* (runtime/cmd/world-runtime/main.go); the host appends the line to       *)
(* events.jsonl (drainEvents in runtime/world/world.go); and a goroutine   *)
(* of lot-boss commits the file's new lines to the desk every 200 ms       *)
(* (forwardEvents in lot/boss.go).                                         *)
(*                                                                         *)
(* All execs of a world use one audit path, which handleExec unlinks when  *)
(* an exec begins; a run.py that has the file open goes on writing to the  *)
(* unlinked file.  A file is named here after the exec that created it.    *)
(*                                                                         *)
(* The emitter is connected, and has sent runtime_up, before the guest     *)
(* answers its health check, so no exec finds it unconnected.  The module  *)
(* begins when world.Start has returned to Lease, which starts the         *)
(* forwarder before it knows whether the world gets a slot; it ends with   *)
(* the world_stop of Destroy.  An exec event's hash is its number in the   *)
(* order of emission; nr numbers what the emitter sends.                   *)
(***************************************************************************)
EXTENDS Naturals, FiniteSets, Sequences

CONSTANTS
  Execs,          \* exec requests to the world
  Sizes,          \* of start events, see Line
  ShortWrites,    \* TRUE: os.write may write a part of a line only
  Decoys,         \* TRUE: a command may open a decoy
  HostFaults,     \* TRUE: an append to events.jsonl may fail
  Destroys,       \* TRUE: the world may be destroyed
  MaxEvents,      \* bound on the events emitted
  MaxLate,        \* bound on the commits that fail
  NoFile          \* nothing at the audit path, no exec

ASSUME EventPathAssumption ==
  /\ IsFiniteSet(Execs)
  /\ Sizes \subseteq {"short", "edge", "long"}
  /\ ShortWrites \in BOOLEAN
  /\ Decoys \in BOOLEAN
  /\ HostFaults \in BOOLEAN
  /\ Destroys \in BOOLEAN
  /\ MaxEvents \in Nat /\ MaxLate \in Nat
  /\ NoFile \notin Execs

(***************************************************************************)
(* A line is "long" when the guest's 1 MiB scanner refuses it, and "edge"  *)
(* when only the host's does: forwarding wraps the line in another object. *)
(* A line cut short is "torn", and "spoilt" once more is written after it, *)
(* on the same line of the file: no longer JSON.                           *)
(***************************************************************************)
Kinds == {"start", "exec", "decoy_open", "exit"}
Line == [exec : Execs \cup {NoFile}, kind : Kinds \cup {"runtime_up", "world_start", "world_stop"},
         size : {"short", "edge", "long", "torn", "spoilt"}, prev : Nat, hash : Nat, nr : Nat]
GENESIS == 0

(* What the guest's emitter and lot-boss say of the world itself. *)
WorldEvent(kind) ==
  [exec |-> NoFile, kind |-> kind, size |-> "short", prev |-> GENESIS, hash |-> GENESIS,
   nr |-> IF kind = "runtime_up" THEN 1 ELSE 0]

VARIABLES
  step,     \* where each exec is, in world-runtime or run.py
  path,     \* the file the audit path names
  audit,    \* the lines of each audit file
  fd,       \* the file each run.py has open, or each forwardAudit reads
  prev,     \* AuditLog.prev of each run.py
  pos,      \* how far each forwardAudit has got
  emitted,  \* how many events have been emitted
  overlapped,  \* the execs that ran while another did
  conn,     \* "up" until the host gives up on the guest's connection
  sent,     \* how many lines the emitter has written
  wire,     \* lines written to vsock and not yet read by the host
  host,     \* events.jsonl
  offset,   \* how much of it the forwarder has committed
  target,   \* how much of it the forwarder's current read has
  lease,    \* "started", "slot", "refused", "removed" (by Destroy), "gone"
  fwd,      \* the forwarder: "running", "cancelled", "ended"
  vm,       \* "up" or "dead"
  desk,     \* the events of the world the desk has
  late      \* commits lot-boss gave up, which may have landed since

auditVars == <<path, audit, fd, prev, pos, emitted>>
hostVars == <<conn, sent, wire, host>>
deskVars == <<desk, late>>
bossVars == <<offset, target, lease, fwd, vm, deskVars>>
vars == <<step, overlapped, auditVars, hostVars, bossVars>>

Busy == {e \in Execs : step[e] \notin {"idle", "answered", "dead"}}
Goto(e, s) == step' = [step EXCEPT ![e] = s]
-----------------------------------------------------------------------------
Init ==
  /\ step = [e \in Execs |-> "idle"]
  /\ path = NoFile
  /\ audit = [e \in Execs |-> <<>>]
  /\ fd = [e \in Execs |-> NoFile]
  /\ prev = [e \in Execs |-> GENESIS]
  /\ pos = [e \in Execs |-> 0]
  /\ emitted = 0
  /\ overlapped = {}
  /\ conn = "up"
  /\ sent = 1
  /\ wire = <<WorldEvent("runtime_up")>>
  /\ host = <<>>
  /\ offset = 0
  /\ target = 0
  /\ lease = "started"
  /\ fwd = "running"
  /\ vm = "up"
  /\ desk = <<>>
  /\ late = {}

(***************************************************************************)
(* commitDeskRaw, and commitDesk: one try.  A commit that is given up      *)
(* after 10 s may still land, at any time, or never.                       *)
(***************************************************************************)
Commit(l) ==
  \/ desk' = Append(desk, l) /\ UNCHANGED late
  \/ Cardinality(late) < MaxLate /\ late' = late \cup {l} /\ UNCHANGED desk

LateCommit ==
  /\ \E l \in late : (\A i \in DOMAIN desk : desk[i] # l) /\ desk' = Append(desk, l)
  /\ UNCHANGED <<step, overlapped, auditVars, hostVars, offset, target, lease, fwd, vm, late>>

(***************************************************************************)
(* Lease takes the mutex again: the slot goes in and the desk is told, or  *)
(* the world is refused and its forwarder cancelled.                       *)
(***************************************************************************)
CommitDesk(kind) == Commit(WorldEvent(kind))

LeaseInsert_TellsLater ==
  /\ \/ lease = "started" /\ lease' = "slot" /\ UNCHANGED deskVars
     \/ lease = "slot" /\ UNCHANGED lease /\ CommitDesk("world_start")
           /\ \A i \in DOMAIN desk : desk[i].kind # "world_start"
  /\ UNCHANGED <<step, overlapped, auditVars, hostVars, offset, target, fwd, vm>>

LeaseInsert ==
  /\ lease = "started"
  /\ lease' = "slot"
  /\ CommitDesk("world_start")
  /\ UNCHANGED <<step, overlapped, auditVars, hostVars, offset, target, fwd, vm>>

LeaseRefused ==
  /\ lease = "started"
  /\ lease' = "refused"
  /\ fwd' = "cancelled"
  /\ UNCHANGED <<step, overlapped, auditVars, hostVars, offset, target, vm, deskVars>>

(* handleExec, called by lot-boss once it has the slot: unlink the audit path, start run.py. *)
Overlaps(e) == overlapped' = IF Busy = {} THEN overlapped ELSE overlapped \cup Busy \cup {e}

HandleExec_KeepsLog(e) ==
  /\ vm = "up" /\ lease \in {"slot", "removed"}
  /\ step[e] = "idle"
  /\ Overlaps(e)
  /\ Goto(e, "launched")
  /\ UNCHANGED <<auditVars, hostVars, bossVars>>

HandleExec(e) ==
  /\ vm = "up" /\ lease \in {"slot", "removed"}
  /\ step[e] = "idle"
  /\ path' = NoFile
  /\ Overlaps(e)
  /\ Goto(e, "launched")
  /\ UNCHANGED <<audit, fd, prev, pos, emitted, hostVars, bossVars>>

(* AuditLog: take the last hash of the file, then open it.  A last line that *)
(* is no JSON is an exception, see RunEndsEarly.                             *)
TailHash(e) ==
  /\ step[e] = "launched"
  /\ LET f == IF path = NoFile THEN <<>> ELSE audit[path]
     IN /\ f # <<>> => f[Len(f)].size # "spoilt"
        /\ prev' = [prev EXCEPT ![e] = IF f = <<>> THEN GENESIS ELSE f[Len(f)].hash]
  /\ Goto(e, "open")
  /\ UNCHANGED <<overlapped, path, audit, fd, pos, emitted, hostVars, bossVars>>

OpenLog(e) ==
  /\ step[e] = "open"
  /\ path' = IF path = NoFile THEN e ELSE path
  /\ fd' = [fd EXCEPT ![e] = path']
  /\ Goto(e, "start")
  /\ UNCHANGED <<overlapped, audit, prev, pos, emitted, hostVars, bossVars>>

(***************************************************************************)
(* emit: run.py logs start, exec, the decoy opens (here one at most, which *)
(* bounds the file), and exit.  The file is opened with O_APPEND and what  *)
(* os.write returns is not looked at.                                      *)
(***************************************************************************)
Written(f, l) ==
  IF f # <<>> /\ f[Len(f)].size = "torn"
  THEN [f EXCEPT ![Len(f)].size = IF l.size = "torn" THEN "torn" ELSE "spoilt"]
  ELSE Append(f, l)

Emit(e, kind, size, next) ==
  /\ step[e] = kind /\ emitted < MaxEvents
  /\ audit' = [audit EXCEPT ![fd[e]] = Written(@,
       [exec |-> e, kind |-> kind, size |-> size, prev |-> prev[e], hash |-> emitted + 1, nr |-> 0])]
  /\ emitted' = emitted + 1
  /\ prev' = [prev EXCEPT ![e] = emitted + 1]
  /\ Goto(e, next)
  /\ UNCHANGED <<overlapped, path, fd, pos, hostVars, bossVars>>

Cut == IF ShortWrites THEN {"torn"} ELSE {}

RunLogs(e) ==
  \/ \E size \in Sizes \cup Cut : Emit(e, "start", size, "exec")
  \/ \E size \in {"short"} \cup Cut :
       \/ Emit(e, "exec", size, "exit")
       \/ Decoys /\ Emit(e, "exec", size, "decoy_open")
       \/ Emit(e, "decoy_open", size, "exit")
       \/ Emit(e, "exit", size, "forward")

(***************************************************************************)
(* run.py ends before its exit event: a bad policy, no bwrap, an exception *)
(* or the kill at the exec's timeout.                                      *)
(***************************************************************************)
RunEndsEarly(e) ==
  /\ step[e] \in {"launched", "open", "start", "exec", "decoy_open", "exit"}
  /\ Goto(e, "forward")
  /\ UNCHANGED <<overlapped, auditVars, hostVars, bossVars>>

(***************************************************************************)
(* forwardAudit: open the path, send its lines until the end of the file   *)
(* or a line beyond the scanner's buffer; then the exec is answered.  What *)
(* is no JSON is skipped; a torn line, the last of its file, may be JSON   *)
(* without a newline, and may still be too long.                           *)
(***************************************************************************)
ForwardOpen(e) ==
  /\ step[e] = "forward"
  /\ IF path = NoFile
     THEN Goto(e, "answered") /\ UNCHANGED fd
     ELSE Goto(e, "send") /\ fd' = [fd EXCEPT ![e] = path]
  /\ UNCHANGED <<overlapped, path, audit, prev, pos, emitted, hostVars, bossVars>>

Send(l) ==
  /\ sent' = sent + 1
  /\ wire' = IF conn = "up" THEN Append(wire, [l EXCEPT !.nr = sent + 1]) ELSE wire

ForwardLine(e) ==
  /\ step[e] = "send"
  /\ pos[e] < Len(audit[fd[e]])
  /\ LET l == audit[fd[e]][pos[e] + 1]
     IN \/ l.size \in {"short", "edge", "torn"} /\ Send(l)
        \/ l.size \in {"torn", "spoilt"} /\ UNCHANGED <<sent, wire>>
  /\ pos' = [pos EXCEPT ![e] = @ + 1]
  /\ UNCHANGED <<step, overlapped, path, audit, fd, prev, emitted, conn, host, bossVars>>

ForwardEnds(e) ==
  /\ step[e] = "send"
  /\ \/ pos[e] = Len(audit[fd[e]])
     \/ /\ pos[e] < Len(audit[fd[e]])
        /\ audit[fd[e]][pos[e] + 1].size \in {"long", "torn", "spoilt"}
  /\ Goto(e, "answered")
  /\ UNCHANGED <<overlapped, auditVars, hostVars, bossVars>>

(***************************************************************************)
(* drainEvents: a line from the connection to events.jsonl.  A line beyond *)
(* the buffer, or a failed write, ends the goroutine and the connection,   *)
(* which nobody opens again.                                               *)
(***************************************************************************)
DrainEvents ==
  /\ conn = "up" /\ wire # <<>>
  /\ \/ /\ Head(wire).size # "edge"
        /\ host' = Append(host, Head(wire))
        /\ wire' = Tail(wire)
        /\ UNCHANGED conn
     \/ /\ Head(wire).size = "edge" \/ HostFaults
        /\ conn' = "broken"
        /\ wire' = <<>>
        /\ UNCHANGED host
  /\ UNCHANGED <<step, overlapped, auditVars, sent, bossVars>>

(***************************************************************************)
(* forwardEvents and drainEventsFile: read what is new, commit it line by  *)
(* line, each line once whether the desk took it or not.                   *)
(***************************************************************************)
DrainFile_Rereads ==
  /\ fwd # "ended" /\ offset = target
  /\ target' = Len(host) /\ offset' = 0
  /\ UNCHANGED <<step, overlapped, auditVars, hostVars, lease, fwd, vm, deskVars>>

DrainFile ==
  /\ fwd # "ended" /\ offset = target
  /\ target' = Len(host)
  /\ UNCHANGED <<step, overlapped, auditVars, hostVars, offset, lease, fwd, vm, deskVars>>

CommitLine_SkipsRest ==
  /\ offset < target
  /\ Commit(host[offset + 1])
  /\ offset' = target
  /\ UNCHANGED <<step, overlapped, auditVars, hostVars, target, lease, fwd, vm>>

CommitLine ==
  /\ offset < target
  /\ Commit(host[offset + 1])
  /\ offset' = offset + 1
  /\ UNCHANGED <<step, overlapped, auditVars, hostVars, target, lease, fwd, vm>>

(***************************************************************************)
(* Destroy: the slot goes, the forwarder is cancelled, which ends it       *)
(* between two reads; then the VMM dies, with what it had not yet handed   *)
(* to the host, and the desk is told, perhaps before the forwarder is done.*)
(***************************************************************************)
DestroyCancel ==
  /\ Destroys /\ lease = "slot"
  /\ lease' = "removed"
  /\ fwd' = "cancelled"
  /\ UNCHANGED <<step, overlapped, auditVars, hostVars, offset, target, vm, deskVars>>

ForwarderEnds ==
  /\ fwd = "cancelled" /\ offset = target
  /\ fwd' = "ended"
  /\ UNCHANGED <<step, overlapped, auditVars, hostVars, offset, target, lease, vm, deskVars>>

DestroyStop ==
  /\ lease \in {"refused", "removed"} /\ vm = "up"
  /\ vm' = "dead"
  /\ step' = [e \in Execs |-> IF e \in Busy THEN "dead" ELSE step[e]]
  /\ \E n \in 0 .. Len(wire) : wire' = SubSeq(wire, 1, n)
  /\ UNCHANGED <<overlapped, auditVars, conn, sent, host, offset, target, lease, fwd, deskVars>>

DestroyTells ==
  /\ lease = "removed" /\ vm = "dead"
  /\ lease' = "gone"
  /\ CommitDesk("world_stop")
  /\ UNCHANGED <<step, overlapped, auditVars, hostVars, offset, target, fwd, vm>>

ExecStep(e) ==
  \/ TailHash(e) \/ OpenLog(e) \/ RunLogs(e) \/ RunEndsEarly(e)
  \/ ForwardOpen(e) \/ ForwardLine(e) \/ ForwardEnds(e)

Next ==
  \/ \E e \in Execs : HandleExec(e) \/ ExecStep(e)
  \/ DrainEvents
  \/ DrainFile \/ CommitLine \/ LateCommit
  \/ LeaseInsert \/ LeaseRefused
  \/ DestroyCancel \/ ForwarderEnds \/ DestroyStop \/ DestroyTells

Spec == Init /\ [][Next]_vars

(***************************************************************************)
(* run.py ends by itself or by its timeout; goroutines that can run do,    *)
(* and the forwarder has a ticker.  Nobody has to send or destroy, and no  *)
(* commit has to land late.                                                *)
(***************************************************************************)
FairSpec ==
  /\ Spec
  /\ \A e \in Execs : WF_vars(ExecStep(e))
  /\ WF_vars(DrainEvents) /\ WF_vars(DrainFile) /\ WF_vars(CommitLine)
  /\ WF_vars(ForwarderEnds) /\ WF_vars(DestroyStop) /\ WF_vars(DestroyTells)
-----------------------------------------------------------------------------
ExecSteps == {"idle", "launched", "open", "start", "exec", "decoy_open", "exit",
              "forward", "send", "answered", "dead"}

(* The types of the files, the channel and the two ends. *)
TypeOK ==
  /\ step \in [Execs -> ExecSteps]
  /\ path \in Execs \cup {NoFile}
  /\ audit \in [Execs -> Seq(Line)]
  /\ fd \in [Execs -> Execs \cup {NoFile}]
  /\ prev \in [Execs -> Nat]
  /\ pos \in [Execs -> Nat]
  /\ emitted \in Nat
  /\ overlapped \subseteq Execs
  /\ conn \in {"up", "broken"}
  /\ sent \in Nat
  /\ wire \in Seq(Line)
  /\ host \in Seq(Line)
  /\ offset \in Nat /\ target \in Nat
  /\ offset <= target /\ target <= Len(host)
  /\ lease \in {"started", "slot", "refused", "removed", "gone"}
  /\ fwd \in {"running", "cancelled", "ended"}
  /\ vm \in {"up", "dead"}
  /\ desk \in Seq(Line)
  /\ late \subseteq Line

Lines(f) == {f[i] : i \in DOMAIN f}
Hashes(ls) == {l.hash : l \in ls}
EventsOf(e) == {l \in UNION {Lines(audit[d]) : d \in Execs} : l.exec = e}

(* The exec had the audit path to itself, and wrote nothing that the        *)
(* guest's scanner or its parser refuses.                                   *)
Forwardable(e) ==
  e \notin overlapped /\ \A l \in EventsOf(e) : l.size \in {"short", "edge"}

(* respondExec forwards the audit file before it answers, and handleExec    *)
(* unlinks it before the next exec: whatever overlapping execs did before,  *)
(* an exec that overlapped none has, when it is answered, all its events on *)
(* the way to the host, as one chain of its own events that begins with its *)
(* start, unless the host gave up the connection.                           *)
AnsweredSent ==
  \A e \in Execs : step[e] = "answered" /\ Forwardable(e) /\ conn = "up" /\ vm = "up" =>
    /\ Hashes(EventsOf(e)) \subseteq Hashes(Lines(wire)) \cup Hashes(Lines(host))
    /\ \A l \in EventsOf(e) : IF l.kind = "start" THEN l.prev = GENESIS ELSE l.prev \in Hashes(EventsOf(e))

(* An exec that overlapped none and was answered has all its events         *)
(* committed in the end, each on the desk or given up after its one try,    *)
(* unless the connection breaks or the world is destroyed meanwhile.        *)
EventsReachDesk ==
  \A e \in Execs : step[e] = "answered" /\ Forwardable(e) ~>
    \/ Hashes(EventsOf(e)) \subseteq Hashes(Lines(desk)) \cup Hashes(late)
    \/ conn = "broken" \/ fwd # "running"

(* The forwarder commits from before the lease is accepted, and after       *)
(* world_stop; still no exec event is on the desk before the world_start of *)
(* its world, unless that commit was given up and landed late, nor ever for *)
(* a world that was refused its slot.                                       *)
StartBeforeExec ==
  /\ lease \in {"started", "refused"} => \A i \in DOMAIN desk : desk[i].kind \notin Kinds
  /\ \A i, j \in DOMAIN desk :
       desk[i].kind \in Kinds /\ desk[j].kind = "world_start" => j < i \/ desk[j] \in late

(* From the emitter to the desk the path implements a lossy FIFO, whatever  *)
(* overlaps and whatever fails: the desk gets each line the emitter sent at *)
(* most once, and in the order sent but for commits that were given up and  *)
(* landed late.  What lot-boss says of the world are the FIFO's notices.    *)
Fifo == INSTANCE LossyFifo WITH
  got <- [i \in DOMAIN desk |-> desk[i].nr],
  late <- {l.nr : l \in late} \ {0}

DeskGetsFifo == Fifo!Spec
=============================================================================
