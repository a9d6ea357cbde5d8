----------------------------- MODULE WorldStart -----------------------------
(***************************************************************************)
(* Starting and stopping one Firecracker world (runtime/world/world.go),   *)
(* with the processes it must stay in step with: the jailer, which makes a *)
(* /dev/kvm of its own in the jail and execs fc-waitkvm; fc-waitkvm        *)
(* (runtime/cmd/fc-waitkvm), which waits for the host to bind its /dev/kvm *)
(* over that node and execs Firecracker; and the guest, where              *)
(* world-runtime connects its event emitter before it serves the health    *)
(* check.                                                                  *)
(*                                                                         *)
(* Four loops with deadlines of their own wait for each other.  Time is in *)
(* ticks; a loop tries until its deadline.  The jailer, Firecracker and    *)
(* the kernel are external: they may do their part late or die.            *)
(***************************************************************************)
EXTENDS Naturals

CONSTANTS
  Engines,      \* "jailer" when lot-boss is root, "firecracker" when not
  OverlayWait,  \* overlayHostKvm waits for the node: 3 s
  KVMWait,      \* fc-waitkvm waits for the bind: 10 s
  HealthWait,   \* waitHealth starts probes of the guest: 45 s
  ProbeWait,    \* one probe may take: 2 s
  EmitterWait,  \* connectEmitter tries: 60 s
  TermWait      \* Stop waits between SIGTERM and SIGKILL: 3 s

ASSUME WorldStartAssumption ==
  /\ Engines \subseteq {"jailer", "firecracker"}
  /\ OverlayWait \in Nat /\ KVMWait \in Nat /\ HealthWait \in Nat
  /\ ProbeWait \in Nat /\ EmitterWait \in Nat /\ TermWait \in Nat
  /\ HealthWait + ProbeWait <= EmitterWait

VARIABLES
  step,      \* where Start or Stop is
  returned,  \* has Start returned the world?
  engine,    \* World.Engine
  waited,    \* how long the current wait of Start or Stop has taken
  listener,  \* is the guest event port open?
  node,      \* the jail's /dev/kvm: "absent", "private" (0600), "bound"
  overlay,   \* World.kvmOverlay is set
  stuck,     \* history: the bind could not be unmounted, which was logged
  proc,      \* the VMM's process: "none", "jailer", "waitkvm", "firecracker", "dead"
  kvmWaited, \* how long fc-waitkvm has waited
  guest,     \* "off", "connecting" its emitter, "serving" the health check
  emitter,   \* is the event emitter connected?
  emitWaited \* how long connectEmitter has tried

hostVars == <<listener, node, overlay, stuck>>
procVars == <<proc, kvmWaited>>
guestVars == <<guest, emitter, emitWaited>>
startVars == <<step, returned, engine, waited>>
vars == <<startVars, hostVars, procVars, guestVars>>

Running == proc \in {"jailer", "waitkvm", "firecracker"}
Wait(s) == step' = s /\ waited' = 0
-----------------------------------------------------------------------------
Init ==
  /\ step = "prepare"
  /\ returned = FALSE
  /\ engine \in Engines
  /\ waited = 0
  /\ listener = FALSE
  /\ node = "absent"
  /\ overlay = FALSE
  /\ stuck = FALSE
  /\ proc = "none" /\ kvmWaited = 0
  /\ guest = "off" /\ emitter = FALSE /\ emitWaited = 0

(***************************************************************************)
(* Start: directories, kernel, rootfs, configuration, then the event port  *)
(* is opened before there is a VMM.  An error up to here returns.          *)
(***************************************************************************)
Prepare ==
  /\ step = "prepare"
  /\ step' = "launch"
  /\ listener' = TRUE
  /\ UNCHANGED <<returned, engine, waited, node, overlay, stuck, procVars, guestVars>>

PrepareFails ==
  /\ step = "prepare"
  /\ step' = "failed"
  /\ UNCHANGED <<returned, engine, waited, hostVars, procVars, guestVars>>

(* startVMM; a failure closes the event port. *)
StartVMM ==
  /\ step = "launch"
  /\ proc' = engine
  /\ Wait(IF engine = "jailer" THEN "overlay" ELSE "health")
  /\ UNCHANGED <<returned, engine, hostVars, kvmWaited, guestVars>>

StartVMMFails ==
  /\ step = "launch"
  /\ step' = "failed"
  /\ listener' = FALSE
  /\ UNCHANGED <<returned, engine, waited, node, overlay, stuck, procVars, guestVars>>

(***************************************************************************)
(* overlayHostKvm: wait for the jailer's node and bind over it.            *)
(***************************************************************************)
OverlayHostKvm_NotNoted ==
  /\ step = "overlay"
  /\ waited < OverlayWait
  /\ node = "private"
  /\ node' = "bound"
  /\ Wait("health")
  /\ UNCHANGED <<returned, engine, listener, overlay, stuck, procVars, guestVars>>

OverlayHostKvm ==
  /\ step = "overlay"
  /\ waited < OverlayWait
  /\ node = "private"
  /\ node' = "bound"
  /\ overlay' = TRUE
  /\ Wait("health")
  /\ UNCHANGED <<returned, engine, listener, stuck, procVars, guestVars>>

OverlayFails ==
  /\ step = "overlay"
  /\ node = "private" \/ waited >= OverlayWait
  /\ Wait("stop")
  /\ UNCHANGED <<returned, engine, hostVars, procVars, guestVars>>

(* waitHealth *)
HealthOK ==
  /\ step = "health"
  /\ waited < HealthWait + ProbeWait
  /\ guest = "serving"
  /\ step' = "up"
  /\ returned' = TRUE
  /\ UNCHANGED <<engine, waited, hostVars, procVars, guestVars>>

HealthTimeout_Retries ==
  /\ step = "health"
  /\ waited >= HealthWait
  /\ UNCHANGED vars

HealthTimeout ==
  /\ step = "health"
  /\ waited >= HealthWait
  /\ Wait("stop")
  /\ UNCHANGED <<returned, engine, hostVars, procVars, guestVars>>

(***************************************************************************)
(* Stop, by Start's error paths or by whoever has the world: SIGTERM, wait *)
(* for the process, SIGKILL when it does not end; then the event port and  *)
(* the bind.  An unmount that fails is only logged, and the bind stays.    *)
(***************************************************************************)
StopBegins ==
  /\ step = "up"
  /\ Wait("stop")
  /\ UNCHANGED <<returned, engine, hostVars, procVars, guestVars>>

ProcessEnds ==
  /\ proc' = "dead"
  /\ guest' = "off"
  /\ emitter' = FALSE
  /\ UNCHANGED <<kvmWaited, emitWaited>>

StopKills_Never ==
  /\ step = "stop" /\ Running
  /\ waited >= TermWait
  /\ UNCHANGED vars

StopKills ==
  /\ step = "stop" /\ Running
  /\ waited >= TermWait
  /\ ProcessEnds
  /\ UNCHANGED <<startVars, hostVars>>

StopReaps ==
  /\ step = "stop" /\ ~Running
  /\ step' = IF returned THEN "stopped" ELSE "failed"
  /\ listener' = FALSE
  /\ \/ node' = (IF overlay THEN "private" ELSE node) /\ UNCHANGED stuck
     \/ overlay /\ stuck' = TRUE /\ UNCHANGED node
  /\ UNCHANGED <<returned, engine, waited, overlay, procVars, guestVars>>

(***************************************************************************)
(* External: the jailer makes its node and execs fc-waitkvm.               *)
(***************************************************************************)
JailerMakesNode ==
  /\ proc = "jailer" /\ node = "absent"
  /\ node' = "private"
  /\ UNCHANGED <<startVars, listener, overlay, stuck, procVars, guestVars>>

JailerExecs ==
  /\ proc = "jailer" /\ node # "absent"
  /\ proc' = "waitkvm"
  /\ kvmWaited' = 0
  /\ UNCHANGED <<startVars, hostVars, guestVars>>

(***************************************************************************)
(* fc-waitkvm: a private node cannot be opened with the dropped ids.       *)
(***************************************************************************)
WaitKVMExecs_NoWait ==
  /\ proc = "waitkvm"
  /\ proc' = "firecracker"
  /\ UNCHANGED <<startVars, hostVars, kvmWaited, guestVars>>

WaitKVMExecs ==
  /\ proc = "waitkvm"
  /\ node = "bound"
  /\ kvmWaited < KVMWait
  /\ proc' = "firecracker"
  /\ UNCHANGED <<startVars, hostVars, kvmWaited, guestVars>>

WaitKVMGivesUp ==
  /\ proc = "waitkvm"
  /\ kvmWaited >= KVMWait
  /\ ProcessEnds
  /\ UNCHANGED <<startVars, hostVars>>

(***************************************************************************)
(* world-runtime: connectEmitter tries until its deadline, and only then,  *)
(* connected or not, does the guest serve the health check.                *)
(***************************************************************************)
GuestBoots ==
  /\ proc = "firecracker" /\ guest = "off"
  /\ guest' = "connecting"
  /\ emitWaited' = 0
  /\ UNCHANGED <<startVars, hostVars, procVars, emitter>>

ConnectEmitter ==
  /\ guest = "connecting" /\ listener
  /\ emitWaited < EmitterWait
  /\ guest' = "serving"
  /\ emitter' = TRUE
  /\ UNCHANGED <<startVars, hostVars, procVars, emitWaited>>

EmitterGivesUp_Early ==
  /\ guest = "connecting"
  /\ emitWaited > 0
  /\ guest' = "serving"
  /\ UNCHANGED <<startVars, hostVars, procVars, emitter, emitWaited>>

EmitterGivesUp ==
  /\ guest = "connecting"
  /\ emitWaited >= EmitterWait
  /\ guest' = "serving"
  /\ UNCHANGED <<startVars, hostVars, procVars, emitter, emitWaited>>

(* A process of the chain dies by itself, or of SIGTERM. *)
ProcDies ==
  /\ Running
  /\ ProcessEnds
  /\ UNCHANGED <<startVars, hostVars>>

(***************************************************************************)
(* Time passes for everyone who waits.  A wait that is over counts no      *)
(* further: nobody looks at how long it has been over.                     *)
(***************************************************************************)
Limit == [overlay |-> OverlayWait, health |-> HealthWait + ProbeWait, stop |-> TermWait]
Waiting == step \in DOMAIN Limit /\ waited < Limit[step]
KVMWaiting == proc = "waitkvm" /\ kvmWaited < KVMWait
EmitterWaiting == guest = "connecting" /\ emitWaited < EmitterWait

Tick ==
  /\ Waiting \/ KVMWaiting \/ EmitterWaiting
  /\ waited' = IF Waiting THEN waited + 1 ELSE waited
  /\ kvmWaited' = IF KVMWaiting THEN kvmWaited + 1 ELSE kvmWaited
  /\ emitWaited' = IF EmitterWaiting THEN emitWaited + 1 ELSE emitWaited
  /\ UNCHANGED <<step, returned, engine, hostVars, proc, guest, emitter>>

StartStep ==
  \/ Prepare \/ PrepareFails \/ StartVMM \/ StartVMMFails
  \/ OverlayHostKvm \/ OverlayFails \/ HealthOK \/ HealthTimeout

StopStep == StopKills \/ StopReaps

Next ==
  \/ StartStep
  \/ StopBegins \/ StopStep
  \/ JailerMakesNode \/ JailerExecs
  \/ WaitKVMExecs \/ WaitKVMGivesUp
  \/ GuestBoots \/ ConnectEmitter \/ EmitterGivesUp
  \/ ProcDies
  \/ Tick

Spec == Init /\ [][Next]_vars

(***************************************************************************)
(* Start and Stop take their steps and time passes; the jailer, the guest  *)
(* and Firecracker owe nothing.                                            *)
(***************************************************************************)
FairSpec == Spec /\ WF_vars(StartStep) /\ WF_vars(StopStep) /\ WF_vars(Tick)
-----------------------------------------------------------------------------
(* The types of the starter's, the process's and the guest's state. *)
TypeOK ==
  /\ step \in {"prepare", "launch", "overlay", "health", "up", "stop", "stopped", "failed"}
  /\ returned \in BOOLEAN
  /\ engine \in {"jailer", "firecracker"}
  /\ waited \in Nat /\ kvmWaited \in 0 .. KVMWait /\ emitWaited \in 0 .. EmitterWait
  /\ listener \in BOOLEAN
  /\ node \in {"absent", "private", "bound"}
  /\ overlay \in BOOLEAN
  /\ stuck \in BOOLEAN
  /\ proc \in {"none", "jailer", "waitkvm", "firecracker", "dead"}
  /\ guest \in {"off", "connecting", "serving"}
  /\ emitter \in BOOLEAN

(* However Start fails and whenever Stop comes, nothing is left: no         *)
(* process, no event port, and no bind over the jail's /dev/kvm but one     *)
(* that Stop tried to unmount and could not.                                *)
StoppedClean ==
  step \in {"failed", "stopped"} => ~Running /\ ~listener /\ (node = "bound" => stuck)

(* fc-waitkvm: "We must not exec Firecracker until that bind is live".      *)
FirecrackerHasKVM == engine = "jailer" /\ proc = "firecracker" => node = "bound"

(* The guest tries for its emitter longer than the host waits for the       *)
(* guest: a world that Start returns has got its emitter connected, and     *)
(* keeps it until drainEvents on the host closes the connection (EventPath) *)
(* or the guest ends.                                                       *)
EmitterConnected == step = "up" /\ guest = "serving" => emitter

(***************************************************************************)
(* The inductive invariant.  The event port is open and the bind is noted  *)
(* exactly while Start or Stop still has to close and undo them; what the  *)
(* process and the guest can be doing at each step; and the emitter has    *)
(* not been tried for longer than the host has waited for the guest.       *)
(***************************************************************************)
PortByStep == listener <=> step \notin {"prepare", "failed", "stopped"}

ProcByStep ==
  /\ step \in {"prepare", "launch"} => proc = "none"
  /\ step = "overlay" => engine = "jailer"
  /\ step \in {"failed", "stopped"} => ~Running
  /\ engine = "firecracker" => proc \notin {"jailer", "waitkvm"}

BindNoted ==
  /\ node = "bound" => overlay /\ (step \in {"health", "up", "stop"} \/ stuck)
  /\ stuck => step \in {"failed", "stopped"}
  /\ proc = "waitkvm" => node # "absent"
  /\ engine = "firecracker" => node = "absent" /\ ~overlay

GuestByProc ==
  /\ guest # "off" => proc = "firecracker" /\ step \in {"health", "up", "stop"}
  /\ step = "up" /\ Running => guest = "serving"

EmitterBehindHealth ==
  step = "health" =>
    /\ guest = "connecting" => emitWaited <= waited \/ waited >= HealthWait + ProbeWait
    /\ guest = "serving" /\ ~emitter => waited >= HealthWait + ProbeWait

(* Start, Stop, the process and the guest are in step; see the parts.       *)
WorldStartInv ==
  /\ TypeOK
  /\ PortByStep
  /\ ProcByStep
  /\ BindNoted
  /\ GuestByProc
  /\ EmitterBehindHealth
  /\ StoppedClean
  /\ FirecrackerHasKVM
  /\ EmitterConnected

(* Start returns, with a world or an error, whatever the jailer and the     *)
(* guest do.                                                                *)
StartReturns == step = "prepare" ~> step \in {"up", "failed", "stopped"}

(* Stop ends, even when the VMM ignores SIGTERM.                            *)
StopEnds == step = "stop" ~> step \in {"stopped", "failed"}
=============================================================================
