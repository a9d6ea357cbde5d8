------------------------------ MODULE LotBoss -------------------------------
(***************************************************************************)
(* lot-boss (lot/boss.go, lot/pause.go, lot/cmd/lot-boss/main.go): leases  *)
(* Firecracker worlds under a cap, pauses idle ones, destroys them, and    *)
(* destroys all of them on shutdown.                                       *)
(*                                                                         *)
(* One mutex protects the map of slots.  Lease releases it while the VMM   *)
(* boots, Exec while the command runs and Destroy while the VMM dies, so   *)
(* those calls are several actions; everything done under one hold of the  *)
(* mutex is one.  A Lease call generates a fresh id, so the call in flight *)
(* is identified with its world and phase[w] is where it has got to:       *)
(*   unused    id not generated yet                                        *)
(*   starting  Lease is inside world.Start, the mutex released             *)
(*   started   Start returned; Lease waits for the mutex again             *)
(*   slot      in b.worlds                                                 *)
(*   refused   Lease returned an error                                     *)
(*   removed   Destroy deleted the slot; the VMM is being stopped          *)
(*   stopped   Destroy has stopped the VMM and tells the desk              *)
(*   gone      Destroy has returned                                        *)
(*                                                                         *)
(* The clock is relative: idle[w] is the time since w's last activity, in  *)
(* ticks of the pause loop, and stops counting at MaxIdle.                 *)
(***************************************************************************)
EXTENDS Integers, FiniteSets, Sequences

CONSTANTS
  Worlds,      \* the ids newWorldID may return, each once
  Execs,       \* concurrent exec requests
  MaxWorlds,   \* Config.MaxWorlds: the cap
  TTLInputs,   \* ttl_pause strings of lease bodies: durations in ticks, or BadTTL
  BadTTL,      \* a string that does not parse
  DefaultTTL,  \* 15 minutes, in ticks
  MaxIdle,     \* where idle[w] stops counting
  Networks,    \* network phases that clients ask for
  APIFaults,   \* how a Firecracker API call may fail: "refused", "lost"
  DeskFaults,  \* TRUE: lot-boss may give up a commit to the desk
  NoWorld

ASSUME LotBossAssumption ==
  /\ IsFiniteSet(Worlds)
  /\ NoWorld \notin Worlds
  /\ MaxWorlds \in Nat \ {0}
  /\ TTLInputs \subseteq Int \cup {BadTTL}
  /\ BadTTL \notin Int
  /\ DefaultTTL \in Nat \ {0}
  /\ MaxIdle \in Nat
  /\ Networks \subseteq {"dark", "proxy"}
  /\ APIFaults \subseteq {"refused", "lost"}
  /\ DeskFaults \in BOOLEAN

VARIABLES
  phase,     \* how far the world's calls have got
  vmm,       \* the VMM process: "none" yet, "running", "frozen" (vCPUs paused), "dead"
  cid,       \* the guest CID given to the world, 0 before
  nextCID,   \* Boss.nextCID
  paused,    \* slot.paused, which is also info.State = "paused"
  idle,      \* now - slot.lastActive
  ttl,       \* slot.ttlPause
  network,   \* slot.info.Network
  exec,      \* each exec request: its step and its world
  stopping,  \* Boss.stopping
  stopSet,   \* history: the ids StopAll found
  toStop,    \* of those, the ones StopAll has still to destroy
  closing,   \* the world StopAll's Destroy call is stopping, or NoWorld
  exited,    \* the lot-boss process has ended
  deskLog,   \* what the desk was told of each world by lot-boss itself
  late       \* the commits of each world that were given up, and may have landed since

slotVars == <<paused, idle, ttl, network>>
stopVars == <<stopping, stopSet, toStop, closing, exited>>
deskVars == <<deskLog, late>>
vars == <<phase, vmm, cid, nextCID, slotVars, exec, stopVars, deskVars>>

Slots == {w \in Worlds : phase[w] = "slot"}
BelowCap == Cardinality(Slots) < MaxWorlds
Alive(w) == vmm[w] \in {"running", "frozen"}

(* World.Stop: SIGTERM, three seconds of grace, SIGKILL. *)
Stop(w) == vmm' = [vmm EXCEPT ![w] = "dead"]

(***************************************************************************)
(* A commit to the desk: one attempt, errors only logged.  One that is     *)
(* given up after 10 s may still land, at any time, or never.              *)
(***************************************************************************)
CommitDesk(w, kind) ==
  \/ deskLog' = [deskLog EXCEPT ![w] = Append(@, kind)] /\ UNCHANGED late
  \/ DeskFaults /\ late' = [late EXCEPT ![w] = @ \cup {kind}] /\ UNCHANGED deskLog

LateCommit(w) ==
  /\ \E kind \in late[w] :
       /\ \A i \in DOMAIN deskLog[w] : deskLog[w][i] # kind
       /\ deskLog' = [deskLog EXCEPT ![w] = Append(@, kind)]
  /\ UNCHANGED <<phase, vmm, cid, nextCID, slotVars, exec, stopVars, late>>

(***************************************************************************)
(* parseTTLPause: the default for what does not parse or is not positive.  *)
(***************************************************************************)
parseTTLPause_TakesAny(s) == IF s = BadTTL THEN DefaultTTL ELSE s

parseTTLPause(s) == IF s = BadTTL THEN DefaultTTL ELSE IF s <= 0 THEN DefaultTTL ELSE s
-----------------------------------------------------------------------------
Init ==
  /\ phase = [w \in Worlds |-> "unused"]
  /\ vmm = [w \in Worlds |-> "none"]
  /\ cid = [w \in Worlds |-> 0]
  /\ nextCID = 3
  /\ paused = [w \in Worlds |-> FALSE]
  /\ idle = [w \in Worlds |-> 0]
  /\ ttl = [w \in Worlds |-> DefaultTTL]
  /\ network = [w \in Worlds |-> "dark"]
  /\ exec = [e \in Execs |-> [step |-> "idle", world |-> NoWorld]]
  /\ stopping = FALSE
  /\ stopSet = {}
  /\ toStop = {}
  /\ closing = NoWorld
  /\ exited = FALSE
  /\ deskLog = [w \in Worlds |-> <<>>]
  /\ late = [w \in Worlds |-> {}]

(***************************************************************************)
(* Lease, first hold of the mutex: refuse when stopping or at the cap,     *)
(* else take an id and a CID.                                              *)
(***************************************************************************)
LeaseBegin_ReusesIds(w) ==
  /\ ~exited /\ ~stopping
  /\ BelowCap
  /\ phase[w] \in {"unused", "gone"}
  /\ phase' = [phase EXCEPT ![w] = "starting"]
  /\ cid' = [cid EXCEPT ![w] = nextCID]
  /\ nextCID' = nextCID + 1
  /\ UNCHANGED <<vmm, slotVars, exec, stopVars, deskVars>>

LeaseBegin(w) ==
  /\ ~exited /\ ~stopping
  /\ BelowCap
  /\ phase[w] = "unused"
  /\ phase' = [phase EXCEPT ![w] = "starting"]
  /\ cid' = [cid EXCEPT ![w] = nextCID]
  /\ nextCID' = nextCID + 1
  /\ UNCHANGED <<vmm, slotVars, exec, stopVars, deskVars>>

(***************************************************************************)
(* world.Start: the VMM process is launched, then the guest must answer    *)
(* its health check in time.  Every failure after the launch stops the     *)
(* VMM before Start returns.                                               *)
(***************************************************************************)
StartVMM(w) ==
  /\ ~exited
  /\ phase[w] = "starting" /\ vmm[w] = "none"
  /\ vmm' = [vmm EXCEPT ![w] = "running"]
  /\ UNCHANGED <<phase, cid, nextCID, slotVars, exec, stopVars, deskVars>>

StartReturns(w) ==
  /\ ~exited
  /\ phase[w] = "starting" /\ vmm[w] = "running"
  /\ phase' = [phase EXCEPT ![w] = "started"]
  /\ UNCHANGED <<vmm, cid, nextCID, slotVars, exec, stopVars, deskVars>>

StartFails_LeavesVMM(w) ==
  /\ ~exited
  /\ phase[w] = "starting"
  /\ phase' = [phase EXCEPT ![w] = "refused"]
  /\ UNCHANGED <<vmm, cid, nextCID, slotVars, exec, stopVars, deskVars>>

StartFails(w) ==
  /\ ~exited
  /\ phase[w] = "starting"
  /\ phase' = [phase EXCEPT ![w] = "refused"]
  /\ Stop(w)
  /\ UNCHANGED <<cid, nextCID, slotVars, exec, stopVars, deskVars>>

(***************************************************************************)
(* Lease, second hold of the mutex: the cap is checked again, stopping is  *)
(* not.  The slot goes into the map and the desk is told.                  *)
(***************************************************************************)
NewSlot(w, s) ==
  /\ paused' = [paused EXCEPT ![w] = FALSE]
  /\ idle' = [idle EXCEPT ![w] = 0]
  /\ ttl' = [ttl EXCEPT ![w] = parseTTLPause(s)]
  /\ network' = [network EXCEPT ![w] = "dark"]

LeaseInsert_NoRecheck(w, s) ==
  /\ ~exited
  /\ phase[w] = "started"
  /\ phase' = [phase EXCEPT ![w] = "slot"]
  /\ NewSlot(w, s)
  /\ CommitDesk(w, "world_start")
  /\ UNCHANGED <<vmm, cid, nextCID, exec, stopVars>>

LeaseInsert(w, s) ==
  /\ ~exited
  /\ phase[w] = "started"
  /\ BelowCap
  /\ phase' = [phase EXCEPT ![w] = "slot"]
  /\ NewSlot(w, s)
  /\ CommitDesk(w, "world_start")
  /\ UNCHANGED <<vmm, cid, nextCID, exec, stopVars>>

LeaseRefused_Retries(w) ==
  /\ ~exited
  /\ phase[w] = "started"
  /\ ~BelowCap
  /\ UNCHANGED vars

LeaseRefused(w) ==
  /\ ~exited
  /\ phase[w] = "started"
  /\ ~BelowCap
  /\ phase' = [phase EXCEPT ![w] = "refused"]
  /\ Stop(w)
  /\ UNCHANGED <<cid, nextCID, slotVars, exec, stopVars, deskVars>>

(***************************************************************************)
(* onActivity: a paused world is resumed first; if that fails the slot     *)
(* stays as it was.  A failed API call was refused, or was carried out and *)
(* its answer lost.                                                        *)
(***************************************************************************)
OnActivity_IgnoresError(w) ==
  /\ paused' = [paused EXCEPT ![w] = FALSE]
  /\ idle' = [idle EXCEPT ![w] = 0]
  /\ \/ paused[w] /\ Alive(w) /\ vmm' = [vmm EXCEPT ![w] = "running"]
     \/ UNCHANGED vmm

OnActivity(w) ==
  \/ /\ ~paused[w]
     /\ idle' = [idle EXCEPT ![w] = 0]
     /\ UNCHANGED <<paused, vmm>>
  \/ /\ paused[w] /\ Alive(w)
     /\ vmm' = [vmm EXCEPT ![w] = "running"]
     /\ \/ /\ paused' = [paused EXCEPT ![w] = FALSE]
           /\ idle' = [idle EXCEPT ![w] = 0]
        \/ "lost" \in APIFaults /\ UNCHANGED <<paused, idle>>
  \/ /\ paused[w]
     /\ ~Alive(w) \/ "refused" \in APIFaults
     /\ UNCHANGED <<paused, idle, vmm>>

Heartbeat(w) ==
  /\ ~exited /\ w \in Slots
  /\ OnActivity(w)
  /\ UNCHANGED <<phase, cid, nextCID, ttl, network, exec, stopVars, deskVars>>

SetNetwork(w, n) ==
  /\ ~exited /\ w \in Slots
  /\ network' = [network EXCEPT ![w] = n]
  /\ OnActivity(w)
  /\ UNCHANGED <<phase, cid, nextCID, ttl, exec, stopVars, deskVars>>

(***************************************************************************)
(* Exec: look the slot up, let go of the mutex, take it again to touch the *)
(* slot (which Destroy may have removed meanwhile), run the command in the *)
(* guest with the mutex free.  A request without a command ends after the  *)
(* touch.  The call returns when the guest answers, or with an error: the  *)
(* client gives up after 90 seconds on a guest that is frozen or dead.     *)
(***************************************************************************)
ExecFind(e, w) ==
  /\ ~exited /\ w \in Slots
  /\ exec[e].step = "idle"
  /\ exec' = [exec EXCEPT ![e] = [step |-> "found", world |-> w]]
  /\ UNCHANGED <<phase, vmm, cid, nextCID, slotVars, stopVars, deskVars>>

ExecTouch(e) ==
  /\ ~exited
  /\ exec[e].step = "found"
  /\ OnActivity(exec[e].world)
  /\ \/ exec' = [exec EXCEPT ![e].step = "running"]
     \/ exec' = [exec EXCEPT ![e] = [step |-> "idle", world |-> NoWorld]]
  /\ UNCHANGED <<phase, cid, nextCID, ttl, network, stopVars, deskVars>>

ExecReturn(e) ==
  /\ ~exited
  /\ exec[e].step = "running"
  /\ exec' = [exec EXCEPT ![e] = [step |-> "idle", world |-> NoWorld]]
  /\ UNCHANGED <<phase, vmm, cid, nextCID, slotVars, stopVars, deskVars>>

(***************************************************************************)
(* A tick of the pause loop: every slot idle for its ttl_pause is paused,  *)
(* all under one hold of the mutex.  The loop ends when stopping.          *)
(***************************************************************************)
Expired_Inverted == {w \in Slots : ~paused[w] /\ idle[w] < ttl[w]}

Expired == {w \in Slots : ~paused[w] /\ idle[w] >= ttl[w]}

PauseOutcomes(w) ==
  {o \in {"done", "lost", "refused"} :
     IF Alive(w) THEN o = "done" \/ o \in APIFaults ELSE o = "refused"}

PauseTick ==
  /\ ~exited /\ ~stopping
  /\ \E out \in [Expired -> {"done", "lost", "refused"}] :
       /\ \A w \in Expired : out[w] \in PauseOutcomes(w)
       /\ paused' = [w \in Worlds |-> IF w \in Expired /\ out[w] = "done" THEN TRUE ELSE paused[w]]
       /\ vmm' = [w \in Worlds |-> IF w \in Expired /\ out[w] # "refused" THEN "frozen" ELSE vmm[w]]
  /\ UNCHANGED <<phase, cid, nextCID, idle, ttl, network, exec, stopVars, deskVars>>

(***************************************************************************)
(* Destroy: the slot leaves the map under the mutex, then the VMM is       *)
(* stopped and the desk told.                                              *)
(***************************************************************************)
DestroyBegin(w) ==
  /\ ~exited /\ w \in Slots
  /\ phase' = [phase EXCEPT ![w] = "removed"]
  /\ UNCHANGED <<vmm, cid, nextCID, slotVars, exec, stopVars, deskVars>>

DestroyStop_LeavesVMM(w) ==
  /\ ~exited
  /\ phase[w] = "removed"
  /\ phase' = [phase EXCEPT ![w] = "stopped"]
  /\ UNCHANGED <<vmm, cid, nextCID, slotVars, exec, stopVars, deskVars>>

DestroyStop(w) ==
  /\ ~exited
  /\ phase[w] = "removed"
  /\ Stop(w)
  /\ phase' = [phase EXCEPT ![w] = "stopped"]
  /\ UNCHANGED <<cid, nextCID, slotVars, exec, stopVars, deskVars>>

DestroyTells(w) ==
  /\ ~exited
  /\ phase[w] = "stopped"
  /\ CommitDesk(w, "world_stop")
  /\ phase' = [phase EXCEPT ![w] = "gone"]
  /\ closing' = IF closing = w THEN NoWorld ELSE closing
  /\ UNCHANGED <<vmm, cid, nextCID, slotVars, exec, stopping, stopSet, toStop, exited>>

(***************************************************************************)
(* StopAll, on SIGINT or SIGTERM: note the live ids under the mutex, then  *)
(* destroy them one after another; an id that is gone already is skipped.  *)
(* When StopAll is done the server is shut down: ListenAndServe returns at *)
(* once and main with it, whatever handlers are still running.             *)
(***************************************************************************)
StopAllBegin ==
  /\ ~exited /\ ~stopping
  /\ stopping' = TRUE
  /\ stopSet' = Slots
  /\ toStop' = Slots
  /\ UNCHANGED <<phase, vmm, cid, nextCID, slotVars, exec, closing, exited, deskVars>>

StopAllDestroys_GivesUp(w) ==
  /\ ~exited /\ stopping /\ closing = NoWorld
  /\ w \in toStop
  /\ IF w \in Slots
     THEN /\ phase' = [phase EXCEPT ![w] = "removed"]
          /\ closing' = w
          /\ toStop' = toStop \ {w}
     ELSE /\ toStop' = {}
          /\ UNCHANGED <<phase, closing>>
  /\ UNCHANGED <<vmm, cid, nextCID, slotVars, exec, stopping, stopSet, exited, deskVars>>

StopAllDestroys_WaitsForGone(w) ==
  /\ ~exited /\ stopping /\ closing = NoWorld
  /\ w \in toStop
  /\ toStop' = toStop \ {w}
  /\ closing' = w
  /\ phase' = IF w \in Slots THEN [phase EXCEPT ![w] = "removed"] ELSE phase
  /\ UNCHANGED <<vmm, cid, nextCID, slotVars, exec, stopping, stopSet, exited, deskVars>>

StopAllDestroys(w) ==
  /\ ~exited /\ stopping /\ closing = NoWorld
  /\ w \in toStop
  /\ toStop' = toStop \ {w}
  /\ IF w \in Slots
     THEN /\ phase' = [phase EXCEPT ![w] = "removed"]
          /\ closing' = w
     ELSE UNCHANGED <<phase, closing>>
  /\ UNCHANGED <<vmm, cid, nextCID, slotVars, exec, stopping, stopSet, exited, deskVars>>

Exit ==
  /\ ~exited /\ stopping /\ toStop = {} /\ closing = NoWorld
  /\ exited' = TRUE
  /\ UNCHANGED <<phase, vmm, cid, nextCID, slotVars, exec, stopping, stopSet, toStop, closing, deskVars>>

(***************************************************************************)
(* Outside lot-boss: time passes; a VMM dies by itself.                    *)
(***************************************************************************)
Tick ==
  /\ ~exited
  /\ idle' = [w \in Worlds |-> IF w \in Slots /\ idle[w] < MaxIdle THEN idle[w] + 1 ELSE idle[w]]
  /\ UNCHANGED <<phase, vmm, cid, nextCID, paused, ttl, network, exec, stopVars, deskVars>>

VMMDies(w) ==
  /\ Alive(w)
  /\ Stop(w)
  /\ UNCHANGED <<phase, cid, nextCID, slotVars, exec, stopVars, deskVars>>

Next ==
  \/ \E w \in Worlds :
       \/ LeaseBegin(w)
       \/ StartVMM(w) \/ StartReturns(w) \/ StartFails(w)
       \/ \E s \in TTLInputs : LeaseInsert(w, s)
       \/ LeaseRefused(w)
       \/ Heartbeat(w)
       \/ \E n \in Networks : SetNetwork(w, n)
       \/ \E e \in Execs : ExecFind(e, w)
       \/ DestroyBegin(w) \/ DestroyStop(w) \/ DestroyTells(w)
       \/ LateCommit(w)
       \/ StopAllDestroys(w)
       \/ VMMDies(w)
  \/ \E e \in Execs : ExecTouch(e) \/ ExecReturn(e)
  \/ PauseTick
  \/ StopAllBegin
  \/ Exit
  \/ Tick

Spec == Init /\ [][Next]_vars

(***************************************************************************)
(* Goroutines that can run do: world.Start has a deadline, Stop ends in a  *)
(* SIGKILL, an exec in the client's timeout, and the pause loop is driven  *)
(* by a ticker.  Clients, signals, the death of a VMM and commits that     *)
(* land late are not fair.                                                 *)
(***************************************************************************)
FairSpec ==
  /\ Spec
  /\ \A w \in Worlds :
       /\ WF_vars(StartVMM(w) \/ StartReturns(w) \/ StartFails(w))
       /\ WF_vars(LeaseRefused(w) \/ \E s \in TTLInputs : LeaseInsert(w, s))
       /\ WF_vars(DestroyStop(w)) /\ WF_vars(DestroyTells(w))
       /\ WF_vars(StopAllDestroys(w))
  /\ \A e \in Execs : WF_vars(ExecTouch(e)) /\ WF_vars(ExecReturn(e))
  /\ WF_vars(PauseTick)
  /\ WF_vars(Exit)
-----------------------------------------------------------------------------
Phases == {"unused", "starting", "started", "slot", "refused", "removed", "stopped", "gone"}
Had == {"slot", "removed", "stopped", "gone"}

(* The types of lot-boss's memory and of what it drives. *)
TypeOK ==
  /\ phase \in [Worlds -> Phases]
  /\ vmm \in [Worlds -> {"none", "running", "frozen", "dead"}]
  /\ cid \in [Worlds -> Nat]
  /\ nextCID \in Nat
  /\ paused \in [Worlds -> BOOLEAN]
  /\ idle \in [Worlds -> Nat]
  /\ ttl \in [Worlds -> Nat \ {0}]
  /\ network \in [Worlds -> {"dark", "proxy"}]
  /\ exec \in [Execs -> [step : {"idle", "found", "running"}, world : Worlds \cup {NoWorld}]]
  /\ stopping \in BOOLEAN
  /\ stopSet \in SUBSET Worlds
  /\ toStop \in SUBSET Worlds
  /\ closing \in Worlds \cup {NoWorld}
  /\ exited \in BOOLEAN
  /\ deskLog \in [Worlds -> Seq({"world_start", "world_stop"})]
  /\ late \in [Worlds -> SUBSET {"world_start", "world_stop"}]

(* Lease checks the cap before it boots a VMM with the mutex released, and  *)
(* again before it inserts the slot: however leases interleave, the node    *)
(* never holds more slots than -max-worlds.                                 *)
CapHeld == Cardinality(Slots) <= MaxWorlds

(* Every running VMM has someone to stop it: a slot, or a Lease or Destroy  *)
(* call that has not returned.  No error path of Lease or Destroy leaks one *)
(* while lot-boss lives.                                                    *)
NoStrayVMM ==
  \A w \in Worlds :
    Alive(w) /\ ~exited => phase[w] \in {"starting", "started", "slot", "removed"}

(* Two VMMs alive at once never share a vsock CID, through failed leases    *)
(* and destroyed worlds.                                                    *)
DistinctCIDs ==
  \A v, w \in Worlds : v # w /\ Alive(v) /\ Alive(w) => cid[v] # cid[w]

(* What lot-boss reports agrees with Firecracker: the state of a slot with  *)
(* a live VMM is "paused" exactly when its vCPUs are frozen.                *)
StateAgreesWithVMM ==
  \A w \in Slots : Alive(w) => (paused[w] <=> vmm[w] = "frozen")

(* docs/prd.md M3, "heartbeat/exec Resume": activity that resets the idle   *)
(* clock leaves the world running.                                          *)
ActivityResumes ==
  [][\A w \in Slots : idle[w] > 0 /\ idle'[w] = 0 => vmm'[w] # "frozen"]_vars

(* No ttl_pause a client sends, malformed, zero or negative, makes the      *)
(* pause loop freeze a world that is in use.                                *)
NoPauseInUse == \A w \in Slots : paused[w] => idle[w] > 0

(* The desk is told the truth: nothing of a world that was refused its      *)
(* slot; world_start and world_stop at most once each; world_stop only when *)
(* the VMM is dead; and in this order, unless lot-boss had given up the     *)
(* commit of world_start.                                                   *)
DeskToldTruth ==
  \A w \in Worlds :
    /\ phase[w] \notin Had => deskLog[w] = <<>>
    /\ \A i, j \in DOMAIN deskLog[w] : i # j => deskLog[w][i] # deskLog[w][j]
    /\ \A i \in DOMAIN deskLog[w] : deskLog[w][i] = "world_stop" =>
         /\ ~Alive(w)
         /\ \A j \in DOMAIN deskLog[w] : i < j => "world_start" \in late[w]

(* StopAll leaves none of the slots it found in the map, even when clients  *)
(* destroy worlds at the same time.                                         *)
StopAllClears == exited => stopSet \cap Slots = {}

(* docs/grok-build-m3.md O4, "no orphan VMM after stop": once lot-boss has  *)
(* shut down, no VMM it started is alive.                                   *)
NoOrphanAfterStop == exited => \A w \in Worlds : ~Alive(w)

(* A lease is answered: the call leaves world.Start and the wait for the    *)
(* mutex, unless the process ends.                                          *)
LeaseAnswered ==
  \A w \in Worlds :
    phase[w] \in {"starting", "started"} ~> phase[w] \notin {"starting", "started"} \/ exited

(* A world that Destroy took from the map has its VMM stopped, unless the   *)
(* process ends first.                                                      *)
DestroyedWorldDies ==
  \A w \in Worlds : phase[w] = "removed" ~> ~Alive(w) \/ exited

(* Shutdown terminates, whatever clients do meanwhile.                      *)
ShutdownCompletes == stopping ~> exited

(* An idle world is paused once its ttl_pause is over, unless it becomes    *)
(* active, is destroyed or dies, or lot-boss stops.                         *)
IdleWorldPaused ==
  \A w \in Worlds :
    w \in Slots /\ idle[w] >= ttl[w] ~>
      paused[w] \/ idle[w] < ttl[w] \/ w \notin Slots \/ ~Alive(w) \/ stopping
-----------------------------------------------------------------------------
(* Where a VMM may be, by how far the calls about its world have got.       *)
VMMByPhase ==
  \A w \in Worlds :
    /\ phase[w] = "unused" => vmm[w] = "none"
    /\ phase[w] \in {"starting", "started"} => vmm[w] # "frozen"
    /\ phase[w] \in {"refused", "stopped", "gone"} => vmm[w] = "dead"

(* CIDs are given out once, in order.                                       *)
CIDsByLease ==
  \A v, w \in Worlds :
    phase[v] # "unused" =>
      /\ cid[v] < nextCID
      /\ phase[w] # "unused" /\ v # w => cid[v] # cid[w]

(* An exec request holds a world that once had a slot.                      *)
ExecsHoldWorlds ==
  \A e \in Execs : exec[e].step # "idle" =>
    /\ exec[e].world \in Worlds
    /\ phase[exec[e].world] \in Had

(* The desk hears of a world's start when it gets its slot, of its stop     *)
(* when the VMM is dead.                                                    *)
Told(w) == late[w] \cup {deskLog[w][i] : i \in DOMAIN deskLog[w]}

DeskByPhase ==
  \A w \in Worlds :
    /\ phase[w] \notin Had => Told(w) = {}
    /\ phase[w] # "gone" => "world_stop" \notin Told(w)
    /\ \A i, j \in DOMAIN deskLog[w] : i # j => deskLog[w][i] # deskLog[w][j]
    /\ \A i, j \in DOMAIN deskLog[w] :
         deskLog[w][i] = "world_stop" /\ i < j => "world_start" \in late[w]

(* StopAll's list still has every slot it found; the process ends when the  *)
(* list is empty.                                                           *)
StopAllProgress ==
  /\ \A w \in stopSet : phase[w] \in Had
  /\ stopSet \cap Slots \subseteq toStop
  /\ ~stopping => stopSet = {}
  /\ exited => stopping /\ toStop = {}

(* The inductive invariant behind the safety theorems.                      *)
LotBossInv ==
  /\ TypeOK
  /\ CapHeld
  /\ VMMByPhase
  /\ CIDsByLease
  /\ ExecsHoldWorlds
  /\ DeskByPhase
  /\ StopAllProgress
  /\ NoPauseInUse
  /\ "lost" \in APIFaults \/ StateAgreesWithVMM
=============================================================================
