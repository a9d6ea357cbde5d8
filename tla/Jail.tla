-------------------------------- MODULE Jail --------------------------------
(***************************************************************************)
(* The inner jail (inner/policy.py, host.py, bwrap.py, seccomp.py, run.py):*)
(* run.py loads a policy, prepares the decoy directories, builds the bwrap *)
(* command line and the seccomp program, and starts the command, whose     *)
(* system calls the kernel then judges by running that program.            *)
(*                                                                         *)
(* A path is the sequence of its components, as _norm leaves it; links are *)
(* the last component of a path.  A system call is its name, for number()  *)
(* is one to one; clone flags are a set of bits.  The audit events are in  *)
(* EventPath.                                                              *)
(***************************************************************************)
EXTENDS Naturals, Sequences, FiniteSets, SequencesExt

CONSTANTS
  Policies,   \* the policy files
  I3,         \* DENIED_I3_SET
  Syscalls,   \* the names number() knows
  NSFlags,    \* CLONE_NS_MASK
  OtherFlags, \* the other bits of clone's flags
  Exists,     \* the host paths that exist
  Links,      \* host path -> the path it resolves to, for those that are links
  RelLinks,   \* the links whose text is relative
  Workspace,  \* run.py --workspace
  Command     \* the host path of the command

ASSUME JailAssumption ==
  /\ \A p \in Policies :
       /\ DOMAIN p = {"allowed", "denied", "secrets", "decoys", "ro", "rw", "workspace"}
       /\ p.allowed \in Seq(STRING)
       /\ \A f \in {"decoys", "ro", "rw"} : p[f] \in Seq([host : Seq(STRING), dest : Seq(STRING)])
       /\ \A i, j \in DOMAIN p.decoys : p.decoys[i].dest = p.decoys[j].dest => i = j
  /\ I3 \subseteq Syscalls
  /\ NSFlags \cap OtherFlags = {}
  /\ RelLinks \subseteq DOMAIN Links /\ DOMAIN Links \subseteq Exists

VARIABLES
  policy,      \* the policy file being used
  noDecoy,     \* run.py --no-decoy
  step,        \* "load", "decoys", "plan", "exec", "judge", "decided", or "refused"
  decoyHost,   \* the decoys: host directory and jail path, in the policy's order
  mounts,      \* the bind options of the bwrap command line, in order
  prog,        \* the BPF program
  call,        \* the system call being judged: its architecture, number and flags
  pc, acc,     \* of the BPF machine
  verdict      \* "none", "ALLOW" or "EPERM"

vars == <<policy, noDecoy, step, decoyHost, mounts, prog, call, pc, acc, verdict>>
jailVars == <<policy, noDecoy, decoyHost, mounts, prog>>
callVars == <<call, pc, acc, verdict>>

Under(path, dir) == IsPrefix(dir, path)
IsSecret(p, path) == \E s \in p.secrets : Under(path, s)
(* What seq has at the positions I: SelectSeq, as a function the proofs can unfold. *)
Subsequence(seq, I) ==
  LET upTo[i \in 0 .. Len(seq)] ==
        IF i = 0 THEN <<>> ELSE IF i \in I THEN Append(upTo[i - 1], seq[i]) ELSE upTo[i - 1]
  IN upTo[Len(seq)]

Elems(seq) == {seq[i] : i \in DOMAIN seq}
Bind(src, dest) == [flag |-> "bind", src |-> src, dest |-> dest]
Symlink(dest) == [flag |-> "symlink", src |-> <<>>, dest |-> dest]
Runtime == <<"runtime">>        \* the source of a decoy that run.py makes itself
Dests(ms) == {m.dest : m \in Elems(ms)}
Resolve(path) == IF path \in DOMAIN Links THEN Links[path] ELSE path
NoCall == [arch |-> "none", nr |-> "none", flags |-> {}]
-----------------------------------------------------------------------------
(* load_policy: the names that may not be allowed, and the binds. *)
SyscallsOK(p) ==
  /\ Elems(p.allowed) \cap (p.denied \cup I3) = {}
  /\ Elems(p.allowed) \cup p.denied \subseteq Syscalls

CheckSecretBinds(p) ==
  /\ \A b \in Elems(p.ro) \cup Elems(p.rw) :
       /\ ~IsSecret(p, b.host)
       /\ b.dest \notin p.secrets
       /\ b.dest \notin Dests(p.decoys)
  /\ \A d \in Elems(p.decoys) :
       /\ d.dest \in p.secrets
       /\ d.host # Runtime => ~IsSecret(p, d.host)

(* resolve_ro_binds: the first of two binds on a dest, of those that exist; links are resolved. *)
ResolveROBinds(ro) ==
  LET taken == Subsequence(ro, {i \in DOMAIN ro :
        ro[i].host \in Exists /\ \A j \in 1 .. i - 1 : ro[j].dest # ro[i].dest \/ ro[j].host \notin Exists})
      resolved(b) == IF b.host \in RelLinks THEN Symlink(b.dest) ELSE Bind(Resolve(b.host), b.dest)
  IN [i \in DOMAIN taken |-> resolved(taken[i])]

(***************************************************************************)
(* build_plan: the order of the mounts is the order of the arguments.  The *)
(* command is bound on its own when no earlier mount has it.               *)
(***************************************************************************)
Covered(path, ms) ==
  \E m \in Elems(ms) : Under(path, m.dest) \/ (m.flag = "bind" /\ Under(path, Resolve(m.src)))

CommandDest == <<".backlot-bin", Last(Command)>>

WithCommand(ms) ==
  IF Command \notin Exists \/ Covered(Resolve(Command), ms) THEN ms
  ELSE Append(ms, Bind(Command, CommandDest))

RWBinds(p) == [i \in DOMAIN p.rw |-> Bind(p.rw[i].host, p.rw[i].dest)]

BuildPlan_DecoysEarly(p, dh) ==
  WithCommand(ResolveROBinds(p.ro) \o dh \o RWBinds(p) \o <<Bind(Workspace, p.workspace)>>)

BuildPlan(p, dh) ==
  WithCommand(ResolveROBinds(p.ro) \o RWBinds(p) \o <<Bind(Workspace, p.workspace)>> \o dh)

(* _reject_secret_source and _final_secret_scan *)
FinalSecretScan(p, ms, dh) ==
  \A m \in Elems(ms) : m.flag = "bind" =>
    ~IsSecret(p, m.src) /\ (IsSecret(p, m.dest) => m.dest \in Dests(dh))
-----------------------------------------------------------------------------
(***************************************************************************)
(* compile_seccomp: architecture, clone and its flags, the other allowed   *)
(* names one by one, and EPERM for what is left.                           *)
(***************************************************************************)
LD(field) == [op |-> "LD", k |-> field, jt |-> 0, jf |-> 0]
JEQ(k, jt, jf) == [op |-> "JEQ", k |-> k, jt |-> jt, jf |-> jf]
JSET(jt, jf) == [op |-> "JSET", k |-> "CLONE_NS_MASK", jt |-> jt, jf |-> jf]
RET(k) == [op |-> "RET", k |-> k, jt |-> 0, jf |-> 0]

Prologue == <<LD("arch"), JEQ("x86_64", 1, 0), RET("EPERM"), LD("nr")>>

CloneHandler_OffByOne ==
  <<JEQ("clone", 0, 3), LD("args0"), JSET(0, 1), RET("EPERM"), RET("ALLOW")>>

CloneHandler ==
  <<JEQ("clone", 0, 4), LD("args0"), JSET(0, 1), RET("EPERM"), RET("ALLOW")>>

CompileSeccomp(p) ==
  LET allow == Subsequence(p.allowed, {i \in DOMAIN p.allowed : p.allowed[i] \notin I3})
      simple == Subsequence(allow, {i \in DOMAIN allow : allow[i] # "clone"})
  IN Prologue
     \o (IF "clone" \in Elems(allow) THEN CloneHandler ELSE <<>>)
     \o [i \in 1 .. 2 * Len(simple) |->
           IF i % 2 = 1 THEN JEQ(simple[(i + 1) \div 2], 0, 1) ELSE RET("ALLOW")]
     \o <<RET("EPERM")>>
-----------------------------------------------------------------------------
Init ==
  /\ policy \in Policies
  /\ noDecoy \in BOOLEAN
  /\ step = "load"
  /\ decoyHost = <<>>
  /\ mounts = <<>>
  /\ prog = <<>>
  /\ call = NoCall
  /\ pc = 0
  /\ acc = "none"
  /\ verdict = "none"

LoadPolicy ==
  /\ step = "load"
  /\ step' = IF SyscallsOK(policy) /\ CheckSecretBinds(policy) THEN "decoys" ELSE "refused"
  /\ UNCHANGED <<jailVars, callVars>>

(* run.py: the decoy directories, made below its temporary directory or given by the policy. *)
Materialize ==
  /\ step = "decoys"
  /\ step' = "plan"
  /\ decoyHost' = IF noDecoy THEN <<>> ELSE
       [i \in DOMAIN policy.decoys |->
          LET d == policy.decoys[i]
          IN Bind(IF d.host = Runtime THEN <<"tmp", "decoy", ToString(d.dest)>> ELSE Resolve(d.host), d.dest)]
  /\ UNCHANGED <<policy, noDecoy, mounts, prog, callVars>>

MaterializeFails ==
  /\ step = "decoys"
  /\ ~noDecoy /\ policy.decoys # <<>>
  /\ step' = "refused"
  /\ UNCHANGED <<jailVars, callVars>>

MakePlan ==
  /\ step = "plan"
  /\ LET ms == BuildPlan(policy, decoyHost)
     IN IF FinalSecretScan(policy, ms, decoyHost)
        THEN step' = "exec" /\ mounts' = ms /\ prog' = CompileSeccomp(policy)
        ELSE step' = "refused" /\ UNCHANGED <<mounts, prog>>
  /\ UNCHANGED <<policy, noDecoy, decoyHost, callVars>>

(* The command makes a system call; the kernel runs the filter on it. *)
MakeCall ==
  /\ step \in {"exec", "decided"}
  /\ step' = "judge"
  /\ call' \in [arch : {"x86_64", "other"}, nr : Syscalls \cup {"unlisted"}, flags : SUBSET (NSFlags \cup OtherFlags)]
  /\ pc' = 1
  /\ acc' = "none"
  /\ verdict' = "none"
  /\ UNCHANGED jailVars

Field(f) == CASE f = "arch" -> call.arch [] f = "nr" -> call.nr [] f = "args0" -> call.flags

Jump(taken) == pc' = pc + 1 + (IF taken THEN prog[pc].jt ELSE prog[pc].jf)

RunFilter ==
  /\ step = "judge" /\ pc \in DOMAIN prog
  /\ LET i == prog[pc]
     IN \/ i.op = "LD" /\ acc' = Field(i.k) /\ pc' = pc + 1 /\ UNCHANGED <<step, verdict>>
        \/ i.op = "JEQ" /\ Jump(acc = i.k) /\ UNCHANGED <<step, acc, verdict>>
        \/ i.op = "JSET" /\ Jump(acc \cap NSFlags # {}) /\ UNCHANGED <<step, acc, verdict>>
        \/ i.op = "RET" /\ verdict' = i.k /\ step' = "decided" /\ UNCHANGED <<pc, acc>>
  /\ UNCHANGED <<jailVars, call>>

Next == LoadPolicy \/ Materialize \/ MaterializeFails \/ MakePlan \/ MakeCall \/ RunFilter

Spec == Init /\ [][Next]_vars
-----------------------------------------------------------------------------
(* seccomp.py, "Default action is ERRNO(EPERM). I3 names are never allowed. *)
(* clone() is allowed only when flags & CLONE_NS_MASK == 0": the program,   *)
(* with all its jumps, decides exactly that of every call, and never runs   *)
(* off its end.                                                             *)
Permitted ==
  /\ call.arch = "x86_64"
  /\ call.nr \in Elems(policy.allowed) \ I3
  /\ call.nr = "clone" => call.flags \cap NSFlags = {}

FilterMatchesPolicy ==
  /\ step = "judge" => pc \in DOMAIN prog
  /\ step = "decided" => verdict = IF Permitted THEN "ALLOW" ELSE "EPERM"

(* policy.py I2, "real secret paths are never bind sources; a decoy may     *)
(* occupy the dest": at the place of every decoy the command finds a decoy  *)
(* directory, whatever other binds, the workspace among them, lie over or   *)
(* below it.                                                                *)
Shows(path) ==
  LET over == {i \in DOMAIN mounts : mounts[i].flag = "bind" /\ Under(path, mounts[i].dest)}
  IN {mounts[i].src : i \in {j \in over : \A k \in over : k <= j}}

DecoyOnTop ==
  \A d \in Elems(decoyHost) : mounts # <<>> =>
    Shows(d.dest) # {} /\ Shows(d.dest) \subseteq {e.src : e \in Elems(decoyHost)}
=============================================================================
