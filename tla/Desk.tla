-------------------------------- MODULE Desk --------------------------------
(***************************************************************************)
(* The continuity desk (desk/store.go, desk/event.go, desk/server.go): an  *)
(* append-only event store.  Every accepted event goes to global.jsonl and *)
(* then to its world's own file; the in-memory state (seq, tip) is lost in *)
(* a crash and rebuilt by replaying global.jsonl.                          *)
(*                                                                         *)
(* Commit holds the store's mutex throughout, so commits and reads never   *)
(* interleave; it is still two steps here, because the process may die, or *)
(* a disk operation fail, between the two appends.                         *)
(*                                                                         *)
(* Abstractions.  A hash is the number of the commit attempt that computed *)
(* it: the hashed material holds the time, the world and the payload, and  *)
(* emitters do not retry, so attempts hash differently; nobody edits a     *)
(* line, so recomputing a hash never disagrees.  A payload is only the     *)
(* length of its line, which the scanners tell apart.                      *)
(***************************************************************************)
EXTENDS Naturals, Sequences

CONSTANTS
  Worlds,        \* world ids that emitters use
  Files,         \* file names under worlds/
  FileOf,        \* sanitizeID: [Worlds -> Files], not necessarily injective
  GlobalFaults,  \* how an append to global.jsonl may fail
  WorldFaults,   \* how an append to a world file may fail
  Sizes,         \* "short" lines, and "long" ones beyond the scanner's buffer
  CrashInCommit, \* may the process die between the two appends?
  MaxCommits,    \* bound on commit attempts
  NoEvent        \* no commit is between its two appends

Event ==
  [seq : Nat, world : Worlds, prev : Nat, hash : Nat, size : {"short", "long"}]

(***************************************************************************)
(* An append that returns an error has written nothing ("none"), a proper  *)
(* prefix ("cut"), all but the newline ("bare"), or the whole line, when   *)
(* only Sync fails ("sync").                                               *)
(***************************************************************************)
Faults == {"none", "cut", "bare", "sync"}

ASSUME DeskAssumption ==
  /\ FileOf \in [Worlds -> Files]
  /\ GlobalFaults \subseteq Faults
  /\ WorldFaults \subseteq Faults
  /\ Sizes \subseteq {"short", "long"}
  /\ CrashInCommit \in BOOLEAN
  /\ MaxCommits \in Nat
  /\ NoEvent \notin Event

VARIABLES
  up,       \* "up", "down", or "refused": replay failed, the desk will not start
  seq,      \* Store.seq
  tip,      \* Store.tip: last event hash per world
  global,   \* the lines of global.jsonl
  file,     \* the lines of each world file
  pending,  \* the event between its two appends, or NoEvent
  hashes,   \* commit attempts so far; the last hash computed
  acked,    \* history: hashes of the events Commit returned without error
  cursor,   \* per world, the cursor of an auditor paging through its events
  seen      \* per world, the hashes that auditor has been given

vars == <<up, seq, tip, global, file, pending, hashes, acked, cursor, seen>>

GenesisPrev == 0

(***************************************************************************)
(* A line is "whole" when it ends in a newline, "bare" or "cut" when it    *)
(* does not (it is then the file's last), and "junk" when two writes ran   *)
(* together.  The scanners of replay and ListWorld parse whole lines, and  *)
(* a bare one at the end, up to 4 MiB; anything else is an error.          *)
(***************************************************************************)
Line == [form : {"whole", "bare", "cut", "junk"}, ev : Event]
Unterminated == {"bare", "cut"}
Readable(f) == {i \in DOMAIN f : f[i].form \in {"whole", "bare"} /\ f[i].ev.size = "short"}
Scannable(f) == Readable(f) = DOMAIN f
Intact(f) == {i \in DOMAIN f : f[i].form = "whole"}

(***************************************************************************)
(* f.Write under O_APPEND: the bytes follow whatever the file ends with.   *)
(***************************************************************************)
WriteLine(f, l) ==
  IF f # <<>> /\ f[Len(f)].form \in Unterminated
  THEN [f EXCEPT ![Len(f)] =
          [form |-> IF l.form \in Unterminated THEN "cut" ELSE "junk", ev |-> l.ev]]
  ELSE Append(f, l)

(***************************************************************************)
(* What a failed append leaves in the file.                                *)
(***************************************************************************)
FailedAppend(f, l, fault) ==
  CASE fault = "none" -> f
    [] fault = "sync" -> WriteLine(f, l)
    [] fault = "cut"  -> WriteLine(f, [l EXCEPT !.form = "cut"])
    [] fault = "bare" -> WriteLine(f, [l EXCEPT !.form = "bare"])

(***************************************************************************)
(* ListWorld: an unscannable line or another world's event is an error,    *)
(* otherwise the events past the cursor in file order.                     *)
(***************************************************************************)
ListFails_NoOwnerCheck(w) == ~Scannable(file[FileOf[w]])

ListFails(w) ==
  LET f == file[FileOf[w]]
  IN ~Scannable(f) \/ \E i \in DOMAIN f : f[i].ev.world # w

ListWorld(w) ==
  LET f == file[FileOf[w]]
  IN {f[i].ev : i \in {j \in DOMAIN f : f[j].ev.seq > cursor[w]}}

(***************************************************************************)
(* VerifyChain, at line i: an event names its predecessor's hash.          *)
(***************************************************************************)
Linked(f, i) == f[i].ev.prev = IF i = 1 THEN GenesisPrev ELSE f[i - 1].ev.hash

(***************************************************************************)
(* replay: s is the largest sequence number in the log, t[w] the hash of   *)
(* the last event of w in it.                                              *)
(***************************************************************************)
ReplaySeq_Forgets(s) == s = 0

ReplaySeq(s) ==
  /\ \A i \in DOMAIN global : global[i].ev.seq <= s
  /\ s = 0 \/ \E i \in DOMAIN global : global[i].ev.seq = s

LastHash(w, h) ==
  \/ /\ h = GenesisPrev
     /\ \A i \in DOMAIN global : global[i].ev.world # w
  \/ \E i \in DOMAIN global :
       /\ global[i].ev.world = w
       /\ global[i].ev.hash = h
       /\ \A j \in DOMAIN global : j > i => global[j].ev.world # w

ReplayTip_Forgets(t) == \A w \in Worlds : t[w] = GenesisPrev

ReplayTip(t) == \A w \in Worlds : LastHash(w, t[w])
-----------------------------------------------------------------------------
Init ==
  /\ up = "up"
  /\ seq = 0
  /\ tip = [w \in Worlds |-> GenesisPrev]
  /\ global = <<>>
  /\ file = [f \in Files |-> <<>>]
  /\ pending = NoEvent
  /\ hashes = 0
  /\ acked = {}
  /\ cursor = [w \in Worlds |-> 0]
  /\ seen = [w \in Worlds |-> {}]

(***************************************************************************)
(* Commit up to the append to global.jsonl.  The event takes the next      *)
(* sequence number and the world's tip; if the append fails the number is  *)
(* given back and the commit is over.                                      *)
(***************************************************************************)
NewEvent(w, size) ==
  [seq |-> seq + 1, world |-> w, prev |-> tip[w], hash |-> hashes + 1, size |-> size]

Whole(ev) == [form |-> "whole", ev |-> ev]

CanCommit == up = "up" /\ pending = NoEvent /\ hashes < MaxCommits

CommitGlobal(w, size) ==
  /\ CanCommit
  /\ global' = WriteLine(global, Whole(NewEvent(w, size)))
  /\ seq' = seq + 1
  /\ pending' = NewEvent(w, size)
  /\ hashes' = hashes + 1
  /\ UNCHANGED <<up, tip, file, acked, cursor, seen>>

CommitGlobalFails(w, size, fault) ==
  /\ CanCommit
  /\ global' = FailedAppend(global, Whole(NewEvent(w, size)), fault)
  /\ hashes' = hashes + 1
  /\ UNCHANGED <<up, seq, tip, file, pending, acked, cursor, seen>>

(***************************************************************************)
(* The rest of Commit: the world file, then the tip.  If the append fails  *)
(* the event stays in global.jsonl and the tip is not moved.               *)
(***************************************************************************)
CommitWorld_NoTip ==
  /\ pending # NoEvent
  /\ file' = [file EXCEPT ![FileOf[pending.world]] = WriteLine(@, Whole(pending))]
  /\ acked' = acked \cup {pending.hash}
  /\ pending' = NoEvent
  /\ UNCHANGED <<up, seq, tip, global, hashes, cursor, seen>>

CommitWorld ==
  /\ pending # NoEvent
  /\ file' = [file EXCEPT ![FileOf[pending.world]] = WriteLine(@, Whole(pending))]
  /\ tip' = [tip EXCEPT ![pending.world] = pending.hash]
  /\ acked' = acked \cup {pending.hash}
  /\ pending' = NoEvent
  /\ UNCHANGED <<up, seq, global, hashes, cursor, seen>>

CommitWorldFails_RollsBack(fault) ==
  /\ pending # NoEvent
  /\ file' = [file EXCEPT ![FileOf[pending.world]] = FailedAppend(@, Whole(pending), fault)]
  /\ pending' = NoEvent
  /\ seq' = seq - 1
  /\ UNCHANGED <<up, tip, global, hashes, acked, cursor, seen>>

CommitWorldFails(fault) ==
  /\ pending # NoEvent
  /\ file' = [file EXCEPT ![FileOf[pending.world]] = FailedAppend(@, Whole(pending), fault)]
  /\ pending' = NoEvent
  /\ UNCHANGED <<up, seq, tip, global, hashes, acked, cursor, seen>>

(***************************************************************************)
(* The process dies; seq and tip were only in memory.                      *)
(***************************************************************************)
Crash ==
  /\ up = "up"
  /\ CrashInCommit \/ pending = NoEvent
  /\ up' = "down"
  /\ seq' = 0
  /\ tip' = [w \in Worlds |-> GenesisPrev]
  /\ pending' = NoEvent
  /\ UNCHANGED <<global, file, hashes, acked, cursor, seen>>

(***************************************************************************)
(* NewStore: replay global.jsonl, or refuse to start when it does not      *)
(* scan.                                                                   *)
(***************************************************************************)
NewStore ==
  /\ up = "down"
  /\ Scannable(global)
  /\ \E s \in 0 .. hashes, t \in [Worlds -> 0 .. hashes] :
       /\ ReplaySeq(s)
       /\ ReplayTip(t)
       /\ seq' = s
       /\ tip' = t
  /\ up' = "up"
  /\ UNCHANGED <<global, file, pending, hashes, acked, cursor, seen>>

NewStoreFails ==
  /\ up = "down"
  /\ ~Scannable(global)
  /\ up' = "refused"
  /\ UNCHANGED <<seq, tip, global, file, pending, hashes, acked, cursor, seen>>

(***************************************************************************)
(* An auditor asks for the events of w past the last sequence number it    *)
(* was given (GET /v1/events?world_id=w&cursor=n).  A failed call changes  *)
(* nothing.                                                                *)
(***************************************************************************)
Poll(w) ==
  /\ up = "up"
  /\ pending = NoEvent
  /\ ~ListFails(w)
  /\ ListWorld(w) # {}
  /\ seen' = [seen EXCEPT ![w] = @ \cup {e.hash : e \in ListWorld(w)}]
  /\ \E e \in ListWorld(w) :
       /\ \A d \in ListWorld(w) : d.seq <= e.seq
       /\ cursor' = [cursor EXCEPT ![w] = e.seq]
  /\ UNCHANGED <<up, seq, tip, global, file, pending, hashes, acked>>

Next ==
  \/ \E w \in Worlds, size \in Sizes :
       \/ CommitGlobal(w, size)
       \/ \E fault \in GlobalFaults : CommitGlobalFails(w, size, fault)
  \/ CommitWorld
  \/ \E fault \in WorldFaults : CommitWorldFails(fault)
  \/ Crash
  \/ NewStore
  \/ NewStoreFails
  \/ \E w \in Worlds : Poll(w)

Spec == Init /\ [][Next]_vars
-----------------------------------------------------------------------------
(* The type of the store's memory, of its files and of the auditor. *)
TypeOK ==
  /\ up \in {"up", "down", "refused"}
  /\ seq \in Nat
  /\ tip \in [Worlds -> Nat]
  /\ global \in Seq(Line)
  /\ file \in [Files -> Seq(Line)]
  /\ pending \in Event \cup {NoEvent}
  /\ hashes \in Nat
  /\ acked \subseteq Nat
  /\ cursor \in [Worlds -> Nat]
  /\ seen \in [Worlds -> SUBSET Nat]

(* store_test.go asks that the global sequence number differ from commit to *)
(* commit, and docs/prd.md 15.4 that it prove the order of ingest: in       *)
(* global.jsonl it strictly increases, through failed appends, crashes and  *)
(* replays.                                                                 *)
GlobalSeqStrict ==
  \A i, j \in Readable(global) : i < j => global[i].ev.seq < global[j].ev.seq

(* In global.jsonl every prev_hash is the genesis or the hash of an earlier *)
(* event of the same world: no link dangles.                                *)
LinksLeadBack ==
  \A i \in Intact(global) :
    \/ global[i].ev.prev = GenesisPrev
    \/ \E j \in Intact(global) :
         /\ j < i
         /\ global[j].ev.world = global[i].ev.world
         /\ global[j].ev.hash = global[i].ev.prev

(* An acknowledged event is never left out of its world's chain.  A world   *)
(* append that fails leaves the tip behind global.jsonl (store.go:146), so  *)
(* two events may name one predecessor; but no event reaches back over an   *)
(* acknowledged one: its prev_hash is that event's or a later one's, through*)
(* failed world appends, crashes between the appends and replays.           *)
AckedOnChain ==
  \A i, j \in Intact(global) :
    i < j /\ global[i].ev.world = global[j].ev.world /\ global[i].ev.hash \in acked =>
      \E k \in Intact(global) :
        /\ i <= k /\ k < j
        /\ global[k].ev.world = global[j].ev.world
        /\ global[k].ev.hash = global[j].ev.prev

(* Commit writes global.jsonl first: whatever a world file shows is in      *)
(* global.jsonl too.                                                        *)
WorldFilesInGlobal ==
  \A f \in Files : \A i \in Readable(file[f]) :
    \E j \in Readable(global) : global[j].ev = file[f][i].ev

(* What VerifyChain finds broken in a world's file is the trace of a commit *)
(* that was not acknowledged: a line either names its predecessor in the    *)
(* file, or global.jsonl holds an event of the world without an             *)
(* acknowledgement between the two, the predecessor included.               *)
Unacked(w) == {global[i].ev : i \in {j \in Intact(global) :
                 global[j].ev.world = w /\ global[j].ev.hash \notin acked}}

BreaksAreUnacked ==
  \A w \in Worlds : ~ListFails(w) =>
    LET f == file[FileOf[w]]
    IN \A i \in DOMAIN f :
         \/ Linked(f, i)
         \/ \E u \in Unacked(w) : u.seq < f[i].ev.seq /\ (i = 1 \/ f[i - 1].ev.seq <= u.seq)

(* An auditor that pages with the last sequence number it saw is never      *)
(* past an event of its world that it was not given.                        *)
AuditorMissesNothing ==
  \A w \in Worlds : \A i \in Readable(file[FileOf[w]]) :
    LET e == file[FileOf[w]][i].ev
    IN e.world = w /\ e.seq <= cursor[w] => e.hash \in seen[w]

(* store.go:169: "A caller cannot read another world", even when two ids    *)
(* sanitize to one file name.                                               *)
AuditorSeesOwnWorld ==
  \A w \in Worlds : \A i \in Readable(global) :
    global[i].ev.hash \in seen[w] => global[i].ev.world = w

(* store.go:13 and store.go:91: no overwrite path exists.  A step leaves    *)
(* every complete line of every file where it is.                           *)
Keeps(f, g) == \A i \in DOMAIN f : f[i].form = "whole" => i \in DOMAIN g /\ g[i] = f[i]

AppendOnly ==
  [][Keeps(global, global') /\ \A f \in Files : Keeps(file[f], file'[f])]_vars
-----------------------------------------------------------------------------
(* Every line of global.jsonl is complete and within the scanner's buffer. *)
GlobalWhole ==
  \A i \in DOMAIN global : global[i].form = "whole" /\ global[i].ev.size = "short"

(* While the desk is up its counter is not behind the log, and the event    *)
(* between its two appends is the log's last, ahead of every auditor.       *)
SeqCoversGlobal ==
  up = "up" => \A i \in DOMAIN global : global[i].ev.seq <= seq

PendingIsLast ==
  pending # NoEvent =>
    /\ up = "up"
    /\ global # <<>>
    /\ global[Len(global)].ev = pending
    /\ \A w \in Worlds : cursor[w] < pending.seq

(* What the desk's memory and the auditors refer to is in the log.          *)
TipInGlobal ==
  \A w \in Worlds :
    \/ tip[w] = GenesisPrev
    \/ \E i \in DOMAIN global : global[i].ev.world = w /\ global[i].ev.hash = tip[w]

CursorInGlobal ==
  \A w \in Worlds : cursor[w] = 0 \/ \E i \in DOMAIN global : global[i].ev.seq = cursor[w]

(* The inductive invariant behind the safety theorems, for a desk whose     *)
(* failed appends to global.jsonl leave nothing behind: replay then rebuilds*)
(* a counter and tips that no crash between the two appends can make stale. *)
DeskInv ==
  /\ TypeOK
  /\ GlobalWhole
  /\ SeqCoversGlobal
  /\ PendingIsLast
  /\ TipInGlobal
  /\ CursorInGlobal
  /\ GlobalSeqStrict
  /\ LinksLeadBack
  /\ WorldFilesInGlobal
  /\ AuditorMissesNothing
=============================================================================
