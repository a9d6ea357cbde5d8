----------------------------- MODULE ProxyProofs -----------------------------
(***************************************************************************)
(* Proofs about Proxy, for any hosts, any allowlist, any number of chunks  *)
(* and any window: ProxyInv is an invariant, so the host dialled is the    *)
(* one judged where hostOf reads the request as net/http does, and the     *)
(* tunnel alters and reorders nothing.                                     *)
(***************************************************************************)
EXTENDS Proxy, TLAPS

(* A connection is asked for only after the host was found in the list. *)
JudgedFirst ==
  /\ step = "dial" => req.method = "CONNECT" /\ JudgedHost(req) \in Allow
  /\ step = "roundtrip" => req.method # "CONNECT" /\ JudgedHost(req) \in Allow

(* When the sockets are open and who copies. *)
Phases ==
  /\ step \in {"serve", "dial"} => sock["back"] = "none" /\ sock["client"] = "open"
  /\ step \in {"serve", "dial", "hijack"} => \A d \in Dirs : copy[d] = "no"
  /\ step = "hijack" => \A s \in Sides : sock[s] = "open"
  /\ \A d \in Dirs : first = "none" /\ copy[d] = "running" => \A s \in Sides : sock[s] = "open"
  /\ \A d \in Dirs : first = "none" => copy[d] # "ended"
  /\ \A d \in Dirs : first = d => copy[d] = "ended"

(* Chunks of direction d that have left in[d] and were not dropped. *)
Taken(d) == Len(got[d]) + Len(out[d]) + IF hold[d] = 0 THEN 0 ELSE 1

(* What waits to be read is the last that was sent, what waits for the      *)
(* destination follows what it has, and while a write can succeed the chunk *)
(* between the two is the next one.                                         *)
InOrder ==
  \A d \in Dirs :
    /\ \A i \in DOMAIN got[d] : got[d][i] = i
    /\ \A i \in DOMAIN out[d] : out[d][i] = Len(got[d]) + i
    /\ \A i \in DOMAIN in[d] : in[d][i] + Len(in[d]) = sent[d] + i
    /\ hold[d] # 0 /\ sock[Dst[d]] # "closed" => hold[d] = Len(got[d]) + Len(out[d]) + 1

(* Nothing is made up; nothing is lost while the copy has both its sockets. *)
Balance ==
  \A d \in Dirs :
    /\ Taken(d) + Len(in[d]) <= sent[d]
    /\ copy[d] # "ended" /\ sock[Src[d]] # "closed" /\ sock[Dst[d]] # "closed"
         => Taken(d) + Len(in[d]) = sent[d]

(* The direction that ended first has taken all its source will ever send.  *)
FirstIsDone ==
  \A d \in Dirs :
    first = d /\ end[Src[d]] # "gone" /\ end[Dst[d]] # "gone" /\ ~reset[d]
      => end[Src[d]] # "open" /\ Len(got[d]) + Len(out[d]) = sent[d]

(* The inductive invariant behind JudgedIsDialled and StreamsIntact. *)
ProxyInv ==
  /\ TypeOK
  /\ JudgedFirst
  /\ JudgedIsDialled
  /\ Phases
  /\ InOrder
  /\ Balance
  /\ FirstIsDone
-----------------------------------------------------------------------------

(* The two directions join the two sockets, one each way. *)
LEMMA DirFacts ==
  /\ \A d \in Dirs : Src[d] \in Sides /\ Dst[d] \in Sides /\ Other[d] \in Dirs
  /\ \A d \in Dirs : Src[d] = "back" \/ Dst[d] = "back"
BY DEF Dirs, Sides, Src, Dst, Other

(* Arithmetic used on the lengths of the queues. *)
LEMMA Numbers ==
  \A x, y \in Nat : (x + 1) + (y - 1) = x + y /\ x + (y + 1) = x + y + 1
OBVIOUS

(* Reading from and adding to a queue of chunks. *)
LEMMA QueueFacts ==
  ASSUME NEW q \in Seq(Nat)
  PROVE  /\ Len(q) \in Nat /\ DOMAIN q = 1 .. Len(q)
         /\ q # <<>> => /\ Head(q) \in Nat /\ Head(q) = q[1] /\ Len(q) > 0
                        /\ Tail(q) \in Seq(Nat) /\ Len(Tail(q)) = Len(q) - 1
                        /\ DOMAIN Tail(q) = 1 .. Len(q) - 1
                        /\ \A i \in 1 .. Len(q) - 1 : Tail(q)[i] = q[i + 1]
         /\ \A c \in Nat : /\ Append(q, c) \in Seq(Nat) /\ Len(Append(q, c)) = Len(q) + 1
                           /\ DOMAIN Append(q, c) = 1 .. Len(q) + 1
                           /\ \A i \in 1 .. Len(q) : Append(q, c)[i] = q[i]
                           /\ Append(q, c)[Len(q) + 1] = c
         /\ \A n \in 0 .. Len(q) : /\ SubSeq(q, 1, n) \in Seq(Nat) /\ Len(SubSeq(q, 1, n)) = n
                                   /\ DOMAIN SubSeq(q, 1, n) = 1 .. n
                                   /\ \A i \in 1 .. n : SubSeq(q, 1, n)[i] = q[i]
<1>1. Len(q) \in Nat /\ DOMAIN q = 1 .. Len(q)
  OBVIOUS
<1>2. ASSUME q # <<>>
      PROVE  /\ Head(q) \in Nat /\ Head(q) = q[1] /\ Len(q) > 0
             /\ Tail(q) \in Seq(Nat) /\ Len(Tail(q)) = Len(q) - 1
             /\ DOMAIN Tail(q) = 1 .. Len(q) - 1
             /\ \A i \in 1 .. Len(q) - 1 : Tail(q)[i] = q[i + 1]
  BY <1>2
<1>3. ASSUME NEW c \in Nat
      PROVE  /\ Append(q, c) \in Seq(Nat) /\ Len(Append(q, c)) = Len(q) + 1
             /\ DOMAIN Append(q, c) = 1 .. Len(q) + 1
             /\ \A i \in 1 .. Len(q) : Append(q, c)[i] = q[i]
             /\ Append(q, c)[Len(q) + 1] = c
  OBVIOUS
<1>4. ASSUME NEW n \in 0 .. Len(q)
      PROVE  /\ SubSeq(q, 1, n) \in Seq(Nat) /\ Len(SubSeq(q, 1, n)) = n
             /\ DOMAIN SubSeq(q, 1, n) = 1 .. n
             /\ \A i \in 1 .. n : SubSeq(q, 1, n)[i] = q[i]
  OBVIOUS
<1> QED BY <1>1, <1>2, <1>3, <1>4

(* Closing sockets after a copy cuts out[c] only where it resets. *)
LEMMA CloseEffect ==
  ASSUME TypeOK, NEW d \in Dirs, NEW S \in SUBSET Sides, CloseAfter(d, S)
  PROVE  /\ out' \in [Dirs -> Seq(Nat)]
         /\ \A c \in Dirs : /\ Len(out'[c]) <= Len(out[c])
                            /\ \A i \in DOMAIN out'[c] : i \in DOMAIN out[c] /\ out'[c][i] = out[c][i]
                            /\ Dst[c] \notin S \/ ~reset'[c] => out'[c] = out[c]
<1>1. PICK n \in [Dirs -> 0 .. Window] :
        /\ \A c \in Dirs : n[c] \in IF Reset(c, S) THEN 0 .. Len(out[c]) ELSE {Len(out[c])}
        /\ out' = [c \in Dirs |-> SubSeq(out[c], 1, n[c])]
  BY DEF CloseAfter
<1>2. \A c \in Dirs : out[c] \in Seq(Nat) /\ Len(out[c]) \in Nat
  BY DEF TypeOK
<1>3. \A c \in Dirs : n[c] \in 0 .. Len(out[c])
  BY <1>1, <1>2
<1>4. ASSUME NEW c \in Dirs
      PROVE  /\ out'[c] \in Seq(Nat) /\ Len(out'[c]) <= Len(out[c])
             /\ \A i \in DOMAIN out'[c] : i \in DOMAIN out[c] /\ out'[c][i] = out[c][i]
  <2>1. out'[c] = SubSeq(out[c], 1, n[c])
    BY <1>1
  <2> QED BY <2>1, <1>2, <1>3, QueueFacts
<1>5. ASSUME NEW c \in Dirs, Dst[c] \notin S \/ ~reset'[c]
      PROVE  out'[c] = out[c]
  <2>1. ~Reset(c, S)
    BY <1>5 DEF CloseAfter, Reset
  <2>2. n[c] = Len(out[c]) /\ out'[c] = SubSeq(out[c], 1, n[c])
    BY <1>1, <2>1
  <2> QED BY <2>2, <1>2
<1> QED BY <1>1, <1>4, <1>5
-----------------------------------------------------------------------------
LEMMA InitInv ==
  ASSUME Init
  PROVE  ProxyInv
<1>1. TypeOK
  BY ProxyAssumption DEF Init, TypeOK, Dirs, Sides
<1>2. JudgedFirst /\ JudgedIsDialled /\ Phases
  BY DEF Init, JudgedFirst, JudgedIsDialled, Phases, Dirs
<1>3. InOrder /\ Balance /\ FirstIsDone
  BY DEF Init, InOrder, Balance, FirstIsDone, Taken, Dirs
<1> QED BY <1>1, <1>2, <1>3 DEF ProxyInv

LEMMA TypeStep ==
  ASSUME TypeOK, [Next]_vars
  PROVE  TypeOK'
<1>1. CASE Proceed
  BY <1>1 DEF TypeOK, Proceed, ServeHTTP, RoundTrip, Dial, Hijack, HijackFails, streamVars,
     Request, Target, RHost, Dirs, Sides
<1>2. ASSUME NEW d \in Dirs, CopyReads(d)
      PROVE  TypeOK'
  <2>1. Head(in[d]) \in Nat /\ Tail(in[d]) \in Seq(Nat)
    BY <1>2, QueueFacts DEF TypeOK, CopyReads
  <2> QED BY <1>2, <2>1 DEF TypeOK, CopyReads
<1>3. ASSUME NEW d \in Dirs, CopyWrites(d)
      PROVE  TypeOK'
  <2>1. Append(out[d], hold[d]) \in Seq(Nat)
    BY <1>3 DEF TypeOK
  <2> QED BY <1>3, <2>1 DEF TypeOK, CopyWrites
<1>4. ASSUME NEW d \in Dirs, Send(d)
      PROVE  TypeOK'
  <2>1. Append(in[d], sent[d] + 1) \in Seq(Nat) /\ sent[d] + 1 \in Nat
    BY <1>4 DEF TypeOK
  <2> QED BY <1>4, <2>1 DEF TypeOK, Send
<1>5. ASSUME NEW d \in Dirs, Receive(d)
      PROVE  TypeOK'
  <2>1. Append(got[d], Head(out[d])) \in Seq(Nat) /\ Tail(out[d]) \in Seq(Nat)
    BY <1>5, QueueFacts DEF TypeOK, Receive
  <2> QED BY <1>5, <2>1 DEF TypeOK, Receive
<1>6. ASSUME NEW d \in Dirs, NEW S \in SUBSET Sides, CloseAfter(d, S),
             step' \in {step, "answered"}
      PROVE  TypeOK'
  <2>1. out' \in [Dirs -> Seq(Nat)]
    BY <1>6, CloseEffect
  <2>2. in' \in [Dirs -> Seq(Nat)]
    BY <1>6 DEF TypeOK, CloseAfter
  <2>3. reset' \in [Dirs -> BOOLEAN]
    BY <1>6 DEF TypeOK, CloseAfter, Reset
  <2>4. sock' \in [Sides -> {"none", "open", "closed"}]
    BY <1>6 DEF TypeOK, CloseAfter
  <2>5. first' \in Dirs \cup {"none"} /\ copy' \in [Dirs -> {"no", "running", "ended"}]
        /\ hold' \in [Dirs -> Nat]
    BY <1>6 DEF TypeOK, CloseAfter
  <2> QED BY <1>6, <2>1, <2>2, <2>3, <2>4, <2>5 DEF TypeOK, CloseAfter
<1>7. CASE UpEnds \/ DownEnds
  BY <1>6, <1>7 DEF UpEnds, DownEnds, Dirs, Sides
<1>8. ASSUME NEW s \in Sides, Leave(s)
      PROVE  TypeOK'
  BY <1>8 DEF TypeOK, Leave
<1>9. CASE UNCHANGED vars
  BY <1>9 DEF TypeOK, vars, streamVars
<1> QED BY <1>1, <1>2, <1>3, <1>4, <1>5, <1>7, <1>8, <1>9 DEF Next

(***************************************************************************)
(* What passes the allowlist is one of its entries, or an address when it  *)
(* has an address.                                                         *)
(***************************************************************************)
LEMMA CutAllowed ==
  ASSUME NEW h \in Hosts, Cut(h) \in Allow
  PROVE  h \in EgressAllow \/ (h \in Addrs /\ Addrs \cap EgressAllow # {})
<1>1. PICK g \in EgressAllow : Cut(g) = Cut(h)
  BY DEF Allow
<1> QED BY <1>1, ProxyAssumption DEF Cut, Hosts

(***************************************************************************)
(* The host that is dialled is the one that was judged: a CONNECT dials    *)
(* RHost, which is what JudgedHost cuts when the target is only a host and *)
(* a port, and another request goes to its target, which is RHost when     *)
(* there is one.                                                           *)
(***************************************************************************)
LEMMA JudgedStep ==
  ASSUME TypeOK, JudgedFirst, JudgedIsDialled, [Next]_vars
  PROVE  JudgedFirst' /\ JudgedIsDialled'
<1>r. /\ req.target \in Target /\ req.header \in Hosts /\ req.method \in {"CONNECT", "GET"}
      /\ req.target.host # NoHost => req.target.host \in Hosts
      /\ req.target.host = NoHost => req.target.extra = NoHost
  BY ProxyAssumption DEF TypeOK, Request, Target, Hosts
<1>s. req' = req
  BY DEF Next, Proceed, ServeHTTP, RoundTrip, Dial, Hijack, HijackFails, CopyReads, CopyWrites, Send,
     Receive, UpEnds, DownEnds, CloseAfter, Leave, vars
<1>1. CASE ServeHTTP
  BY <1>1, <1>r DEF ServeHTTP, JudgedFirst, JudgedIsDialled
<1>2. CASE RoundTrip
  <2>1. Cut(RHost(req)) \in Allow /\ dialled' \in {req.target.host, NoHost} /\ step' = "answered"
    BY <1>2 DEF RoundTrip, JudgedFirst, JudgedHost
  <2>2. dialled' # NoHost => dialled' \in Hosts /\ Cut(dialled') \in Allow
    BY <1>r, <2>1 DEF RHost
  <2> QED BY <2>1, <2>2, CutAllowed DEF JudgedFirst, JudgedIsDialled
<1>3. CASE Dial
  <2>1. CASE UNCHANGED dialled
    BY <1>3, <2>1, <1>s DEF Dial, JudgedFirst, JudgedIsDialled
  <2>2. CASE dialled' = RHost(req) /\ step' = "hijack"
    <3>1. req.target.extra = NoHost => RHost(req) \in Hosts /\ Cut(RHost(req)) \in Allow
      <4>1. JudgedHost(req) \in Allow
        BY <1>3 DEF Dial, JudgedFirst
      <4>2. RHost(req) \in Hosts
        BY <1>r DEF RHost
      <4>3. CASE req.target.host = NoHost
        <5>1. req.target.extra = NoHost /\ Cut(NoHost) = NoHost
          BY <1>r, <4>3, ProxyAssumption DEF Cut
        <5>2. HostOfURI(req.target) = NoHost
          BY <4>3, <5>1 DEF HostOfURI
        <5> QED BY <4>1, <4>2, <5>2 DEF JudgedHost
      <4>4. CASE req.target.host # NoHost /\ req.target.extra = NoHost
        <5>1. HostOfURI(req.target) = Cut(RHost(req))
          BY <4>4 DEF HostOfURI, RHost
        <5> QED BY <4>1, <4>2, <5>1 DEF JudgedHost
      <4> QED BY <4>3, <4>4
    <3>2. req.method = "CONNECT"
      BY <1>3 DEF Dial, JudgedFirst
    <3> QED BY <1>s, <2>2, <3>1, <3>2, CutAllowed DEF JudgedFirst, JudgedIsDialled
  <2> QED BY <1>3, <2>1, <2>2 DEF Dial
<1>4. CASE UNCHANGED dialled /\ (step' = step \/ step' \in {"tunnel", "answered"})
  BY <1>4, <1>s DEF JudgedFirst, JudgedIsDialled, JudgedHost, HostOfURI, RHost, Cut, Allow
<1>5. CASE Hijack \/ HijackFails
  BY <1>4, <1>5 DEF Hijack, HijackFails
<1>6. CASE UpEnds \/ DownEnds
  BY <1>4, <1>6 DEF UpEnds, DownEnds, CloseAfter
<1>7. ASSUME NEW d \in Dirs, CopyReads(d) \/ CopyWrites(d) \/ Send(d) \/ Receive(d)
      PROVE  JudgedFirst' /\ JudgedIsDialled'
  BY <1>4, <1>7 DEF CopyReads, CopyWrites, Send, Receive
<1>8. ASSUME NEW s \in Sides, Leave(s)
      PROVE  JudgedFirst' /\ JudgedIsDialled'
  BY <1>4, <1>8 DEF Leave
<1>9. CASE UNCHANGED vars
  BY <1>4, <1>9 DEF vars
<1> QED BY <1>1, <1>2, <1>3, <1>5, <1>6, <1>7, <1>8, <1>9 DEF Next, Proceed

LEMMA PhasesStep ==
  ASSUME TypeOK, Phases, [Next]_vars
  PROVE  Phases'
<1>1. CASE ServeHTTP
  BY <1>1 DEF ServeHTTP, Phases, streamVars
<1>2. CASE RoundTrip
  BY <1>2 DEF RoundTrip, Phases, streamVars
<1>3. CASE Dial
  <2>1. copy' = copy /\ first' = first /\ sock'["client"] = sock["client"] /\ step' \in {"hijack", "answered"}
    BY <1>3 DEF Dial, TypeOK, Sides
  <2>2. \A d \in Dirs : copy[d] = "no"
    BY <1>3 DEF Dial, Phases
  <2>3. step' = "hijack" => \A s \in Sides : sock'[s] = "open"
    BY <1>3 DEF Dial, TypeOK, Phases, Sides
  <2> QED BY <2>1, <2>2, <2>3 DEF Phases
<1>4. CASE Hijack
  BY <1>4 DEF Hijack, Phases, TypeOK, Dirs, Sides
<1>5. CASE HijackFails
  BY <1>5 DEF HijackFails, Phases, TypeOK, Dirs, Sides
<1>6. CASE UpEnds
  <2>1. copy["up"] = "running" /\ copy' = [copy EXCEPT !["up"] = "ended"] /\ step' = step
        /\ first' = (IF first = "none" THEN "up" ELSE first) /\ "up" \in Dirs
    BY <1>6 DEF UpEnds, CopyOver, CloseAfter, Dirs
  <2>2. step \notin {"serve", "dial", "hijack"}
    BY <2>1 DEF Phases
  <2> QED BY <2>1, <2>2 DEF Phases, TypeOK, Dirs
<1>7. CASE DownEnds
  <2>1. copy["down"] = "running" /\ copy' = [copy EXCEPT !["down"] = "ended"]
        /\ step' = "answered"
        /\ first' = (IF first = "none" THEN "down" ELSE first) /\ "down" \in Dirs
    BY <1>7 DEF DownEnds, CopyOver, CloseAfter, Dirs
  <2> QED BY <2>1 DEF Phases, TypeOK, Dirs
<1>8. ASSUME NEW d \in Dirs, CopyReads(d) \/ CopyWrites(d) \/ Send(d) \/ Receive(d)
      PROVE  Phases'
  BY <1>8 DEF CopyReads, CopyWrites, Send, Receive, Phases
<1>9. ASSUME NEW s \in Sides, Leave(s)
      PROVE  Phases'
  BY <1>9 DEF Leave, Phases
<1>10. CASE UNCHANGED vars
  BY <1>10 DEF vars, streamVars, Phases
<1> QED BY <1>1, <1>2, <1>3, <1>4, <1>5, <1>6, <1>7, <1>8, <1>9, <1>10 DEF Next, Proceed
-----------------------------------------------------------------------------
(***************************************************************************)
(* What moves chunks and what does not.  Before the tunnel nothing does,   *)
(* and no socket that was closed opens again.                              *)
(***************************************************************************)
LEMMA QuietSteps ==
  ASSUME TypeOK, Phases,
         Proceed \/ (\E s \in Sides : Leave(s)) \/ UNCHANGED vars
  PROVE  /\ UNCHANGED <<in, out, hold, sent, got, first, reset>>
         /\ \A s \in Sides : sock'[s] # "closed" => sock[s] # "closed"
         /\ \A d \in Dirs : copy'[d] # "ended" => copy[d] # "ended"
         /\ \A s \in Sides : end'[s] # "gone" => end[s] # "gone"
         /\ \A s \in Sides : end[s] # "open" => end'[s] # "open"
<1>1. CASE ServeHTTP \/ RoundTrip \/ UNCHANGED vars
  BY <1>1 DEF ServeHTTP, RoundTrip, vars, streamVars
<1>2. CASE Dial
  BY <1>2 DEF Dial, Phases, TypeOK, Sides
<1>3. CASE Hijack
  BY <1>3 DEF Hijack, Phases, TypeOK
<1>4. CASE HijackFails
  BY <1>4 DEF HijackFails, Phases, TypeOK, Sides
<1>5. ASSUME NEW s \in Sides, Leave(s)
      PROVE  /\ UNCHANGED <<in, out, hold, sent, got, first, reset, sock, copy>>
             /\ \A r \in Sides : end'[r] # "gone" => end[r] # "gone"
             /\ \A r \in Sides : end[r] # "open" => end'[r] # "open"
  BY <1>5 DEF Leave, TypeOK
<1> QED BY <1>1, <1>2, <1>3, <1>4, <1>5 DEF Proceed

(* Both ends of the tunnel leave no direction with two open sockets. *)
LEMMA EndSteps ==
  ASSUME TypeOK, UpEnds \/ DownEnds
  PROVE  \E d \in Dirs, S \in SUBSET Sides :
           CopyOver(d) /\ CloseAfter(d, S) /\ "back" \in S
BY DEF UpEnds, DownEnds, Dirs, Sides

LEMMA OrderStep ==
  ASSUME TypeOK, Phases, InOrder, Balance, [Next]_vars, TypeOK'
  PROVE  InOrder'
<1>t. \A d \in Dirs : /\ in[d] \in Seq(Nat) /\ out[d] \in Seq(Nat) /\ got[d] \in Seq(Nat)
                      /\ hold[d] \in Nat /\ sent[d] \in Nat
  BY DEF TypeOK
<1>d. \A d \in Dirs : /\ DOMAIN in[d] = 1 .. Len(in[d]) /\ DOMAIN out[d] = 1 .. Len(out[d])
                      /\ DOMAIN got[d] = 1 .. Len(got[d])
  BY <1>t, QueueFacts
<1> DEFINE Good(d) ==
      /\ \A i \in DOMAIN got[d] : got[d][i] = i
      /\ \A i \in DOMAIN out[d] : out[d][i] = Len(got[d]) + i
      /\ \A i \in DOMAIN in[d] : in[d][i] + Len(in[d]) = sent[d] + i
      /\ hold[d] # 0 /\ sock[Dst[d]] # "closed" => hold[d] = Len(got[d]) + Len(out[d]) + 1
<1>g. \A d \in Dirs : Good(d)
  BY DEF InOrder
<1>p. SUFFICES ASSUME NEW c \in Dirs PROVE Good(c)'
  BY DEF InOrder
<1>n. /\ Len(in[c]) \in Nat /\ Len(out[c]) \in Nat /\ Len(got[c]) \in Nat
      /\ hold[c] \in Nat /\ sent[c] \in Nat
      /\ \A i \in 1 .. Len(in[c]) : in[c][i] \in Nat
  <2>1. Len(in[c]) \in Nat /\ Len(out[c]) \in Nat /\ Len(got[c]) \in Nat
    BY <1>t, QueueFacts
  <2>2. \A i \in 1 .. Len(in[c]) : in[c][i] \in Nat
    BY <1>t, <1>d
  <2> QED BY <2>1, <2>2, <1>t
<1>b. copy[c] # "ended" /\ sock[Src[c]] # "closed" /\ sock[Dst[c]] # "closed" /\ hold[c] = 0
        => Len(got[c]) + Len(out[c]) + 0 + Len(in[c]) = sent[c]
  BY DEF Balance, Taken
<1>e. /\ \A i \in 1 .. Len(got[c]) : got[c][i] = i
      /\ \A i \in 1 .. Len(out[c]) : out[c][i] = Len(got[c]) + i
      /\ \A i \in 1 .. Len(in[c]) : in[c][i] + Len(in[c]) = sent[c] + i
  BY <1>g, <1>d
<1>1. CASE Proceed \/ (\E s \in Sides : Leave(s)) \/ UNCHANGED vars
  BY <1>1, <1>g, QuietSteps, DirFacts
<1>2. ASSUME NEW d \in Dirs, CopyReads(d)
      PROVE  Good(c)'
  <2>1. CASE d = c
    <3>1. in'[c] = Tail(in[c]) /\ hold'[c] = Head(in[c]) /\ in[c] # <<>>
          /\ UNCHANGED <<out, got, sent, sock>>
      BY <1>2, <2>1 DEF CopyReads, TypeOK
    <3>2. Head(in[c]) = in[c][1] /\ Len(in[c]) > 0 /\ Len(Tail(in[c])) = Len(in[c]) - 1
          /\ DOMAIN Tail(in[c]) = 1 .. Len(in[c]) - 1
          /\ \A i \in 1 .. Len(in[c]) - 1 : Tail(in[c])[i] = in[c][i + 1]
      BY <3>1, <1>t, QueueFacts
    <3>3. in[c][1] + Len(in[c]) = sent[c] + 1
      BY <1>e, <1>n, <3>2
    <3>4. sock[Dst[c]] # "closed" => Len(got[c]) + Len(out[c]) + 0 + Len(in[c]) = sent[c]
      <4>1. copy[c] # "ended" /\ sock[Src[c]] # "closed" /\ hold[c] = 0
        BY <1>2, <2>1 DEF CopyReads
      <4> QED BY <4>1, <1>b
    <3>5. in[c][1] \in Nat
      BY <1>n, <3>2
    <3>6. sock[Dst[c]] # "closed" => hold'[c] = Len(got[c]) + Len(out[c]) + 1
      <4>1. hold'[c] = in[c][1]
        BY <3>1, <3>2
      <4>2. Len(in[c]) \in Nat /\ Len(out[c]) \in Nat /\ Len(got[c]) \in Nat /\ sent[c] \in Nat
        BY <1>n
      <4>3. ASSUME sock[Dst[c]] # "closed"
            PROVE  in[c][1] = Len(got[c]) + Len(out[c]) + 1
        <5>1. Len(got[c]) + Len(out[c]) + 0 + Len(in[c]) = sent[c]
          BY <4>3, <3>4
        <5> DEFINE x == Len(got[c])
                   y == Len(out[c])
                   z == Len(in[c])
                   h == in[c][1]
                   n == sent[c]
        <5>2. x \in Nat /\ y \in Nat /\ z \in Nat /\ h \in Nat /\ n \in Nat
              /\ x + y + 0 + z = n /\ h + z = n + 1
          BY <5>1, <3>3, <3>5, <4>2, Zenon
        <5>3. h = x + y + 1
          <6> HIDE DEF x, y, z, h, n
          <6> QED BY <5>2
        <5> QED BY <5>3
      <4> QED BY <4>1, <4>3
    <3>7. \A i \in DOMAIN in'[c] : in'[c][i] + Len(in'[c]) = sent[c] + i
      <4> TAKE i \in DOMAIN in'[c]
      <4>1. i \in 1 .. Len(in[c]) - 1 /\ in'[c][i] = in[c][i + 1] /\ Len(in'[c]) = Len(in[c]) - 1
        BY <3>1, <3>2
      <4>4. i \in Nat
        BY <4>1, <1>n
      <4>2. i + 1 \in 1 .. Len(in[c]) /\ in[c][i + 1] \in Nat
        BY <4>1, <1>n
      <4>3. in[c][i + 1] + Len(in[c]) = sent[c] + (i + 1)
        BY <4>2, <1>e
      <4> DEFINE n == Len(in[c])
                 x == in[c][i + 1]
      <4>5. x + (n - 1) = sent[c] + i
        <5>1. x \in Nat /\ n \in Nat /\ x + n = sent[c] + (i + 1) /\ sent[c] \in Nat
          BY <4>2, <4>3, <1>n
        <5> HIDE DEF x, n
        <5> QED BY <5>1, <4>4
      <4> QED BY <4>1, <4>5
    <3> QED BY <3>1, <3>6, <3>7, <1>g
  <2>2. CASE d # c
    BY <1>2, <2>2, <1>g DEF CopyReads, TypeOK
  <2> QED BY <2>1, <2>2
<1>3. ASSUME NEW d \in Dirs, CopyWrites(d)
      PROVE  Good(c)'
  <2>1. CASE d = c
    <3>1. out'[c] = Append(out[c], hold[c]) /\ hold'[c] = 0
          /\ UNCHANGED <<in, got, sent, sock>> /\ hold[c] # 0 /\ sock[Dst[c]] = "open"
      BY <1>3, <2>1 DEF CopyWrites, TypeOK
    <3>2. hold[c] = Len(got[c]) + Len(out[c]) + 1
      BY <3>1, <1>g
    <3>3. DOMAIN out'[c] = 1 .. Len(out[c]) + 1 /\ out'[c][Len(out[c]) + 1] = hold[c]
          /\ \A i \in 1 .. Len(out[c]) : out'[c][i] = out[c][i]
      BY <3>1, <1>t, QueueFacts
    <3>4. \A i \in DOMAIN out'[c] : out'[c][i] = Len(got[c]) + i
      <4> TAKE i \in DOMAIN out'[c]
      <4>1. CASE i = Len(out[c]) + 1
        <5>1. out'[c][i] = hold[c]
          BY <4>1, <3>3
        <5>2. hold[c] = Len(got[c]) + Len(out[c]) + 1 /\ Len(out[c]) \in Nat /\ Len(got[c]) \in Nat
          BY <3>2, <1>n
        <5> QED BY <5>1, <5>2, <4>1, Numbers
      <4>2. CASE i \in 1 .. Len(out[c])
        BY <4>2, <3>3, <1>e
      <4> QED BY <4>1, <4>2, <3>3, <1>n
    <3> QED BY <3>1, <3>4, <1>g
  <2>2. CASE d # c
    BY <1>3, <2>2, <1>g DEF CopyWrites, TypeOK
  <2> QED BY <2>1, <2>2
<1>4. ASSUME NEW d \in Dirs, Send(d)
      PROVE  Good(c)'
  <2>1. CASE d = c
    <3>1. in'[c] = Append(in[c], sent[c] + 1) /\ sent'[c] = sent[c] + 1
          /\ UNCHANGED <<out, hold, got, sock>>
      BY <1>4, <2>1 DEF Send, TypeOK
    <3>2. DOMAIN in'[c] = 1 .. Len(in[c]) + 1 /\ in'[c][Len(in[c]) + 1] = sent[c] + 1
          /\ Len(in'[c]) = Len(in[c]) + 1
          /\ \A i \in 1 .. Len(in[c]) : in'[c][i] = in[c][i]
      BY <3>1, <1>t, QueueFacts
    <3>3. \A i \in DOMAIN in'[c] : in'[c][i] + Len(in'[c]) = sent'[c] + i
      <4> TAKE i \in DOMAIN in'[c]
      <4>1. CASE i = Len(in[c]) + 1
        BY <4>1, <3>1, <3>2, <1>n
      <4>2. CASE i \in 1 .. Len(in[c])
        <5>1. in[c][i] + Len(in[c]) = sent[c] + i /\ in[c][i] \in Nat /\ in'[c][i] = in[c][i]
          BY <4>2, <1>e, <1>n, <3>2
        <5>2. i \in Nat
          BY <4>2
        <5> DEFINE n == Len(in[c])
                   x == in[c][i]
        <5>3. x + (n + 1) = (sent[c] + 1) + i
          <6>1. x \in Nat /\ n \in Nat /\ x + n = sent[c] + i /\ sent[c] \in Nat
            BY <5>1, <1>n
          <6> HIDE DEF x, n
          <6> QED BY <6>1, <5>2
        <5> QED BY <5>1, <5>3, <3>1, <3>2
      <4> QED BY <4>1, <4>2, <3>2, <1>n
    <3> QED BY <3>1, <3>3, <1>g
  <2>2. CASE d # c
    BY <1>4, <2>2, <1>g DEF Send, TypeOK
  <2> QED BY <2>1, <2>2
<1>5. ASSUME NEW d \in Dirs, Receive(d)
      PROVE  Good(c)'
  <2>1. CASE d = c
    <3>1. got'[c] = Append(got[c], Head(out[c])) /\ out'[c] = Tail(out[c]) /\ out[c] # <<>>
          /\ UNCHANGED <<in, hold, sent, sock>>
      BY <1>5, <2>1 DEF Receive, TypeOK
    <3>2. Head(out[c]) = out[c][1] /\ Len(out[c]) > 0 /\ Len(out'[c]) = Len(out[c]) - 1
          /\ DOMAIN out'[c] = 1 .. Len(out[c]) - 1 /\ Head(out[c]) \in Nat
          /\ \A i \in 1 .. Len(out[c]) - 1 : out'[c][i] = out[c][i + 1]
      BY <3>1, <1>t, QueueFacts
    <3>3. DOMAIN got'[c] = 1 .. Len(got[c]) + 1 /\ Len(got'[c]) = Len(got[c]) + 1
          /\ got'[c][Len(got[c]) + 1] = Head(out[c])
          /\ \A i \in 1 .. Len(got[c]) : got'[c][i] = got[c][i]
      BY <3>1, <3>2, <1>t, QueueFacts
    <3>4. Head(out[c]) = Len(got[c]) + 1
      BY <3>2, <1>e, <1>n
    <3>5. \A i \in DOMAIN got'[c] : got'[c][i] = i
      BY <3>3, <3>4, <1>e, <1>n
    <3>6. \A i \in DOMAIN out'[c] : out'[c][i] = Len(got'[c]) + i
      <4> TAKE i \in DOMAIN out'[c]
      <4>1. i + 1 \in 1 .. Len(out[c]) /\ out'[c][i] = out[c][i + 1] /\ i \in Nat
        <5>1. i \in 1 .. Len(out[c]) - 1
          BY <3>2
        <5>2. Len(out[c]) \in Nat
          BY <1>n
        <5>3. i + 1 \in 1 .. Len(out[c]) /\ i \in Nat
          BY <5>1, <5>2
        <5> QED BY <5>1, <5>3, <3>2
      <4> QED BY <4>1, <3>3, <1>e, <1>n
    <3>7. Len(got'[c]) + Len(out'[c]) = Len(got[c]) + Len(out[c])
      <4>1. Len(out'[c]) = Len(out[c]) - 1 /\ Len(got'[c]) = Len(got[c]) + 1
        BY <3>2, <3>3
      <4>2. Len(out[c]) \in Nat /\ Len(got[c]) \in Nat
        BY <1>n
      <4>3. (Len(got[c]) + 1) + (Len(out[c]) - 1) = Len(got[c]) + Len(out[c])
        BY <4>2, Numbers
      <4> QED BY <4>1, <4>3, Zenon
    <3>8. hold[c] # 0 /\ sock[Dst[c]] # "closed" => hold[c] = Len(got'[c]) + Len(out'[c]) + 1
      BY <3>7, <1>g
    <3>9. UNCHANGED <<in, hold, sent, sock>>
      BY <3>1
    <3> QED BY <3>9, <3>5, <3>6, <3>8, <1>g
  <2>2. CASE d # c
    BY <1>5, <2>2, <1>g DEF Receive, TypeOK
  <2> QED BY <2>1, <2>2
<1>6. CASE UpEnds \/ DownEnds
  <2>1. PICK d \in Dirs, S \in SUBSET Sides : CopyOver(d) /\ CloseAfter(d, S) /\ "back" \in S
    BY <1>6, EndSteps
  <2>2. \A i \in DOMAIN out'[c] : i \in DOMAIN out[c] /\ out'[c][i] = out[c][i]
    BY <2>1, CloseEffect
  <2>3. got'[c] = got[c] /\ sent'[c] = sent[c]
    BY <2>1 DEF CloseAfter
  <2>4. in'[c] = <<>> \/ in'[c] = in[c]
    BY <2>1 DEF CloseAfter
  <2>5. hold'[c] = 0 \/ hold'[c] = hold[c]
    BY <2>1 DEF CloseAfter, TypeOK
  <2>6. sock'[Dst[c]] # "closed" => sock[Dst[c]] # "closed" /\ out'[c] = out[c]
    <3>1. sock'[Dst[c]] # "closed" => Dst[c] \notin S /\ sock'[Dst[c]] = sock[Dst[c]]
      BY <2>1, DirFacts DEF CloseAfter
    <3> QED BY <3>1, <2>1, CloseEffect
  <2>7. \A i \in DOMAIN in'[c] : in'[c][i] + Len(in'[c]) = sent'[c] + i
    <3>1. CASE in'[c] = <<>>
      <4>1. DOMAIN in'[c] = {}
        BY <3>1
      <4> QED BY <4>1
    <3>2. CASE in'[c] = in[c]
      BY <3>2, <2>3, <1>g
    <3> QED BY <3>1, <3>2, <2>4
  <2> QED BY <2>2, <2>3, <2>5, <2>6, <2>7, <1>g
<1> QED BY <1>1, <1>2, <1>3, <1>4, <1>5, <1>6 DEF Next

(* The lengths of a direction's queues, and what each action does to them.  *)
LEMMA BalanceStep ==
  ASSUME TypeOK, Phases, InOrder, Balance, [Next]_vars
  PROVE  Balance'
<1> DEFINE G(d) == Len(got[d])
           O(d) == Len(out[d])
           I(d) == Len(in[d])
           H(d) == IF hold[d] = 0 THEN 0 ELSE 1
           Both(d) == copy[d] # "ended" /\ sock[Src[d]] # "closed" /\ sock[Dst[d]] # "closed"
           Even(g, o, i, h, n, b) == g + o + h + i <= n /\ (b => g + o + h + i = n)
<1>t. \A d \in Dirs : /\ in[d] \in Seq(Nat) /\ out[d] \in Seq(Nat) /\ got[d] \in Seq(Nat)
                      /\ hold[d] \in Nat /\ sent[d] \in Nat
  BY DEF TypeOK
<1>n. \A d \in Dirs : G(d) \in Nat /\ O(d) \in Nat /\ I(d) \in Nat /\ H(d) \in {0, 1}
                      /\ sent[d] \in Nat
  BY <1>t, QueueFacts
<1>e. \A d \in Dirs : Even(G(d), O(d), I(d), H(d), sent[d], Both(d))
  BY DEF Balance, Taken
<1>p. SUFFICES ASSUME NEW c \in Dirs
               PROVE  Even(G(c)', O(c)', I(c)', H(c)', sent[c]', Both(c)')
  BY DEF Balance, Taken
<1>m. ASSUME NEW g \in Nat, NEW o \in Nat, NEW i \in Nat, NEW h \in {0, 1}, NEW n \in Nat,
             NEW b, NEW b2, b2 => b, Even(g, o, i, h, n, b)
      PROVE  /\ Even(g, o, i, h, n, b2)
             /\ i > 0 /\ h = 0 => Even(g, o, i - 1, 1, n, b2)
             /\ h = 1 => Even(g, o + 1, i, 0, n, b2)
             /\ Even(g, o, i + 1, h, n + 1, b2)
             /\ o > 0 => Even(g + 1, o - 1, i, h, n, b2)
             /\ \A o2, i2, h2 \in Nat : ~b2 /\ o2 <= o /\ i2 <= i /\ h2 <= h
                                          => Even(g, o2, i2, h2, n, b2)
  BY <1>m
<1> HIDE DEF Even
<1>1. CASE Proceed \/ (\E s \in Sides : Leave(s)) \/ UNCHANGED vars
  <2>1. G(c)' = G(c) /\ O(c)' = O(c) /\ I(c)' = I(c) /\ H(c)' = H(c) /\ sent[c]' = sent[c]
    BY <1>1, QuietSteps
  <2>2. Both(c)' => Both(c)
    BY <1>1, QuietSteps, DirFacts
  <2>3. Even(G(c), O(c), I(c), H(c), sent[c], Both(c)')
    <3> HIDE DEF G, O, I, H, Both
    <3> QED BY <2>2, <1>n, <1>e, <1>m
  <2> QED BY <2>1, <2>3
<1>2. ASSUME NEW d \in Dirs, CopyReads(d) \/ CopyWrites(d) \/ Send(d) \/ Receive(d)
      PROVE  Even(G(c)', O(c)', I(c)', H(c)', sent[c]', Both(c)')
  <2>b. Both(c)' = Both(c)
    BY <1>2 DEF CopyReads, CopyWrites, Send, Receive
  <2>1. CASE d # c
    <3>1. G(c)' = G(c) /\ O(c)' = O(c) /\ I(c)' = I(c) /\ H(c)' = H(c) /\ sent[c]' = sent[c]
      BY <1>2, <2>1 DEF CopyReads, CopyWrites, Send, Receive, TypeOK
    <3> HIDE DEF G, O, I, H, Both
    <3> QED BY <3>1, <2>b, <1>e
  <2>2. CASE d = c /\ CopyReads(d)
    <3>1. in[c] # <<>> /\ in'[c] = Tail(in[c]) /\ hold'[c] = Head(in[c]) /\ hold[c] = 0
      BY <2>2 DEF CopyReads, TypeOK
    <3>2. G(c)' = G(c) /\ O(c)' = O(c) /\ sent[c]' = sent[c]
      BY <2>2 DEF CopyReads
    <3>3. I(c)' = I(c) - 1 /\ I(c) > 0 /\ H(c) = 0
      BY <3>1, <1>t, QueueFacts
    <3>4. H(c)' = 1
      <4>1. in[c][1] + I(c) = sent[c] + 1 /\ Head(in[c]) = in[c][1] /\ in[c][1] \in Nat
        <5>1. Head(in[c]) = in[c][1] /\ Head(in[c]) \in Nat /\ 1 \in DOMAIN in[c]
          BY <3>1, <1>t, QueueFacts
        <5> QED BY <5>1 DEF InOrder
      <4>2. I(c) <= sent[c]
        <5>1. Even(G(c), O(c), I(c), H(c), sent[c], Both(c))
          BY <1>e
        <5> HIDE DEF G, O, I, H, Both
        <5> QED BY <5>1, <1>n DEF Even
      <4>3. in[c][1] # 0
        <5> HIDE DEF I
        <5> QED BY <4>1, <4>2, <1>n
      <4> QED BY <4>1, <4>3, <3>1
    <3>5. Even(G(c), O(c), I(c) - 1, 1, sent[c], Both(c))
      <4> HIDE DEF G, O, I, H, Both
      <4> QED BY <3>3, <1>n, <1>e, <1>m
    <3> HIDE DEF G, O, I, H, Both
    <3> QED BY <3>2, <3>3, <3>4, <3>5, <2>b
  <2>3. CASE d = c /\ CopyWrites(d)
    <3>1. out'[c] = Append(out[c], hold[c]) /\ hold'[c] = 0 /\ hold[c] # 0
      BY <2>3 DEF CopyWrites, TypeOK
    <3>2. G(c)' = G(c) /\ I(c)' = I(c) /\ sent[c]' = sent[c]
      BY <2>3 DEF CopyWrites
    <3>3. O(c)' = O(c) + 1 /\ H(c) = 1 /\ H(c)' = 0
      BY <3>1, <1>t, QueueFacts
    <3> HIDE DEF G, O, I, H, Both
    <3>4. Even(G(c), O(c) + 1, I(c), 0, sent[c], Both(c))
      <4>1. Even(G(c), O(c), I(c), H(c), sent[c], Both(c))
        BY <1>e
      <4>2. G(c) \in Nat /\ O(c) \in Nat /\ I(c) \in Nat /\ H(c) \in {0, 1} /\ sent[c] \in Nat
        BY <1>n
      <4> QED BY <4>1, <4>2, <3>3 DEF Even
    <3> QED BY <3>2, <3>3, <3>4, <2>b, Zenon
  <2>4. CASE d = c /\ Send(d)
    <3>1. in'[c] = Append(in[c], sent[c] + 1) /\ sent[c]' = sent[c] + 1
      BY <2>4 DEF Send, TypeOK
    <3>2. G(c)' = G(c) /\ O(c)' = O(c) /\ H(c)' = H(c)
      BY <2>4 DEF Send
    <3>3. I(c)' = I(c) + 1
      BY <3>1, <1>t, QueueFacts
    <3> HIDE DEF G, O, I, H, Both
    <3>4. Even(G(c), O(c), I(c) + 1, H(c), sent[c] + 1, Both(c))
      <4>1. Even(G(c), O(c), I(c), H(c), sent[c], Both(c))
        BY <1>e
      <4>2. G(c) \in Nat /\ O(c) \in Nat /\ I(c) \in Nat /\ H(c) \in {0, 1} /\ sent[c] \in Nat
        BY <1>n
      <4> QED BY <4>1, <4>2, <3>3 DEF Even
    <3> QED BY <3>1, <3>2, <3>3, <3>4, <2>b, Zenon
  <2>5. CASE d = c /\ Receive(d)
    <3>1. got'[c] = Append(got[c], Head(out[c])) /\ out'[c] = Tail(out[c]) /\ out[c] # <<>>
      BY <2>5 DEF Receive, TypeOK
    <3>2. I(c)' = I(c) /\ H(c)' = H(c) /\ sent[c]' = sent[c]
      BY <2>5 DEF Receive
    <3>3. G(c)' = G(c) + 1 /\ O(c)' = O(c) - 1 /\ O(c) > 0
      BY <3>1, <1>t, QueueFacts
    <3> HIDE DEF G, O, I, H, Both
    <3>4. Even(G(c) + 1, O(c) - 1, I(c), H(c), sent[c], Both(c))
      <4>1. Even(G(c), O(c), I(c), H(c), sent[c], Both(c))
        BY <1>e
      <4>2. G(c) \in Nat /\ O(c) \in Nat /\ I(c) \in Nat /\ H(c) \in {0, 1} /\ sent[c] \in Nat
        BY <1>n
      <4> QED BY <4>1, <4>2, <3>3 DEF Even
    <3> QED BY <3>2, <3>3, <3>4, <2>b, Zenon
  <2> QED BY <1>2, <2>1, <2>2, <2>3, <2>4, <2>5
<1>3. CASE UpEnds \/ DownEnds
  <2>1. PICK d \in Dirs, S \in SUBSET Sides : CopyOver(d) /\ CloseAfter(d, S) /\ "back" \in S
    BY <1>3, EndSteps
  <2>2. ~Both(c)'
    BY <2>1, DirFacts DEF CloseAfter
  <2>3. G(c)' = G(c) /\ sent[c]' = sent[c]
    BY <2>1 DEF CloseAfter
  <2>4. out'[c] \in Seq(Nat) /\ O(c)' <= O(c)
    BY <2>1, CloseEffect
  <2>5. in'[c] = <<>> \/ in'[c] = in[c]
    BY <2>1 DEF CloseAfter
  <2>6. I(c)' \in Nat /\ I(c)' <= I(c)
    <3>1. CASE in'[c] = <<>>
      <4>1. I(c)' = 0
        BY <3>1
      <4> QED BY <4>1, <1>n
    <3>2. CASE in'[c] = in[c]
      BY <3>2, <1>n
    <3> QED BY <2>5, <3>1, <3>2
  <2>7. H(c)' \in Nat /\ H(c)' <= H(c)
    BY <2>1 DEF CloseAfter, TypeOK
  <2>8. O(c)' \in Nat
    BY <2>4, QueueFacts
  <2> HIDE DEF G, O, I, H, Both
  <2>9. Even(G(c), O(c)', I(c)', H(c)', sent[c], Both(c)')
    BY <2>2, <2>4, <2>6, <2>7, <2>8, <1>n, <1>e, <1>m
  <2> QED BY <2>3, <2>9
<1> QED BY <1>1, <1>2, <1>3 DEF Next

(***************************************************************************)
(* The copy that ends first ends with both sockets open.  If neither far   *)
(* end has gone it was at the end of its input with nothing in hand, and   *)
(* by Balance everything sent is then with, or on its way to, the other    *)
(* side.                                                                   *)
(***************************************************************************)
LEMMA FirstStep ==
  ASSUME TypeOK, Phases, Balance, FirstIsDone, [Next]_vars
  PROVE  FirstIsDone'
<1> DEFINE Well(d) == first = d /\ end[Src[d]] # "gone" /\ end[Dst[d]] # "gone" /\ ~reset[d]
           All(d) == Len(got[d]) + Len(out[d]) = sent[d]
<1>t. \A d \in Dirs : /\ in[d] \in Seq(Nat) /\ out[d] \in Seq(Nat) /\ got[d] \in Seq(Nat)
                      /\ sent[d] \in Nat
  BY DEF TypeOK
<1>h. \A d \in Dirs : Well(d) => end[Src[d]] # "open" /\ All(d)
  BY DEF FirstIsDone
<1>p. SUFFICES ASSUME NEW c \in Dirs, Well(c)'
               PROVE  end'[Src[c]] # "open" /\ All(c)'
  BY DEF FirstIsDone
<1>1. CASE Proceed \/ (\E s \in Sides : Leave(s)) \/ UNCHANGED vars
  <2>1. Well(c) /\ (end[Src[c]] # "open" => end'[Src[c]] # "open")
    BY <1>1, <1>p, QuietSteps, DirFacts
  <2>2. All(c)' = All(c)
    BY <1>1, QuietSteps
  <2> QED BY <2>1, <2>2, <1>h
<1>2. ASSUME NEW d \in Dirs, CopyReads(d) \/ CopyWrites(d) \/ Send(d) \/ Receive(d)
      PROVE  end'[Src[c]] # "open" /\ All(c)'
  <2>1. Well(c) /\ end' = end
    BY <1>2, <1>p DEF CopyReads, CopyWrites, Send, Receive
  <2>2. end[Src[c]] # "open" /\ All(c) /\ copy[c] = "ended"
    BY <2>1, <1>h DEF Phases
  <2>3. CASE d # c \/ CopyReads(d)
    BY <1>2, <2>1, <2>2, <2>3 DEF CopyReads, CopyWrites, Send, Receive, TypeOK
  <2>4. CASE d = c /\ (CopyWrites(d) \/ Send(d))
    BY <2>2, <2>4 DEF CopyWrites, Send
  <2>5. CASE d = c /\ Receive(d)
    <3>1. got'[c] = Append(got[c], Head(out[c])) /\ out'[c] = Tail(out[c]) /\ out[c] # <<>>
          /\ sent' = sent
      BY <2>5 DEF Receive, TypeOK
    <3>2. Len(got'[c]) = Len(got[c]) + 1 /\ Len(out'[c]) = Len(out[c]) - 1
          /\ Len(got[c]) \in Nat /\ Len(out[c]) \in Nat
      BY <3>1, <1>t, QueueFacts
    <3>3. (Len(got[c]) + 1) + (Len(out[c]) - 1) = Len(got[c]) + Len(out[c])
      BY <3>2, Numbers
    <3>4. Len(got'[c]) + Len(out'[c]) = Len(got[c]) + Len(out[c])
      BY <3>2, <3>3, Zenon
    <3> QED BY <3>1, <3>4, <2>1, <2>2
  <2> QED BY <1>2, <2>3, <2>4, <2>5
<1>3. CASE UpEnds \/ DownEnds
  <2>1. PICK d \in Dirs, S \in SUBSET Sides : CopyOver(d) /\ CloseAfter(d, S) /\ "back" \in S
    BY <1>3, EndSteps
  <2>2. end' = end /\ got' = got /\ sent' = sent /\ (~reset'[c] => ~reset[c])
    BY <2>1 DEF CloseAfter, TypeOK
  <2>3. out'[c] = out[c]
    BY <2>1, <1>p, CloseEffect
  <2>4. CASE first = c
    BY <2>2, <2>3, <2>4, <1>p, <1>h
  <2>5. CASE first # c
    <3>1. first = "none" /\ d = c
      BY <2>1, <2>5, <1>p DEF CloseAfter, TypeOK
    <3>2. copy[c] = "running" /\ sock[Src[c]] = "open" /\ sock[Dst[c]] = "open"
      BY <2>1, <3>1, DirFacts DEF CopyOver, Phases
    <3>3. hold[c] = 0 /\ in[c] = <<>> /\ end[Src[c]] # "open"
      BY <2>1, <2>2, <3>1, <3>2, <1>p DEF CopyOver, AtEOF, ReadFails, WriteFails
    <3>4. Len(got[c]) + Len(out[c]) + 0 + Len(in[c]) = sent[c]
      BY <3>2, <3>3 DEF Balance, Taken
    <3>5. Len(in[c]) = 0 /\ Len(got[c]) \in Nat /\ Len(out[c]) \in Nat
      BY <3>3, <1>t, QueueFacts
    <3>6. Len(got[c]) + Len(out[c]) = sent[c]
      <4> DEFINE x == Len(got[c])
                 y == Len(out[c])
                 n == sent[c]
      <4>1. x \in Nat /\ y \in Nat /\ x + y + 0 + 0 = n
        BY <3>4, <3>5, Zenon
      <4>2. x + y = n
        <5> HIDE DEF x, y, n
        <5> QED BY <4>1
      <4> QED BY <4>2
    <3> QED BY <3>3, <3>6, <2>2, <2>3
  <2> QED BY <2>4, <2>5
<1> QED BY <1>1, <1>2, <1>3 DEF Next
-----------------------------------------------------------------------------
LEMMA NextInv ==
  ASSUME ProxyInv, [Next]_vars
  PROVE  ProxyInv'
<1>1. TypeOK'
  BY TypeStep DEF ProxyInv
<1>2. JudgedFirst' /\ JudgedIsDialled'
  BY JudgedStep DEF ProxyInv
<1>3. Phases'
  BY PhasesStep DEF ProxyInv
<1>4. InOrder'
  BY <1>1, OrderStep DEF ProxyInv
<1>5. Balance' /\ FirstIsDone'
  BY BalanceStep, FirstStep DEF ProxyInv
<1> QED BY <1>1, <1>2, <1>3, <1>4, <1>5 DEF ProxyInv

(* In numbers the order and the balance are what StreamsIntact says.        *)
LEMMA InvImpliesIntact ==
  ASSUME ProxyInv
  PROVE  StreamsIntact
<1> SUFFICES ASSUME NEW d \in Dirs
             PROVE  /\ \E n \in 0 .. sent[d] : got[d] = Chunks(n)
                    /\ first = d /\ end[Src[d]] # "gone" /\ end[Dst[d]] # "gone" /\ ~reset[d]
                         => got[d] \o out[d] = Chunks(sent[d])
  BY DEF StreamsIntact
<1>t. /\ in[d] \in Seq(Nat) /\ out[d] \in Seq(Nat) /\ got[d] \in Seq(Nat)
      /\ sent[d] \in Nat
  BY DEF ProxyInv, TypeOK
<1>n. Len(got[d]) \in Nat /\ Len(out[d]) \in Nat /\ Len(in[d]) \in Nat
      /\ DOMAIN got[d] = 1 .. Len(got[d]) /\ DOMAIN out[d] = 1 .. Len(out[d])
  BY <1>t, QueueFacts
<1>o. /\ \A i \in 1 .. Len(got[d]) : got[d][i] = i
      /\ \A i \in 1 .. Len(out[d]) : out[d][i] = Len(got[d]) + i
  BY <1>n DEF ProxyInv, InOrder
<1>1. got[d] = Chunks(Len(got[d]))
  <2> DEFINE g == got[d]
  <2>1. g \in Seq(Nat) /\ \A i \in 1 .. Len(g) : g[i] = i
    BY <1>t, <1>o
  <2>2. g = Chunks(Len(g))
    <3> HIDE DEF g
    <3>1. g = [i \in 1 .. Len(g) |-> g[i]]
      BY <2>1
    <3> QED BY <2>1, <3>1 DEF Chunks
  <2> QED BY <2>2
<1>2. Len(got[d]) \in 0 .. sent[d]
  <2>1. Taken(d) + Len(in[d]) <= sent[d]
    BY DEF ProxyInv, Balance
  <2> DEFINE x == Len(got[d])
             y == Len(out[d])
             z == Len(in[d])
             h == IF hold[d] = 0 THEN 0 ELSE 1
             n == sent[d]
  <2>2. x \in Nat /\ y \in Nat /\ z \in Nat /\ h \in {0, 1} /\ n \in Nat /\ x + y + h + z <= n
    BY <2>1, <1>n, <1>t DEF Taken
  <2>3. x \in 0 .. n
    <3> HIDE DEF x, y, z, h, n
    <3> QED BY <2>2
  <2> QED BY <2>3
<1>3. ASSUME first = d, end[Src[d]] # "gone", end[Dst[d]] # "gone", ~reset[d]
      PROVE  got[d] \o out[d] = Chunks(sent[d])
  <2>1. Len(got[d]) + Len(out[d]) = sent[d]
    BY <1>3 DEF ProxyInv, FirstIsDone
  <2> DEFINE g == got[d]
             o == out[d]
             s == g \o o
  <2>2. g \in Seq(Nat) /\ o \in Seq(Nat)
    BY <1>t
  <2>3. /\ s \in Seq(Nat) /\ Len(s) = Len(g) + Len(o)
        /\ \A i \in 1 .. Len(g) : s[i] = g[i]
        /\ \A i \in Len(g) + 1 .. Len(g) + Len(o) : s[i] = o[i - Len(g)]
    <3> HIDE DEF g, o
    <3> QED BY <2>2
  <2>4. \A i \in 1 .. Len(g) + Len(o) : s[i] = i
    <3>1. TAKE i \in 1 .. Len(g) + Len(o)
    <3>2. Len(g) \in Nat /\ Len(o) \in Nat /\ i \in Nat
      BY <1>n
    <3>3. CASE i <= Len(g)
      <4>1. i \in 1 .. Len(g)
        <5> HIDE DEF g, o
        <5> QED BY <3>1, <3>2, <3>3
      <4> QED BY <4>1, <2>3, <1>o
    <3>4. CASE i > Len(g)
      <4>1. i \in Len(g) + 1 .. Len(g) + Len(o) /\ i - Len(g) \in 1 .. Len(o)
            /\ Len(g) + (i - Len(g)) = i
        <5> HIDE DEF g, o
        <5> QED BY <3>1, <3>2, <3>4
      <4>2. s[i] = o[i - Len(g)]
        BY <4>1, <2>3
      <4>3. o[i - Len(g)] = Len(g) + (i - Len(g))
        BY <4>1, <1>o
      <4> QED BY <4>1, <4>2, <4>3, Zenon
    <3> QED BY <3>2, <3>3, <3>4
  <2>5. s = [i \in 1 .. Len(s) |-> s[i]]
    <3> HIDE DEF s
    <3> QED BY <2>3
  <2>6. Len(s) = sent[d]
    BY <2>1, <2>3
  <2>7. \A i \in 1 .. Len(s) : s[i] = i
    BY <2>3, <2>4
  <2>8. s = Chunks(sent[d])
    <3> HIDE DEF s
    <3> QED BY <2>5, <2>6, <2>7 DEF Chunks
  <2> QED BY <2>8
<1> QED BY <1>1, <1>2, <1>3
-----------------------------------------------------------------------------
(* ProxyInv holds in every state of a connection: who was judged, which     *)
(* sockets are open, and where every chunk is.                              *)
THEOREM ProxySafe == Spec => []ProxyInv
<1>1. Init => ProxyInv
  BY InitInv
<1>2. ProxyInv /\ [Next]_vars => ProxyInv'
  BY NextInv
<1> QED BY <1>1, <1>2, PTL DEF Spec

(* ServeHTTP, hijackCONNECT and RoundTrip: whatever the method, wherever    *)
(* the request names its host and whatever its other parts are, a host that *)
(* is not in EGRESS_ALLOW is dialled only as one address for another or     *)
(* when a CONNECT target has more than a host and a port.                   *)
THEOREM JudgedIsDialledHolds == Spec => []JudgedIsDialled
<1>1. ProxyInv => JudgedIsDialled
  BY DEF ProxyInv
<1> QED BY <1>1, ProxySafe, PTL

(* hijackCONNECT's two copies, for any number of chunks and any window: in  *)
(* both directions a prefix arrives, in order, and the direction that ends  *)
(* first has handed over everything unless a far end went or a reset cost   *)
(* its last chunks.                                                         *)
THEOREM StreamsIntactHolds == Spec => []StreamsIntact
<1>1. ProxyInv => StreamsIntact
  BY InvImpliesIntact
<1> QED BY <1>1, ProxySafe, PTL
=============================================================================
