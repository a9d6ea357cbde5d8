------------------------------- MODULE Proxy --------------------------------
(***************************************************************************)
(* The egress proxy (proxy/main.go), one connection of it: the request is  *)
(* matched against the allowlist, and a CONNECT becomes a tunnel of two    *)
(* goroutines that copy in opposite directions.  "up" copies from the      *)
(* client to the dialled host and then closes that connection; "down", the *)
(* handler itself, copies back and then closes both.                       *)
(*                                                                         *)
(* Data is the numbers 1, 2, 3... of the chunks a side sends.  TCP is      *)
(* external: in[d] is what waits to be read by direction d, out[d] what it *)
(* has written and the other side has not read; both hold Window chunks.   *)
(* A socket closed with unread input is reset, and what was on its way     *)
(* from it may be lost.                                                    *)
(***************************************************************************)
EXTENDS Naturals, Sequences, FiniteSets

CONSTANTS
  Names,      \* host names, case and port taken away
  Addrs,      \* IPv6 addresses in brackets
  Bracket,    \* the bracket in front of an address
  EgressAllow,\* the hosts in EGRESS_ALLOW
  NoHost,     \* the empty string
  MaxChunks,  \* how much a side sends
  Window      \* how much the kernel buffers

ASSUME ProxyAssumption ==
  /\ EgressAllow \subseteq Names \cup Addrs
  /\ Names \cap Addrs = {}
  /\ Bracket \notin Names
  /\ NoHost \notin Names \cup Addrs \cup {Bracket}
  /\ MaxChunks \in Nat
  /\ Window \in Nat \ {0}

Dirs == {"up", "down"}
Sides == {"client", "back"}
Src == [up |-> "client", down |-> "back"]
Dst == [up |-> "back", down |-> "client"]
Other == [up |-> "down", down |-> "up"]

(***************************************************************************)
(* hostOf cuts a text at its first colon or slash: of a host and a port it *)
(* leaves the name, of an address the bracket.  allowlist() cuts its       *)
(* entries in the same way.                                                *)
(***************************************************************************)
Hosts == Names \cup Addrs
Cut(h) == IF h \in Addrs THEN Bracket ELSE h
Allow == {Cut(h) : h \in EgressAllow}

(***************************************************************************)
(* A request line names a host (an authority for CONNECT, an absolute URL  *)
(* for other methods) or only a path; then net/http takes r.Host from the  *)
(* Host header.  A target may have more than a host and a port: a user     *)
(* part in front, a path behind.  net/http parses the host out of it for   *)
(* r.Host; hostOf takes the whole text and leaves the word of another part *)
(* instead (extra, NoHost when there is no other part).                    *)
(***************************************************************************)
Target == [host : Hosts, extra : Names \cup {NoHost}] \cup {[host |-> NoHost, extra |-> NoHost]}
Request == [method : {"CONNECT", "GET"}, target : Target, header : Hosts, health : BOOLEAN]

HostOfURI(t) == IF t.extra # NoHost THEN t.extra ELSE Cut(t.host)
RHost(r) == IF r.target.host # NoHost THEN r.target.host ELSE r.header

VARIABLES
  req,      \* the request
  step,     \* "serve", "dial", "hijack", "tunnel", "roundtrip", "answered"
  dialled,  \* history: the host connected to, or NoHost
  in, out,  \* of each direction, see above
  hold,     \* the chunk each direction has read and not written, or 0
  copy,     \* "no", "running", "ended"
  sent,     \* how many chunks the source of each direction has sent
  got,      \* history: the chunks its destination has read
  sock,     \* the proxy's two sockets: "none", "open", "closed"
  end,      \* the far ends: "open", "fin" (will send no more), "gone"
  first,    \* history: the direction that ended first, or "none"
  reset     \* history: whether a reset may have cost a direction its last chunks

streamVars == <<in, out, hold, copy, sent, got, sock, end, first, reset>>
vars == <<req, step, dialled, streamVars>>
-----------------------------------------------------------------------------
Init ==
  /\ req \in Request
  /\ step = "serve"
  /\ dialled = NoHost
  /\ in = [d \in Dirs |-> <<>>]
  /\ out = [d \in Dirs |-> <<>>]
  /\ hold = [d \in Dirs |-> 0]
  /\ copy = [d \in Dirs |-> "no"]
  /\ sent = [d \in Dirs |-> 0]
  /\ got = [d \in Dirs |-> <<>>]
  /\ sock = [client |-> "open", back |-> "none"]
  /\ end = [s \in Sides |-> "open"]
  /\ first = "none"
  /\ reset = [d \in Dirs |-> FALSE]

(* ServeHTTP: the host the request is judged by. *)
JudgedHost_Header(r) == Cut(r.header)

JudgedHost(r) ==
  IF r.method = "CONNECT" /\ HostOfURI(r.target) # NoHost
  THEN HostOfURI(r.target)
  ELSE Cut(RHost(r))

ServeHTTP ==
  /\ step = "serve"
  /\ step' = IF req.health /\ req.method # "CONNECT" THEN "answered"
             ELSE IF JudgedHost(req) \notin Allow THEN "answered"
             ELSE IF req.method = "CONNECT" THEN "dial"
             ELSE "roundtrip"
  /\ UNCHANGED <<req, dialled, streamVars>>

(***************************************************************************)
(* RoundTrip goes to the host of the URL; a request without one fails, and *)
(* so may any other.                                                       *)
(***************************************************************************)
RoundTrip ==
  /\ step = "roundtrip"
  /\ step' = "answered"
  /\ dialled' \in {req.target.host, NoHost}
  /\ UNCHANGED <<req, streamVars>>

(* hijackCONNECT: DialTimeout, Hijack, the 200 and the two copies. *)
Dial ==
  /\ step = "dial"
  /\ \/ /\ step' = "hijack"
        /\ dialled' = RHost(req)
        /\ sock' = [sock EXCEPT !.back = "open"]
     \/ /\ step' = "answered"
        /\ UNCHANGED <<dialled, sock>>
  /\ UNCHANGED <<req, in, out, hold, copy, sent, got, end, first, reset>>

HijackFails ==
  /\ step = "hijack"
  /\ step' = "answered"
  /\ sock' = [sock EXCEPT !.back = "closed"]
  /\ UNCHANGED <<req, dialled, in, out, hold, copy, sent, got, end, first, reset>>

Hijack_DropsBuffer ==
  /\ step = "hijack"
  /\ step' = "tunnel"
  /\ copy' = [d \in Dirs |-> "running"]
  /\ \E n \in 1 .. Len(in["up"]) + 1 : in' = [in EXCEPT !["up"] = SubSeq(@, n, Len(@))]
  /\ UNCHANGED <<req, dialled, out, hold, sent, got, sock, end, first, reset>>

Hijack ==
  /\ step = "hijack"
  /\ step' = "tunnel"
  /\ copy' = [d \in Dirs |-> "running"]
  /\ UNCHANGED <<req, dialled, in, out, hold, sent, got, sock, end, first, reset>>
-----------------------------------------------------------------------------
(***************************************************************************)
(* io.Copy: read a chunk, write it; the copy ends at the end of its input  *)
(* or at an error of either socket.                                        *)
(***************************************************************************)
CopyReads(d) ==
  /\ copy[d] = "running" /\ hold[d] = 0
  /\ sock[Src[d]] = "open" /\ in[d] # <<>>
  /\ hold' = [hold EXCEPT ![d] = Head(in[d])]
  /\ in' = [in EXCEPT ![d] = Tail(@)]
  /\ UNCHANGED <<req, step, dialled, out, copy, sent, got, sock, end, first, reset>>

CopyWrites(d) ==
  /\ copy[d] = "running" /\ hold[d] # 0
  /\ sock[Dst[d]] = "open" /\ end[Dst[d]] # "gone"
  /\ Len(out[d]) < Window
  /\ out' = [out EXCEPT ![d] = Append(@, hold[d])]
  /\ hold' = [hold EXCEPT ![d] = 0]
  /\ UNCHANGED <<req, step, dialled, in, copy, sent, got, sock, end, first, reset>>

AtEOF(d) == in[d] = <<>> /\ end[Src[d]] # "open"
ReadFails(d) == sock[Src[d]] = "closed" \/ end[Src[d]] = "gone"
WriteFails(d) == sock[Dst[d]] = "closed" \/ end[Dst[d]] = "gone"

CopyOver(d) ==
  /\ copy[d] = "running"
  /\ IF hold[d] = 0 THEN AtEOF(d) \/ ReadFails(d) ELSE WriteFails(d)

(* Direction d has ended and the sockets S are closed. *)
Reset(c, S) == Dst[c] \in S /\ sock[Dst[c]] = "open" /\ in[Other[c]] # <<>>

CloseAfter(d, S) ==
  /\ copy' = [copy EXCEPT ![d] = "ended"]
  /\ hold' = [hold EXCEPT ![d] = 0]
  /\ first' = IF first = "none" THEN d ELSE first
  /\ sock' = [s \in Sides |-> IF s \in S THEN "closed" ELSE sock[s]]
  /\ in' = [c \in Dirs |-> IF Src[c] \in S THEN <<>> ELSE in[c]]
  /\ reset' = [c \in Dirs |-> reset[c] \/ Reset(c, S)]
  /\ \E n \in [Dirs -> 0 .. Window] :
       /\ \A c \in Dirs : n[c] \in IF Reset(c, S) THEN 0 .. Len(out[c]) ELSE {Len(out[c])}
       /\ out' = [c \in Dirs |-> SubSeq(out[c], 1, n[c])]
  /\ UNCHANGED <<req, dialled, sent, got, end>>

(* The goroutine: Copy(back, bufrw), then back.Close. *)
UpEnds_KeepsBack ==
  /\ CopyOver("up")
  /\ CloseAfter("up", {})
  /\ UNCHANGED step

UpEnds ==
  /\ CopyOver("up")
  /\ CloseAfter("up", {"back"})
  /\ UNCHANGED step

(* The handler: Copy(client, back), then client.Close and back.Close. *)
DownEnds ==
  /\ CopyOver("down")
  /\ CloseAfter("down", Sides)
  /\ step' = "answered"
-----------------------------------------------------------------------------
(***************************************************************************)
(* The two far ends send, read, stop sending and go, as they like; a       *)
(* client may send before its CONNECT is answered.                         *)
(***************************************************************************)
Connected(s) == s = "client" \/ step \in {"hijack", "tunnel"}

Send(d) ==
  /\ Connected(Src[d]) /\ sock[Src[d]] = "open" /\ end[Src[d]] = "open"
  /\ req.method = "CONNECT"
  /\ sent[d] < MaxChunks /\ Len(in[d]) < Window
  /\ sent' = [sent EXCEPT ![d] = @ + 1]
  /\ in' = [in EXCEPT ![d] = Append(@, sent[d] + 1)]
  /\ UNCHANGED <<req, step, dialled, out, hold, copy, got, sock, end, first, reset>>

Receive(d) ==
  /\ out[d] # <<>> /\ end[Dst[d]] # "gone"
  /\ got' = [got EXCEPT ![d] = Append(@, Head(out[d]))]
  /\ out' = [out EXCEPT ![d] = Tail(@)]
  /\ UNCHANGED <<req, step, dialled, in, hold, copy, sent, sock, end, first, reset>>

Leave(s) ==
  /\ Connected(s) /\ step \in {"hijack", "tunnel"}
  /\ end[s] # "gone"
  /\ \E e \in {"fin", "gone"} \ {end[s]} : end' = [end EXCEPT ![s] = e]
  /\ UNCHANGED <<req, step, dialled, in, out, hold, copy, sent, got, sock, first, reset>>

Proceed == ServeHTTP \/ RoundTrip \/ Dial \/ Hijack \/ HijackFails

Next ==
  \/ Proceed
  \/ \E d \in Dirs : CopyReads(d) \/ CopyWrites(d) \/ Send(d) \/ Receive(d)
  \/ UpEnds \/ DownEnds
  \/ \E s \in Sides : Leave(s)

Spec == Init /\ [][Next]_vars

(* The proxy's goroutines run when they can; the far ends owe nothing. *)
FairSpec ==
  /\ Spec
  /\ WF_vars(Proceed)
  /\ \A d \in Dirs : WF_vars(CopyReads(d)) /\ WF_vars(CopyWrites(d))
  /\ WF_vars(UpEnds) /\ WF_vars(DownEnds)
-----------------------------------------------------------------------------
(* "Default deny. Only hosts in EGRESS_ALLOW (comma-separated) may CONNECT  *)
(* or be proxied" (main.go:4).                                              *)
OnlyAllowedDialled == dialled # NoHost => dialled \in EgressAllow

(* ServeHTTP judges one part of the request and dials another.  They agree, *)
(* wherever the request names its host, for every method and target but a   *)
(* CONNECT target with more than a host and a port; of addresses the        *)
(* allowlist can only have all or none.                                     *)
JudgedIsDialled ==
  dialled # NoHost /\ ~(req.method = "CONNECT" /\ req.target.extra # NoHost) =>
    \/ dialled \in EgressAllow
    \/ dialled \in Addrs /\ Addrs \cap EgressAllow # {}

(* The tunnel alters nothing: each side gets a prefix of what the other     *)
(* sent, the bytes read along with the CONNECT included.  The direction     *)
(* that ends first has handed over everything, if the other side is there   *)
(* and the sockets were closed with nothing left unread.                    *)
Chunks(n) == [i \in 1 .. n |-> i]

StreamsIntact ==
  \A d \in Dirs :
    /\ \E n \in 0 .. sent[d] : got[d] = Chunks(n)
    /\ first = d /\ end[Src[d]] # "gone" /\ end[Dst[d]] # "gone" /\ ~reset[d]
         => got[d] \o out[d] = Chunks(sent[d])

(* No tunnel outlives its ends: when one side has gone, both sockets are    *)
(* closed, unless a copy is stuck for good writing to the other side, which *)
(* does not read.                                                           *)
TunnelEnds ==
  \A d \in Dirs :
    end[Src[d]] = "gone" /\ step = "tunnel"
      ~> (\A s \in Sides : sock[s] = "closed") \/ [](Len(out[d]) = Window)
-----------------------------------------------------------------------------
(* The type of the connection's state. *)
TypeOK ==
  /\ req \in Request
  /\ step \in {"serve", "dial", "hijack", "tunnel", "roundtrip", "answered"}
  /\ dialled \in Hosts \cup {NoHost}
  /\ in \in [Dirs -> Seq(Nat)]
  /\ out \in [Dirs -> Seq(Nat)]
  /\ hold \in [Dirs -> Nat]
  /\ copy \in [Dirs -> {"no", "running", "ended"}]
  /\ sent \in [Dirs -> Nat]
  /\ got \in [Dirs -> Seq(Nat)]
  /\ sock \in [Sides -> {"none", "open", "closed"}]
  /\ end \in [Sides -> {"open", "fin", "gone"}]
  /\ first \in Dirs \cup {"none"}
  /\ reset \in [Dirs -> BOOLEAN]

=============================================================================
