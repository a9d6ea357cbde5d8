------------------------------- MODULE MCJail -------------------------------
(***************************************************************************)
(* Instances of Jail for TLC: policies that differ in their system calls,  *)
(* and policies that differ in their binds and decoys.                     *)
(***************************************************************************)
EXTENDS Jail

opt == <<"opt">>
grok == <<"opt", "grok">>
keys == <<"opt", "grok", "keys">>
usr == <<"usr">>
lib == <<"lib">>
bin == <<"bin">>
work == <<"work">>

MCExists == {opt, grok, keys, usr, lib, bin, work, <<"home", "cmd">>, <<"var", "keys">>}
MCLinks == (lib :> usr) @@ (bin :> <<"usr", "bin">>) @@ (<<"var", "keys">> :> keys)
MCRelLinks == {bin}
MCCommand == <<"home", "cmd">>
MCWorkspace == <<"srv", "ws">>

Names == {"clone", "read", "write", "mount", "typo"}

Decoy(dest, host) == [dest |-> dest, host |-> host]

Base == [allowed |-> <<"read">>, denied |-> {}, secrets |-> {grok},
         decoys |-> <<Decoy(grok, Runtime)>>, ro |-> <<>>, rw |-> <<>>, workspace |-> work]

SyscallPolicies ==
  {[Base EXCEPT !.allowed = a, !.denied = d] :
     a \in UNION {[1 .. n -> Names] : n \in 0 .. 3}, d \in {{}, {"write"}}}

Pairs(hosts, dests) == [host : hosts, dest : dests]
UpTo1(S) == {<<>>} \cup {<<x>> : x \in S}

BindPolicies ==
  {[Base EXCEPT !.ro = r, !.rw = w, !.workspace = ws, !.decoys = dc, !.secrets = {grok, keys}] :
     r \in UpTo1(Pairs({opt, lib, bin, <<"var", "keys">>}, {opt, lib})) \cup {<<[host |-> usr, dest |-> opt], [host |-> lib, dest |-> opt]>>},
     w \in UpTo1(Pairs({opt, grok, work}, {opt, grok, <<"opt", "grok", "x">>})),
     ws \in {work, opt, grok},
     dc \in {<<Decoy(grok, Runtime)>>, <<Decoy(grok, lib)>>, <<Decoy(grok, <<"var", "keys">>)>>,
            <<Decoy(grok, Runtime), Decoy(keys, Runtime)>>, <<Decoy(keys, Runtime), Decoy(grok, usr)>>}}

MCPolicies == SyscallPolicies \cup BindPolicies
=============================================================================
