---------------------------- MODULE DriftCases ----------------------------
(***************************************************************************)
(* Documents for DriftLoop: a workload whose pod template is flattened     *)
(* into spec.  Selector and image are forbidden, node selector and         *)
(* tolerations are open to local patches: a map with keys of both owners   *)
(* and a list without a key.                                               *)
(***************************************************************************)
EXTENDS Manifest

P(s) == [i \in DOMAIN s |-> <<s[i]>>]
MCPolicy ==
  [exact |-> {P(<<"status">>), P(<<"spec", "selector">>)},
   metadata |-> {<<"uid">>},
   container |-> {<<"image">>},
   rules |-> <<[kind |-> "Deployment",
                prefixes |-> {P(<<"spec", "nodeSelector">>), P(<<"spec", "tolerations">>)}]>>]

Document(spec) == Map([kind |-> Val("Deployment"), metadata |-> Map([name |-> Val("app")]), spec |-> Map(spec)])
Live(spec) == Map([kind |-> Val("Deployment"), metadata |-> Map([name |-> Val("app"), uid |-> Val("1")]), status |-> Val("ready"), spec |-> Map(spec)])
Container(image) == List(<<Map([name |-> Val("main"), image |-> Val(image)])>>)
Toleration(key) == List(<<Map([key |-> Val(key)])>>)

PlacementBase == {Document([selector |-> Val("s"), containers |-> Container("v1"), nodeSelector |-> Map([zone |-> Val(z)])]) : z \in {"a", "b"}}
PlacementOverlays ==
  {Document([nodeSelector |-> Map([disk |-> Val(d)])]) : d \in {"hdd", "ssd"}}
  \cup {Document([nodeSelector |-> Map([disk |-> Val("ssd")]), tolerations |-> Toleration("t")])}
  \cup {Document([selector |-> Val("x")]), Document([containers |-> Container("v2")])}
PlacementLive ==
  {Live([selector |-> Val(s), containers |-> Container(c), nodeSelector |-> Map([zone |-> Val(z), disk |-> Val(d)]), tolerations |-> Toleration(t)])
     : s \in {"s", "x"}, c \in {"v1", "v2"}, z \in {"a", "b"}, d \in {"hdd", "ssd"}, t \in {"t", "u"}}
=============================================================================
