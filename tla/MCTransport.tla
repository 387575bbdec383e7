----------------------------- MODULE MCTransport -----------------------------
(***************************************************************************)
(* Instance of Transport for TLC: messages of two collectors, over both    *)
(* transports, copies that were changed in one field on the way, and the   *)
(* sets of requests that arrive together.                                  *)
(***************************************************************************)
EXTENDS Transport

C == <<"c">>
D == <<"d">>
Clusters == {C, D, <<"e", "f">>}
MCCluster == Clusters
MCKid == <<"k1", "k2">>

\* c belongs to tenant t; d has no tenant; the name of e/f does not fit a URI.
LeafC == Sign([tenant |-> <<"t">>, cluster |-> C], "key c", 5)
LeafD == Sign([tenant |-> <<>>, cluster |-> D], "key d", 9)
LeafEF == Sign([tenant |-> <<"t">>, cluster |-> <<"e", "f">>], "key ef", 9)
Foreign == [LeafC EXCEPT !.vendor = FALSE]

Unsigned(path, leaf, ts, nonce, kid, plain) ==
  LET body == SealRequest(kid, path, ts, nonce, plain)
  IN [via |-> "signed", frame |-> "ok", path |-> path, body |-> body,
      digest |-> body, ts |-> ts, nonce |-> nonce, leaf |-> leaf, kid |-> kid,
      sig |-> NoSig]

Signed(path, leaf, ts, nonce, kid, plain) ==
  SignRequest(Unsigned(path, leaf, ts, nonce, kid, plain), leaf.key, 3)

GRPC(path, leaf, ts, nonce, plain) ==
  [Unsigned(path, leaf, ts, nonce, "k1", plain) EXCEPT !.via = "grpc"]

One == Signed("ingest", LeafC, 3, "n", "k1", C)
Two == Signed("sign-csr", LeafD, 3, "n", "k2", <<"csr">>)
First == Unsigned("bootstrap", NoCert, 3, "n", "k1", <<"token">>)

\* The messages the collectors made.
Made ==
  <<One,
    GRPC("ingest", LeafD, 3, "n", D),
    Two,
    Signed("ingest", LeafD, 3, "p", "k1", C),
    Signed("ingest", LeafD, 3, BadNonce, "k1", D),
    Signed("ingest", LeafD, BadTime, "n", "k1", D),
    Signed("ingest", LeafEF, 3, "n", "k1", <<"e", "f">>),
    Signed("ingest", Foreign, 3, "n", "k1", C),
    First,
    GRPC("bootstrap", NoCert, 3, "n", <<"token">>),
    GRPC("sign-csr", LeafC, 3, BadNonce, <<"csr">>),
    GRPC("sign-csr", LeafC, 3, "n", <<"csr">>),
    GRPC("ingest", LeafEF, 3, "n", <<"e", "f">>),
    GRPC("ingest", Foreign, 3, "n", C),
    [Unsigned("ingest", NoCert, 3, "n", "k1", C) EXCEPT !.frame = "type"],
    [One EXCEPT !.frame = "size"],
    Unsigned("ingest", NoCert, 3, "n", "k1", C)>>

\* One with one field of another message, or with two.
Changed ==
  <<[One EXCEPT !.path = "sign-csr"], [One EXCEPT !.body = Two.body],
    [One EXCEPT !.body = Two.body, !.digest = Two.body],
    [One EXCEPT !.ts = 4], [One EXCEPT !.nonce = "p"],
    [One EXCEPT !.leaf = LeafD], [One EXCEPT !.kid = "k2"],
    [One EXCEPT !.sig = Two.sig], [One EXCEPT !.sig = NoSig],
    [First EXCEPT !.kid = "k2"], [First EXCEPT !.path = "sign-csr"]>>

SentSet == Range(Made)
MCSent == SentSet

\* One arrives twice.
MsgTable == Made \o <<One>> \o Changed
MCMsgOf == MsgTable
Requests == DOMAIN MsgTable
MCRequest == Requests

ReqTable ==
  [r \in Requests |->
     LET msg == MsgTable[r]
         id == ExtractFromCert(msg.leaf)
     IN [id |-> IF id = NoIdentity THEN <<>> ELSE String(id),
         nonce |-> msg.nonce,
         ts |-> IF msg.ts = BadTime THEN 0 ELSE msg.ts,
         wellFormed |-> msg.ts # BadTime /\ msg.nonce # BadNonce]] \o <<>>
MCReqOf == ReqTable

Behaviour(reqs, changing, rotates) ==
  [requests |-> reqs, changing |-> changing, rotates |-> rotates]

\* A message that arrives twice; the same nonce of another sender; each
\* changed message before or after the original; each message that is refused
\* on its own; requests whose tenant changes, and requests across a rotation.
Scenarios ==
  {Behaviour({1, 18}, {}, FALSE), Behaviour({1, 2}, {}, FALSE)}
  \cup {Behaviour({1, r}, {}, FALSE) : r \in 19..Len(MsgTable)}
  \cup {Behaviour({r}, {}, FALSE) : r \in 4..17}
  \cup {Behaviour({1, 12}, {C}, FALSE), Behaviour({2, 4}, {D}, FALSE)}
  \cup {Behaviour({1, 3}, {}, TRUE), Behaviour({3, 28}, {}, TRUE)}
MCScenario == Scenarios
=============================================================================
