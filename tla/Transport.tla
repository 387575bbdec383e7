----------------------------- MODULE Transport -----------------------------
(***************************************************************************)
(* The way of a collector's request to its handler on both transports:     *)
(* the interceptor chain of internal/grpcsrv behind mutual TLS, and        *)
(* handle and authenticate of internal/signedsrv, where the request itself *)
(* is signed (internal/auth/httpsig.go) and sealed (sealed.go).  Both end  *)
(* in grpcsrv.Server, and both ask the ReplayGuard of module ReplayGuard   *)
(* for every request but the exempt bootstrap.                             *)
(*                                                                         *)
(* A message is what arrives.  Its body is the sealed envelope, a record   *)
(* of what the envelope binds; a digest is the body it was computed from;  *)
(* a signature is the record of what was signed and with which key.  Sent  *)
(* holds the messages as collectors made them: a message outside Sent was  *)
(* changed on its way.  A name is the sequence of its parts between        *)
(* slashes, none of them empty: <<"t">>, or <<"c", "d">> for "c/d".        *)
(*                                                                         *)
(* Actions are cut where what other goroutines do in between can matter:   *)
(* before and inside Verify, before the handler, and, with gRPC, after the *)
(* handshake, since a connection outlives it.  TenantsReloader shows that  *)
(* there always is a tenants snapshot to look into.                        *)
(***************************************************************************)
EXTENDS ReplayGuard, Sequences, Functions

CONSTANTS
  msgOf,       \* [Request -> message]
  Sent,        \* the messages the collectors made
  Cluster,     \* the cluster names of the tenants file
  Kid,         \* sequence: the HPKE keys in the order they are generated
  Scenario,    \* bound: what happens in one behaviour, [requests: those that
               \* arrive, changing: the tenants that do, rotates: BOOLEAN]
  BadTime,     \* a timestamp header that is missing or not a number
  BadNonce,    \* a nonce that is missing, short or not hex
  NoCert, NoSig, NoIdentity, NoURI

VARIABLES
  scenario,    \* the scenario; never changes
  at,          \* request -> where it is on its way
  answer,      \* request -> what its sender is told: a gRPC status, or the
               \* HTTP status and code
  saw,         \* request -> the tenant's state when it was looked up, "" before
  tenants,     \* Tenants.Current(): cluster -> "active", "revoked", "deleted"
  keyFile,     \* the kids in HPKE_KEY_FILE, the active one first
  keys,        \* HPKEKeySet: the active kid and all of them
  advertised   \* the kids collectors were given by /keys

wayVars == <<at, answer, saw>>
envVars == <<scenario, tenants, keyFile, keys, advertised>>
transportVars == <<vars, wayVars, envVars>>

m(r) == msgOf[r]
-----------------------------------------------------------------------------
(* Leaf certificates and identities. *)

\* Signer.Sign: the URI names the tenant, if there is one, and the cluster.
\* The owner is not in the certificate: it is who the leaf was meant for.
Sign(id, key, notAfter) ==
  [uri |-> IF id.tenant = <<>> THEN NoURI ELSE id.tenant \o id.cluster,
   cn |-> id.cluster, key |-> key, notAfter |-> notAfter, vendor |-> TRUE,
   owner |-> id]

\* parseSpiffePath
parseSpiffePath(path) ==
  IF Len(path) = 2 THEN [tenant |-> <<path[1]>>, cluster |-> <<path[2]>>]
                   ELSE NoIdentity

\* ExtractFromCert
ExtractFromCert(leaf) ==
  IF leaf = NoCert THEN NoIdentity
  ELSE IF leaf.uri # NoURI THEN parseSpiffePath(leaf.uri)
  ELSE IF leaf.cn # <<>> THEN [tenant |-> <<>>, cluster |-> leaf.cn]
  ELSE NoIdentity

\* Identity.String
String(id) == id.tenant \o id.cluster

\* VerifyClientLeaf at this moment; the handshake verifies the same.
VerifyClientLeaf(leaf) == leaf.vendor /\ now <= leaf.notAfter

ident(r) == ExtractFromCert(m(r).leaf)

\* Names are sequences of strings; the keys have different ids.
ASSUME TransportAssumption ==
  /\ \A s \in Scenario : s.requests \subseteq Request
  /\ NoURI \notin Seq(STRING)
  /\ Kid \in Seq(Range(Kid)) /\ Kid # <<>>
  /\ \A i, j \in DOMAIN Kid : Kid[i] = Kid[j] => i = j

\* Only the brain's Signer has the vendor CA's key, and it signs for no empty
\* cluster: bootstrap.go:152 refuses one, and a renewal takes the identity of
\* the leaf it renews.
ASSUME LeavesAreSigned ==
  \A r \in Request :
    LET leaf == m(r).leaf IN
    leaf # NoCert /\ leaf.vendor =>
      /\ leaf = Sign(leaf.owner, leaf.key, leaf.notAfter)
      /\ leaf.owner \in [tenant : Seq(STRING), cluster : Seq(STRING) \ {<<>>}]

\* The fields of the replay guard's request are those of the message.
ASSUME RequestsAreMessages ==
  \A r \in Request :
    /\ ident(r) # NoIdentity => reqOf[r].id = String(ident(r))
    /\ reqOf[r].nonce = m(r).nonce
    /\ m(r).ts # BadTime => reqOf[r].ts = m(r).ts
    /\ reqOf[r].wellFormed <=> m(r).ts # BadTime /\ m(r).nonce # BadNonce
-----------------------------------------------------------------------------
(* The signed and sealed message. *)

\* SealRequest, at the collector.
SealRequest(kid, path, ts, nonce, plain) ==
  [kid |-> kid, path |-> path, ts |-> ts, nonce |-> nonce, plain |-> plain]

\* SignatureBase: signedComponents (the method is always POST).
SignatureBase(msg) ==
  <<msg.path, msg.digest, msg.ts, msg.nonce, msg.leaf, msg.kid>>

\* SignRequest, at the collector: the parameters are signed with the base.
SignRequest(msg, key, created) ==
  [msg EXCEPT !.sig =
     [key |-> key, created |-> created, keyid |-> msg.leaf,
      over |-> <<SignatureBase(msg), created, msg.leaf>>]]

\* VerifyContentDigest
VerifyContentDigest(msg) == msg.digest = msg.body

\* VerifyRequest, with the key of the leaf in the header.
VerifyRequest(msg) ==
  /\ msg.sig # NoSig
  /\ msg.sig.key = msg.leaf.key
  /\ msg.sig.over = <<SignatureBase(msg), msg.sig.created, msg.sig.keyid>>

\* authenticate's own tests: keyid is CertKeyID of the leaf, created is the
\* timestamp.
ParamsMatch(msg) == msg.sig.keyid = msg.leaf /\ msg.sig.created = msg.ts

\* A message has these fields and no others.
IsMessage(msg) ==
  msg = [via |-> msg.via, frame |-> msg.frame, path |-> msg.path, body |-> msg.body,
         digest |-> msg.digest, ts |-> msg.ts, nonce |-> msg.nonce,
         leaf |-> msg.leaf, kid |-> msg.kid, sig |-> msg.sig]

\* The cryptography: TLS delivers what was sent, and a signature that verifies
\* under the key of a vendor leaf is one that leaf's collector made, for some
\* message.  That the message is the one that arrived is not assumed.
ASSUME SignaturesAreMade ==
  /\ \A r \in Request :
       /\ IsMessage(m(r)) /\ m(r).via \in {"grpc", "signed"}
       /\ m(r).via = "grpc" => m(r) \in Sent
       /\ /\ m(r).via = "signed" /\ m(r).leaf # NoCert
          /\ m(r).leaf.vendor /\ VerifyRequest(m(r))
          => \E s \in Sent :
               /\ s.via = "signed" /\ s.frame = "ok" /\ VerifyContentDigest(s)
               /\ s.sig = m(r).sig /\ VerifyRequest(s)
  /\ \A s \in Sent : IsMessage(s)

\* The collectors: they name the key they sealed to, and sign as SignRequest
\* does, with their leaf's key and the timestamp as created.
ASSUME CollectorsSign ==
  \A s \in Sent : s.via = "signed" =>
    /\ s.kid = s.body.kid
    /\ s.leaf # NoCert /\ s.ts # BadTime => VerifyRequest(s) /\ ParamsMatch(s)

\* Mutation: only the active key is kept.
ParseHPKEKeys_OnlyActive(file) == [active |-> Head(file), all |-> {Head(file)}]

\* ParseHPKEKeys
ParseHPKEKeys(file) == [active |-> Head(file), all |-> Range(file)]

\* OpenRequest succeeds: the key is there, and the envelope was sealed to it
\* for this path and these freshness headers.
Opens(msg) ==
  /\ msg.kid \in keys.all
  /\ msg.body = SealRequest(msg.kid, msg.path, msg.ts, msg.nonce, msg.body.plain)
-----------------------------------------------------------------------------
(* What the sender is told. *)

\* grpcToHTTP
grpcToHTTP(code) ==
  CASE code = "OK"               -> <<200, "">>
    [] code = "InvalidArgument"  -> <<400, "bad_request">>
    [] code = "Unauthenticated"  -> <<401, "unauthenticated">>
    [] code = "PermissionDenied" -> <<403, "forbidden">>
    [] OTHER                     -> <<500, "internal">>

\* A gRPC status, as an answer.
Status(code) == <<0, code>>

\* A handler's status on r's transport.
Told(r, code) == IF m(r).via = "grpc" THEN Status(code) ELSE grpcToHTTP(code)

\* authExemptMethods, and the routes with authenticated = false.
Exempt(r) == m(r).path = "bootstrap"

\* Verify's error is one of the four about missing or malformed fields, which
\* it finds in this order: timestamp, skew, nonce.
Malformed(r) == m(r).ts = BadTime \/ (m(r).nonce = BadNonce /\ InWindow(r))

Answers(r, a) ==
  /\ at' = [at EXCEPT ![r] = "answered"]
  /\ answer' = [answer EXCEPT ![r] = a]

Proceeds(r, stage) == at' = [at EXCEPT ![r] = stage] /\ UNCHANGED answer

TransportInit ==
  /\ Init
  /\ scenario \in Scenario
  /\ at = [r \in Request |-> "none"]
  /\ answer = [r \in Request |-> Status("")]
  /\ saw = [r \in Request |-> ""]
  /\ tenants = [c \in Cluster |-> "active"]
  /\ keyFile = <<Kid[1]>>
  /\ keys = ParseHPKEKeys(keyFile)
  /\ advertised = {Kid[1]}

-----------------------------------------------------------------------------
(* The gRPC server. *)

\* The handshake, which verifies a client certificate if there is one.  The
\* request may follow at any later time on the same connection.
Handshake(r) ==
  /\ at[r] = "none" /\ m(r).via = "grpc"
  /\ IF m(r).leaf = NoCert \/ VerifyClientLeaf(m(r).leaf)
     THEN Proceeds(r, "connected")
     ELSE Answers(r, Status("handshake failed"))
  /\ UNCHANGED <<vars, saw, envVars>>

\* The state of r's tenant in the snapshot.
Lookup(r) ==
  IF ident(r).cluster \in Cluster THEN tenants[ident(r).cluster] ELSE "deleted"

\* The interceptors let an exempt method through.
InterceptorsExempt(r) ==
  /\ at[r] = "connected" /\ Exempt(r)
  /\ Proceeds(r, "verified")
  /\ UNCHANGED <<vars, saw, envVars>>

\* AuthInterceptor refuses: no certificate, or one without an identity.
AuthInterceptorRefuses(r) ==
  /\ at[r] = "connected" /\ ~Exempt(r) /\ ident(r) = NoIdentity
  /\ Answers(r, Status("Unauthenticated"))
  /\ UNCHANGED <<vars, saw, envVars>>

\* AuthInterceptor passes the identity on; RevocationInterceptor looks it up.
RevocationInterceptor(r) ==
  /\ at[r] = "connected" /\ ~Exempt(r) /\ ident(r) # NoIdentity
  /\ saw' = [saw EXCEPT ![r] = Lookup(r)]
  /\ IF Lookup(r) = "active" THEN Proceeds(r, "verify")
                             ELSE Answers(r, Status("PermissionDenied"))
  /\ UNCHANGED <<vars, envVars>>
-----------------------------------------------------------------------------
(* The signed server. *)

\* handle's first tests: Content-Type, size and digest.
FrameError(msg) ==
  CASE msg.frame = "type" -> <<415, "bad_request">>
    [] msg.frame = "size" -> <<413, "bad_request">>
    [] OTHER -> <<400, "bad_digest">>

\* r reaches the signed server; the collector sealed it to a key that /keys
\* gave it.
Reaches(r) ==
  at[r] = "none" /\ m(r).via = "signed" /\ m(r).body.kid \in advertised

Framed(msg) == msg.frame = "ok" /\ VerifyContentDigest(msg)

ReceiveRefuses(r) ==
  /\ Reaches(r) /\ ~Framed(m(r))
  /\ Answers(r, FrameError(m(r)))
  /\ UNCHANGED <<vars, saw, envVars>>

\* handle goes on without authenticate.
ReceiveExempt(r) ==
  /\ Reaches(r) /\ Framed(m(r)) /\ Exempt(r)
  /\ Proceeds(r, "verified")
  /\ UNCHANGED <<vars, saw, envVars>>

\* parseCertHeader finds a certificate.
parseCertHeader(msg) == msg.leaf # NoCert

\* Mutation: the signature is not verified.
CertError_NoSignature(msg) ==
  IF ~parseCertHeader(msg) \/ ~VerifyClientLeaf(msg.leaf) THEN "bad_cert"
  ELSE IF ExtractFromCert(msg.leaf) = NoIdentity THEN "bad_cert"
  ELSE ""

\* authenticate up to the tenants, in this order: the leaf, the signature and
\* its parameters, the identity.
CertError(msg) ==
  IF ~parseCertHeader(msg) \/ ~VerifyClientLeaf(msg.leaf) THEN "bad_cert"
  ELSE IF ~VerifyRequest(msg) \/ ~ParamsMatch(msg) THEN "bad_signature"
  ELSE IF ExtractFromCert(msg.leaf) = NoIdentity THEN "bad_cert"
  ELSE ""

\* authenticate refuses the certificate or the signature.
AuthenticateRefuses(r) ==
  /\ Reaches(r) /\ Framed(m(r)) /\ ~Exempt(r)
  /\ CertError(m(r)) # ""
  /\ Answers(r, <<401, CertError(m(r))>>)
  /\ UNCHANGED <<vars, saw, envVars>>

\* Mutation: an unknown tenant is reported as a failure of the brain.
LookupTenant_Status(r) ==
  /\ Reaches(r) /\ Framed(m(r)) /\ ~Exempt(r)
  /\ CertError(m(r)) = ""
  /\ saw' = [saw EXCEPT ![r] = Lookup(r)]
  /\ CASE Lookup(r) = "deleted" -> Answers(r, <<500, "internal">>)
       [] Lookup(r) = "revoked" -> Answers(r, <<403, "revoked">>)
       [] OTHER -> Proceeds(r, "verify")
  /\ UNCHANGED <<vars, envVars>>

\* authenticate looks the tenant up.
LookupTenant(r) ==
  /\ Reaches(r) /\ Framed(m(r)) /\ ~Exempt(r)
  /\ CertError(m(r)) = ""
  /\ saw' = [saw EXCEPT ![r] = Lookup(r)]
  /\ CASE Lookup(r) = "deleted" -> Answers(r, <<403, "unknown_tenant">>)
       [] Lookup(r) = "revoked" -> Answers(r, <<403, "revoked">>)
       [] OTHER -> Proceeds(r, "verify")
  /\ UNCHANGED <<vars, envVars>>

\* OpenRequest fails, after the nonce has been spent.
OpenRequestFails(r) ==
  /\ at[r] = "verified" /\ m(r).via = "signed"
  /\ ~Opens(m(r))
  /\ Answers(r, <<400, IF m(r).kid \in keys.all THEN "sealed_malformed"
                                               ELSE "hpke_key_unknown">>)
  /\ UNCHANGED <<vars, saw, envVars>>

\* keys: a collector fetches the signed document and takes the active key.
Advertise ==
  /\ keys.active \notin advertised
  /\ advertised' = advertised \cup {keys.active}
  /\ UNCHANGED <<vars, wayVars, scenario, tenants, keyFile, keys>>
-----------------------------------------------------------------------------
(* Both: the replay guard and the handlers. *)

\* What authenticate writes when Verify returns an error.
SignedReplayAnswer(r) ==
  IF Malformed(r) THEN <<400, "bad_request">> ELSE <<401, "replay">>

\* What ReplayInterceptor returns when Verify returns an error.
ReplayInterceptorAnswer(r) ==
  Status(IF Malformed(r) THEN "InvalidArgument" ELSE "Unauthenticated")

\* A step of Verify; an error, the store's included, is the answer.
Verify(r) ==
  /\ at[r] = "verify"
  /\ VerifySteps(r)
  /\ CASE pc'[r] \in {"rejected", "reused", "error"} ->
            Answers(r, IF m(r).via = "grpc" THEN ReplayInterceptorAnswer(r)
                                            ELSE SignedReplayAnswer(r))
       [] pc'[r] = "accepted" ->
            Proceeds(r, "verified")
       [] OTHER -> UNCHANGED <<at, answer>>
  /\ UNCHANGED <<redis, saw, envVars>>

\* Mutation: the payload's cluster is taken at its word.
IngestCode_NoBinding(r) == {"OK"}

\* Server.Ingest and Handler.Ingest: the payload must name the certificate's
\* cluster.
IngestCode(r) ==
  IF m(r).body.plain = ident(r).cluster THEN {"OK"} ELSE {"PermissionDenied"}

\* Server.SignCSR and RenewHandler.Issue, which looks the tenant up again.
SignCSRCode(r) ==
  LET c == ident(r).cluster IN
  IF c \in Cluster /\ tenants[c] = "revoked" THEN {"PermissionDenied"}
  ELSE {"OK", "InvalidArgument"}

\* Server.BootstrapCert; module Enrolment has the handler.
BootstrapCertCode(r) ==
  {"OK", "InvalidArgument", "Unauthenticated", "PermissionDenied", "Internal"}

\* The handler runs, on the signed transport with the opened envelope, and its
\* status is the answer.
Handle(r) ==
  /\ at[r] = "verified"
  /\ m(r).via = "grpc" \/ Opens(m(r))
  /\ \E code \in CASE m(r).path = "ingest"    -> IngestCode(r)
                   [] m(r).path = "sign-csr"  -> SignCSRCode(r)
                   [] m(r).path = "bootstrap" -> BootstrapCertCode(r) :
       /\ answer' = [answer EXCEPT ![r] = Told(r, code)]
       /\ at' = [at EXCEPT ![r] = IF code = "OK" THEN "handled" ELSE "refused"]
  /\ UNCHANGED <<vars, saw, envVars>>
-----------------------------------------------------------------------------
(* The environment. *)

\* The snapshot changes: a tenant is revoked or deleted.
TenantsChange(c) ==
  /\ c \in scenario.changing
  /\ tenants[c] = "active"
  /\ \E state \in {"revoked", "deleted"} :
       tenants' = [tenants EXCEPT ![c] = state]
  /\ UNCHANGED <<vars, wayVars, scenario, keyFile, keys, advertised>>

\* The operator prepends a new key to the file.
KeyPrepended ==
  /\ scenario.rotates
  /\ Head(keyFile) # Kid[Len(Kid)]
  /\ \E i \in DOMAIN Kid :
       /\ Kid[i] = Head(keyFile)
       /\ keyFile' = <<Kid[i + 1]>> \o keyFile
  /\ UNCHANGED <<vars, wayVars, scenario, tenants, keys, advertised>>

\* The operator removes the oldest key from the file.
KeyRemoved ==
  /\ Len(keyFile) > 1
  /\ keyFile' = SubSeq(keyFile, 1, Len(keyFile) - 1)
  /\ UNCHANGED <<vars, wayVars, scenario, tenants, keys, advertised>>

InFlight == {r \in Request : at[r] \in {"connected", "verify", "verified"}}

\* The process restarts: its requests are dropped, the keys are read again.
TransportRestart ==
  /\ Restart
  /\ \E gone \in SUBSET InFlight :
       /\ redis \/ gone = InFlight
       /\ \A r \in InVerify : r \in gone <=> pc'[r] = "lost"
       /\ at' = [r \in Request |-> IF r \in gone THEN "dropped" ELSE at[r]]
  /\ keys' = ParseHPKEKeys(keyFile)
  /\ UNCHANGED <<redis, answer, saw, scenario, tenants, keyFile, advertised>>

RequestStep(r) ==
  \/ Handshake(r) \/ InterceptorsExempt(r) \/ AuthInterceptorRefuses(r)
  \/ RevocationInterceptor(r)
  \/ ReceiveRefuses(r) \/ ReceiveExempt(r) \/ AuthenticateRefuses(r)
  \/ LookupTenant(r) \/ OpenRequestFails(r)
  \/ Verify(r) \/ Handle(r)

TransportNext ==
  \/ \E r \in scenario.requests : RequestStep(r)
  \/ Advertise
  \/ (Tick \/ Janitor) /\ UNCHANGED <<redis, wayVars, envVars>>
  \/ TransportRestart
  \/ \E c \in Cluster : TenantsChange(c)
  \/ KeyPrepended \/ KeyRemoved

TransportSpec == TransportInit /\ [][TransportNext]_transportVars
-----------------------------------------------------------------------------
\* The message is as its collector made it.
Intact(r) == m(r) \in Sent

\* A nonce is spent only by a message that its collector signed as it arrived
\* (or that came over the collector's own mutual TLS connection), from a tenant
\* that was active when it was looked up: signature and revocation come before
\* Replay.Verify (server.go:191-194, main.go:245-255).  A copy changed on the
\* way never burns the nonce of the original.
OnlyAuthenticSpendsNonce ==
  \A r \in Request : wrote[r] # 0 =>
    Intact(r) /\ m(r).leaf.vendor /\ saw[r] = "active"

\* What a handler accepts came unchanged from the collector it is attributed to:
\* the identity is the one the leaf was signed for, whichever way it was read
\* out of the certificate, and an ingested payload names that very cluster
\* (handler.go:27-29).  Only bootstrap is handled without an identity.
HandledAsSent ==
  \A r \in Request : at[r] = "handled" /\ ~Exempt(r) =>
    /\ Intact(r) /\ m(r).leaf.owner = ident(r)
    /\ m(r).path = "ingest" => m(r).body.plain = m(r).leaf.owner.cluster

\* What the interceptor chain returns for r's message in this state, the tenant
\* being in the given state: its three checks, in their order.
ChainCode(r, state) ==
  IF ident(r) = NoIdentity THEN "Unauthenticated"
  ELSE IF state # "active" THEN "PermissionDenied"
  ELSE ReplayInterceptorAnswer(r)[2]

\* "a collector classifies permanent vs transient failures the same way on both
\* transports" (server.go:341-342): when authenticate refuses an intact request
\* with a trusted leaf, it does so with the HTTP status of what the gRPC chain
\* returns in the same situation.  The exception is a timestamp that is no
\* number, which the signed transport notices as a mismatch with created.
TransportsAgree ==
  [][\A r \in scenario.requests :
       /\ m(r).via = "signed" /\ ~Exempt(r) /\ Intact(r) /\ Framed(m(r))
       /\ m(r).leaf # NoCert /\ m(r).ts # BadTime
       /\ at[r] \in {"none", "verify"} /\ at'[r] = "answered"
       /\ at[r] = "none" => VerifyClientLeaf(m(r).leaf)
       => answer'[r][1] = grpcToHTTP(ChainCode(r, saw'[r]))[1]]_transportVars

\* "older keys stay accepted so a rotation does not cut off collectors that
\* cached the previous public key" (sealed.go:144-146): a collector that sealed
\* to a key it was given hears hpke_key_unknown only after the operator removed
\* that key from the file.  A bootstrap request, which nothing signs, may also
\* have had its key id changed on the way.
UnknownKeyWasRemoved ==
  \A r \in Request : answer[r] = <<400, "hpke_key_unknown">> =>
    m(r).kid \notin Range(keyFile) \/ (Exempt(r) /\ ~Intact(r))
=============================================================================
