---------------------------- MODULE Startup_proofs ----------------------------
(***************************************************************************)
(* Proofs about Startup, and through it about TenantsReloader and          *)
(* CertReloader: for every environment, every number of versions and       *)
(* keypairs, every set of rejected versions and of handshakes.             *)
(***************************************************************************)
EXTENDS Startup, TLAPS

\* What run has established when it is in a phase.
Phase == {"config", "file", "store", "evaluator", "tls", "preload", "signer",
          "tenants", "reading", "hpke", "listen", "select", "exited"}
AfterConfig == Phase \ {"config", "exited"}
AfterFile == AfterConfig \ {"file"}
AfterEvaluator == AfterFile \ {"store", "evaluator"}

MainInv ==
  /\ scenario \in Scenario
  /\ phase \in Phase
  /\ reason # "lacks"
  /\ phase \in AfterConfig => ConfigValid
  /\ phase \in AfterFile => NamesDiffer(receiversOf[loaded])
  /\ phase \in AfterEvaluator => EvaluatorAccepts
  /\ phase = "tls" => AuthModeEnabled("mtls")
  /\ phase = "hpke" => AuthModeEnabled("signed")
  /\ \A s, r \in up : env.port[s] = env.port[r] => s = r

\* The poller's two readings of the clock are of the past.
TenantsInv ==
  /\ version \in Nat
  /\ clock \in Nat
  /\ file \in [content : Nat \cup {Empty}, mtime : 1..clock]
  /\ cached \in [tenants : Nat \cup {Empty}, mtime : 0..clock]
  /\ statted \in 0..clock

\* While versions replace the file at once, it is never found empty.
WholeInv == atomic => cached.tenants # Empty /\ file.content # Empty

Content == Nat \cup {Partial, NoPair}
HandshakeAt == {"waiting", "compare", "fell back", "load", "cert", "key", "store",
                "refused", "answered"}

CertTypeOK ==
  /\ renewals \in Nat
  /\ writes \in Nat \ {0}
  /\ certFile \in [pair : Content, mtime : 1..writes]
  /\ keyFile \in Nat
  /\ kept \in [pair : Content, mtime : 0..writes]
  /\ hs \in [Loader -> [at : HandshakeAt, mtime : 0..writes, pair : Content, begun : 0..writes]]

\* A pair that is kept with the present mtime is the present certificate's.
KeptIsRead == kept.mtime <= certFile.mtime
              /\ (kept.mtime = certFile.mtime => kept.pair = certFile.pair)

\* The same for the pair that a load has in its hands.
ReadIsRead(h) ==
  /\ hs[h].at \in {"cert", "key", "store"} => hs[h].mtime <= certFile.mtime
  /\ hs[h].at \in {"key", "store"} /\ hs[h].mtime = certFile.mtime => hs[h].pair = certFile.pair

\* A handshake during which nothing was written has statted the present mtime.
BegunIsPresent(h) ==
  hs[h].at \in {"compare", "cert", "key", "store"} /\ hs[h].begun = writes
    => hs[h].mtime = certFile.mtime

CertInv ==
  /\ CertTypeOK
  /\ KeptIsRead
  /\ \A h \in Loader : ReadIsRead(h)
  /\ \A h \in Handshake : BegunIsPresent(h)
-----------------------------------------------------------------------------
\* A new process has loaded nothing.
TenantsFresh ==
  /\ cached' = [tenants |-> 0, mtime |-> 0]
  /\ poll' = "idle"
  /\ statted' = 0
  /\ UNCHANGED <<atomic, file, version, clock>>

CertFresh ==
  /\ kept' = [pair |-> NoPair, mtime |-> 0]
  /\ hs' = [h \in Loader |-> Waiting]
  /\ UNCHANGED <<swapped, filesVars>>

\* What a step of the whole system is for the tenants ...
TenantsStep ==
  \/ UNCHANGED vars \/ TenantsFresh
  \/ Replace \/ Truncate \/ Fill \/ StatAdvanced \/ ReadStores \/ ReadFails

\* ... and for the keypair.
CertStep ==
  \/ UNCHANGED certVars \/ CertFresh
  \/ SwapPair \/ TruncateCert \/ WriteCert \/ WriteKey
  \/ PreloadBegins \/ Load(Preload)
  \/ \E h \in Handshake : getCertificate(h)

\* Every step of the system is one of those, whatever else it does.
LEMMA StepsAreSteps == StartupNext => TenantsStep /\ CertStep /\ UNCHANGED scenario
<1> SUFFICES ASSUME StartupNext PROVE TenantsStep /\ CertStep /\ UNCHANGED scenario
  OBVIOUS
<1> DEFINE Goal == TenantsStep /\ CertStep /\ UNCHANGED scenario
<1>1. Fresh => Goal
  BY DEF Fresh, TenantsStep, CertStep, TenantsFresh, CertFresh
<1>2. UNCHANGED <<vars, certVars, scenario>> => Goal
  BY DEF TenantsStep, CertStep
<1>3. ASSUME NEW from, NEW ok, NEW why, NEW to, Step(from, ok, why, to) PROVE Goal
  BY <1>3, <1>1, <1>2 DEF Step, Exit
<1>4. LoadConfig \/ NewEvaluator \/ NewSignerFromFiles \/ LoadHPKEKeys => Goal
  BY <1>3 DEF LoadConfig, NewEvaluator, NewSignerFromFiles, LoadHPKEKeys
<1>5. LoadFile \/ LoadFileFails \/ OpenStore \/ OpenStoreFails \/ Restart => Goal
  BY <1>1, <1>2 DEF LoadFile, LoadFileFails, OpenStore, OpenStoreFails, Restart, Exit
<1>6. LoadServerTLS \/ LoadPair => Goal
  BY <1>1 DEF LoadServerTLS, LoadPair, TenantsStep, CertStep, Exit
<1>7. LoadCertPool \/ ListenGRPC \/ ReadTenantsFails => Goal
  BY <1>1, <1>2 DEF LoadCertPool, ListenGRPC, ReadTenantsFails, Exit
<1>8. Listen => Goal
  BY <1>1, <1>2 DEF Listen, ListenAndServe, Exit
<1>9. StatTenants \/ ReadTenants => Goal
  BY DEF StatTenants, ReadTenants, TenantsStep, CertStep
<1>10. PollStats \/ PollStores \/ PollFails \/ RewriteConfig \/ FillConfig => Goal
  BY DEF PollStats, PollStores, PollFails, RewriteConfig, FillConfig, TenantsStep, CertStep
<1>11. RewritePair \/ FinishPair => Goal
  BY DEF RewritePair, FinishPair, TenantsStep, CertStep
<1>12. ASSUME NEW h \in Handshake, Connect(h) PROVE Goal
  BY <1>12 DEF Connect, TenantsStep, CertStep
<1> QED
  BY <1>4, <1>5, <1>6, <1>7, <1>8, <1>9, <1>10, <1>11, <1>12 DEF StartupNext, Main
-----------------------------------------------------------------------------
\* What config.Load accepts has all that evaluator.New insists on.
LEMMA ValidLacksNothing == ConfigValid => ~EvaluatorLacks
  BY DEF ConfigValid, ProviderValid, EvaluatorLacks

\* The initial states satisfy the invariant of run.
LEMMA InitMain == StartupInit => MainInv
  BY DEF StartupInit, MainInv, Phase, AfterConfig, AfterFile, AfterEvaluator

\* run returns, for a reason other than a missing setting.
LEMMA ExitMain ==
  ASSUME MainInv, NEW why, why # "lacks", Exit(why)
  PROVE  MainInv'
<1>1. scenario' = scenario /\ phase' = "exited" /\ reason' = why /\ up' = {}
  BY DEF Exit, Fresh
<1> QED
  BY <1>1 DEF MainInv, Phase, AfterConfig, AfterFile, AfterEvaluator

\* run goes on to another phase in which the invariant asks for no more than is
\* known already.
LEMMA GoOnMain ==
  ASSUME MainInv, UNCHANGED <<scenario, reason, loaded, up>>,
         phase' \in Phase,
         phase' \in AfterConfig => ConfigValid,
         phase' \in AfterFile => NamesDiffer(receiversOf[loaded]),
         phase' \in AfterEvaluator => EvaluatorAccepts,
         phase' = "tls" => AuthModeEnabled("mtls"),
         phase' = "hpke" => AuthModeEnabled("signed")
  PROVE  MainInv'
<1>1. env' = env
  BY DEF env
<1>2. ConfigValid' = ConfigValid /\ EvaluatorAccepts' = EvaluatorAccepts
      /\ AuthModeEnabled("mtls")' = AuthModeEnabled("mtls")
      /\ AuthModeEnabled("signed")' = AuthModeEnabled("signed")
  BY <1>1 DEF ConfigValid, ProviderValid, EvaluatorAccepts, AuthModeEnabled, AuthModes,
     llmProvider, llmModel, resolveAPIKey, HasKey, envOr, Given, boolEnv, parseSchemaMode
<1>3. NamesDiffer(receiversOf[loaded])' = NamesDiffer(receiversOf[loaded])
  BY DEF NamesDiffer
<1> QED
  BY <1>1, <1>2, <1>3 DEF MainInv

\* A listener opens on a port that no other one has.
LEMMA OpenMain ==
  ASSUME MainInv, NEW server, PortFree(server), up' \subseteq up \cup {server},
         UNCHANGED <<scenario, phase, reason, loaded>>
  PROVE  MainInv'
<1>1. env' = env
  BY DEF env
<1>2. \A s, r \in up' : env.port[s] = env.port[r] => s = r
  BY DEF PortFree, MainInv
<1>3. ConfigValid' = ConfigValid /\ EvaluatorAccepts' = EvaluatorAccepts
      /\ AuthModeEnabled("mtls")' = AuthModeEnabled("mtls")
      /\ AuthModeEnabled("signed")' = AuthModeEnabled("signed")
  BY <1>1 DEF ConfigValid, ProviderValid, EvaluatorAccepts, AuthModeEnabled, AuthModes,
     llmProvider, llmModel, resolveAPIKey, HasKey, envOr, Given, boolEnv, parseSchemaMode
<1>4. NamesDiffer(receiversOf[loaded])' = NamesDiffer(receiversOf[loaded])
  BY DEF NamesDiffer
<1> QED
  BY <1>1, <1>2, <1>3, <1>4 DEF MainInv

\* Every step of run preserves its invariant.
LEMMA RunStep ==
  ASSUME MainInv, Main
  PROVE  MainInv'
<1> USE DEF Phase, AfterConfig, AfterFile, AfterEvaluator
<1>1. CASE LoadConfig
  BY <1>1, ExitMain, GoOnMain DEF LoadConfig, Step
<1>2. CASE LoadFile
  <2>1. NamesDiffer(receiversOf[loaded'])
    BY <1>2 DEF LoadFile, BuildReceivers
  <2>2. phase = "file" /\ phase' = "store" /\ UNCHANGED <<scenario, reason, up>>
    BY <1>2 DEF LoadFile
  <2>3. env' = env /\ ConfigValid
    BY <2>2 DEF env, MainInv
  <2>4. ConfigValid'
    BY <2>3 DEF ConfigValid, ProviderValid, AuthModeEnabled, AuthModes,
       llmProvider, llmModel, resolveAPIKey, HasKey, envOr, Given
  <2>5. NamesDiffer(receiversOf[loaded])'
    BY <2>1 DEF NamesDiffer
  <2> QED
    BY <2>2, <2>3, <2>4, <2>5 DEF MainInv
<1>3. CASE LoadFileFails \/ OpenStoreFails \/ ReadTenantsFails
  BY <1>3, ExitMain DEF LoadFileFails, OpenStoreFails, ReadTenantsFails
<1>4. CASE OpenStore
  <2>1. phase = "store" /\ phase' = "evaluator" /\ UNCHANGED <<scenario, reason, loaded, up>>
    BY <1>4 DEF OpenStore
  <2>2. ConfigValid /\ NamesDiffer(receiversOf[loaded])
    BY <2>1 DEF MainInv
  <2> QED
    BY <2>1, <2>2, GoOnMain
<1>5. CASE NewEvaluator
  <2>1. phase = "evaluator"
    BY <1>5 DEF NewEvaluator, Step
  <2>2. ConfigValid /\ NamesDiffer(receiversOf[loaded]) /\ ~EvaluatorLacks
    BY <2>1, ValidLacksNothing DEF MainInv
  <2>3. CASE EvaluatorAccepts
    <3>1. /\ phase' = IF AuthModeEnabled("mtls") THEN "tls" ELSE "signer"
          /\ UNCHANGED <<scenario, reason, loaded, up>>
      BY <1>5, <2>2, <2>3 DEF NewEvaluator, Step
    <3> QED
      BY <2>2, <2>3, <3>1, GoOnMain
  <2>4. CASE ~EvaluatorAccepts
    <3>1. Exit("refused")
      BY <1>5, <2>2, <2>4 DEF NewEvaluator, Step
    <3> QED
      BY <3>1, ExitMain
  <2> QED
    BY <2>3, <2>4
<1>6. CASE LoadServerTLS
  <2>1. phase = "tls"
    BY <1>6 DEF LoadServerTLS
  <2>2. ConfigValid /\ NamesDiffer(receiversOf[loaded]) /\ EvaluatorAccepts /\ AuthModeEnabled("mtls")
    BY <2>1 DEF MainInv
  <2>3. Given("serverCert") /\ Given("serverKey") /\ Given("trustRoot")
    BY <2>2 DEF ConfigValid
  <2>4. phase' = "preload" /\ UNCHANGED <<scenario, reason, loaded, up>>
    BY <1>6, <2>3 DEF LoadServerTLS
  <2> QED
    BY <2>2, <2>4, GoOnMain
<1>7. ASSUME UNCHANGED <<scenario, mainVars>> PROVE MainInv'
  <2>1. UNCHANGED <<scenario, phase, reason, loaded, up>>
    BY <1>7 DEF mainVars
  <2> QED
    BY <2>1, GoOnMain DEF MainInv
<1>8. CASE LoadPair
  BY <1>8, <1>7 DEF LoadPair
<1>9. CASE LoadCertPool
  <2>1. phase = "preload"
    BY <1>9 DEF LoadCertPool
  <2>2. ConfigValid /\ NamesDiffer(receiversOf[loaded]) /\ EvaluatorAccepts
    BY <2>1 DEF MainInv
  <2>3. \/ phase' = "signer" /\ UNCHANGED <<scenario, reason, loaded, up>>
        \/ Exit("refused")
    BY <1>9 DEF LoadCertPool
  <2> QED
    BY <2>2, <2>3, ExitMain, GoOnMain
<1>10. CASE NewSignerFromFiles
  <2>1. phase = "signer"
    BY <1>10 DEF NewSignerFromFiles, Step
  <2>2. ConfigValid /\ NamesDiffer(receiversOf[loaded]) /\ EvaluatorAccepts
    BY <2>1 DEF MainInv
  <2>3. Why({"intermediateCA", "intermediateKey"}) = "refused"
    BY <2>2 DEF ConfigValid, Why
  <2>4. \/ phase' = "tenants" /\ UNCHANGED <<scenario, reason, loaded, up>>
        \/ Exit("refused")
    BY <1>10, <2>3 DEF NewSignerFromFiles, Step
  <2> QED
    BY <2>2, <2>4, ExitMain, GoOnMain
<1>11. CASE StatTenants
  <2>1. phase = "tenants" /\ phase' = "reading" /\ UNCHANGED <<scenario, reason, loaded, up>>
    BY <1>11 DEF StatTenants
  <2>2. ConfigValid /\ NamesDiffer(receiversOf[loaded]) /\ EvaluatorAccepts
    BY <2>1 DEF MainInv
  <2> QED
    BY <2>1, <2>2, GoOnMain
<1>12. CASE ReadTenants
  <2>1. /\ phase = "reading" /\ phase' = IF AuthModeEnabled("signed") THEN "hpke" ELSE "listen"
        /\ UNCHANGED <<scenario, reason, loaded, up>>
    BY <1>12 DEF ReadTenants
  <2>2. ConfigValid /\ NamesDiffer(receiversOf[loaded]) /\ EvaluatorAccepts
    BY <2>1 DEF MainInv
  <2> QED
    BY <2>1, <2>2, GoOnMain
<1>13. CASE LoadHPKEKeys
  <2>1. phase = "hpke"
    BY <1>13 DEF LoadHPKEKeys, Step
  <2>2. ConfigValid /\ NamesDiffer(receiversOf[loaded]) /\ EvaluatorAccepts /\ AuthModeEnabled("signed")
    BY <2>1 DEF MainInv
  <2>3. Why({"hpkeKey", "trustRoot", "intermediateCA"}) = "refused"
    BY <2>2 DEF ConfigValid, Why
  <2>4. \/ phase' = "listen" /\ UNCHANGED <<scenario, reason, loaded, up>>
        \/ Exit("refused")
    BY <1>13, <2>3 DEF LoadHPKEKeys, Step
  <2> QED
    BY <2>2, <2>4, ExitMain, GoOnMain
<1>14. CASE ListenGRPC
  <2>1. phase = "listen"
    BY <1>14 DEF ListenGRPC
  <2>2. ConfigValid /\ NamesDiffer(receiversOf[loaded]) /\ EvaluatorAccepts
    BY <2>1 DEF MainInv
  <2>3. CASE Exit("refused")
    BY <2>3, ExitMain
  <2>4. CASE ~Exit("refused")
    <3>1. /\ phase' = "select" /\ UNCHANGED <<scenario, reason, loaded>>
          /\ up' = AuthModes \cap {"mtls"}
      BY <1>14, <2>4 DEF ListenGRPC
    <3>2. env' = env
      BY <3>1 DEF env
    <3>3. ConfigValid' /\ EvaluatorAccepts'
      BY <2>2, <3>2 DEF ConfigValid, ProviderValid, EvaluatorAccepts, AuthModeEnabled, AuthModes,
         llmProvider, llmModel, resolveAPIKey, HasKey, envOr, Given, boolEnv, parseSchemaMode
    <3>4. NamesDiffer(receiversOf[loaded])'
      BY <2>2, <3>1 DEF NamesDiffer
    <3>5. \A s, r \in up' : s = r
      BY <3>1
    <3> QED
      BY <3>1, <3>3, <3>4, <3>5 DEF MainInv
  <2> QED
    BY <2>3, <2>4
<1>15. CASE Listen
  <2>1. PICK server : ListenAndServe(server)
    BY <1>15 DEF Listen
  <2>2. CASE PortFree(server)
    BY <2>1, <2>2, OpenMain DEF ListenAndServe
  <2>3. CASE ~PortFree(server)
    BY <2>1, <2>3, ExitMain DEF ListenAndServe
  <2> QED
    BY <2>2, <2>3
<1>16. CASE Restart
  <2>1. phase' = "config" /\ reason' = "none" /\ UNCHANGED <<scenario, up>>
    BY <1>16 DEF Restart
  <2> QED
    BY <2>1 DEF MainInv, env
<1> QED
  BY <1>1, <1>2, <1>3, <1>4, <1>5, <1>6, <1>8, <1>9, <1>10, <1>11, <1>12, <1>13, <1>14,
     <1>15, <1>16 DEF Main

\* Every step of the system preserves the invariant of run.
LEMMA NextMain == MainInv /\ [StartupNext]_startupVars => MainInv'
<1> SUFFICES ASSUME MainInv, [StartupNext]_startupVars PROVE MainInv'
  OBVIOUS
<1>1. CASE Main
  BY <1>1, RunStep
<1>2. CASE UNCHANGED <<scenario, mainVars>>
  <2>1. UNCHANGED <<scenario, phase, reason, loaded, up>>
    BY <1>2 DEF mainVars
  <2> QED
    BY <2>1, GoOnMain DEF MainInv
<1> QED
  BY <1>1, <1>2 DEF StartupNext, startupVars, PollStats, PollStores, PollFails, Connect,
     RewriteConfig, FillConfig, RewritePair, FinishPair

\* What run has established stays so.
THEOREM MainInvariance == StartupSpec => []MainInv
  BY InitMain, NextMain, PTL DEF StartupSpec

\* config.go:298-327: what config.Load accepts is complete; no later step of
\* startup fails because a setting it needs is missing.
THEOREM NothingIsLacking == StartupSpec => []ValidatedOnce
<1>1. MainInv => ValidatedOnce
  BY DEF MainInv, ValidatedOnce
<1> QED
  BY <1>1, MainInvariance, PTL

\* main.go: a process that serves on all its ports is the one its settings describe.
THEOREM ServedIsConfigured == StartupSpec => []ServesAsConfigured
<1>1. MainInv => ServesAsConfigured
  <2> SUFFICES ASSUME MainInv, Running PROVE ServesAsConfigured
    BY DEF ServesAsConfigured
  <2>1. phase = "select" /\ up = AuthModes \cup {"public"}
    BY DEF Running
  <2>2. ConfigValid /\ NamesDiffer(receiversOf[loaded]) /\ EvaluatorAccepts
    BY <2>1 DEF MainInv, Phase, AfterConfig, AfterFile, AfterEvaluator
  <2> DEFINE raw == IF env.authModes = <<>> THEN <<"mtls">> ELSE env.authModes
  <2>3. AuthModes # {} /\ AuthModes = Range(raw) \ {"blank"}
        /\ Range(raw) \subseteq {"mtls", "signed", "blank"}
    BY <2>2 DEF ConfigValid, AuthModes, parseAuthModes
  <2>4. up \ {"public"} = AuthModes /\ up # {"public"}
    BY <2>1, <2>3
  <2>5. Range(<<"mtls">>) = {"mtls"}
    BY DEF Range
  <2>6. AuthModes = IF env.authModes = <<>> THEN {"mtls"} ELSE Range(env.authModes) \ {"blank"}
    BY <2>3, <2>5
  <2>7. env.airGapped = "true" => llmProvider # "anthropic"
    BY <2>2 DEF EvaluatorAccepts, boolEnv
  <2>8. NewPool \/ env.callsPerMinute \in {"zero", "malformed"} \/ env.maxConcurrent \in {"zero", "malformed"}
    <3>1. \A setting \in {"callsPerMinute", "maxConcurrent"} :
            env[setting] \in {"unset", "positive", "zero", "malformed"}
      BY StartupAssumption DEF MainInv, env
    <3>2. env.callsPerMinute \in {"unset", "positive"} => Atoi("callsPerMinute") = 1
      BY DEF Atoi, envOr, Given
    <3>3. env.maxConcurrent \in {"unset", "positive"} => Atoi("maxConcurrent") = 1
      BY DEF Atoi, envOr, Given
    <3> QED
      BY <3>1, <3>2, <3>3 DEF NewPool
  <2>9. \A s, r \in up : env.port[s] = env.port[r] => s = r
    BY DEF MainInv
  <2> QED
    BY <2>2, <2>4, <2>6, <2>7, <2>8, <2>9 DEF ServesAsConfigured
<1> QED
  BY <1>1, MainInvariance, PTL
-----------------------------------------------------------------------------
\* The initial states satisfy the reloader's invariants.
LEMMA InitTenants == StartupInit => TenantsInv /\ WholeInv /\ NoMissedUpdate
  BY ReloaderAssumption DEF StartupInit, Init, TenantsInv, WholeInv, NoMissedUpdate

\* Every step of the system keeps the types of the reloader's variables.
LEMMA NextTenants ==
  TenantsInv /\ [StartupNext]_startupVars => TenantsInv'
<1> SUFFICES ASSUME TenantsInv, [StartupNext]_startupVars PROVE TenantsInv'
  OBVIOUS
<1>0. TenantsStep
  BY StepsAreSteps DEF startupVars, TenantsStep
<1> USE DEF TenantsInv
<1>1. CASE UNCHANGED vars
  BY <1>1 DEF vars
<1>2. CASE TenantsFresh
  BY <1>2 DEF TenantsFresh
<1>3. CASE Replace
  BY <1>3 DEF Replace, Later
<1>4. CASE Truncate
  BY <1>4 DEF Truncate, Later
<1>5. CASE Fill
  BY <1>5 DEF Fill, Later
<1>6. CASE StatAdvanced
  BY <1>6 DEF StatAdvanced
<1>7. CASE ReadStores
  BY <1>7, ReloaderAssumption DEF ReadStores, Valid, Version
<1>8. CASE ReadFails
  BY <1>8 DEF ReadFails
<1> QED
  BY <1>0, <1>1, <1>2, <1>3, <1>4, <1>5, <1>6, <1>7, <1>8 DEF TenantsStep

\* Every step keeps the file from being empty where it is replaced at once.
LEMMA NextWhole ==
  TenantsInv /\ WholeInv /\ [StartupNext]_startupVars => WholeInv'
<1> SUFFICES ASSUME TenantsInv, WholeInv, [StartupNext]_startupVars PROVE WholeInv'
  OBVIOUS
<1>0. TenantsStep
  BY StepsAreSteps DEF startupVars, TenantsStep
<1> USE ReloaderAssumption DEF TenantsInv, WholeInv
<1>1. CASE TenantsFresh
  <2>1. cached'.tenants = 0 /\ UNCHANGED <<atomic, file>>
    BY <1>1 DEF TenantsFresh
  <2> QED
    BY <2>1
<1>2. CASE Replace
  <2>1. version' \in Nat /\ file'.content = version' /\ UNCHANGED <<atomic, cached>>
    BY <1>2 DEF Replace
  <2> QED
    BY <2>1
<1>3. CASE Truncate \/ Fill
  BY <1>3 DEF Truncate, Fill
<1>4. CASE ReadStores
  <2>1. cached'.tenants = file.content /\ UNCHANGED <<atomic, file>>
    BY <1>4 DEF ReadStores
  <2> QED
    BY <2>1
<1>5. CASE StatAdvanced \/ ReadFails \/ UNCHANGED vars
  BY <1>5 DEF StatAdvanced, ReadFails, vars
<1> QED
  BY <1>0, <1>1, <1>2, <1>3, <1>4, <1>5 DEF TenantsStep

\* On a clock that tells two writes apart, no step hides a new version: a write
\* gets an mtime later than every one the poller knows, a successful read makes
\* the snapshot equal to the file.
LEMMA NextNoMissedUpdate ==
  ASSUME ~Coarse
  PROVE  TenantsInv /\ NoMissedUpdate /\ [StartupNext]_startupVars => NoMissedUpdate'
<1> SUFFICES ASSUME TenantsInv, NoMissedUpdate, [StartupNext]_startupVars PROVE NoMissedUpdate'
  OBVIOUS
<1>0. TenantsStep
  BY StepsAreSteps DEF startupVars, TenantsStep
<1> USE DEF TenantsInv, NoMissedUpdate
<1>1. CASE UNCHANGED vars \/ TenantsFresh
  BY <1>1 DEF vars, TenantsFresh
<1>2. CASE Replace
  BY <1>2 DEF Replace, Later
<1>3. CASE Truncate
  BY <1>3 DEF Truncate, Later
<1>4. CASE Fill
  BY <1>4 DEF Fill, Later
<1>5. CASE StatAdvanced \/ ReadStores \/ ReadFails
  BY <1>5 DEF StatAdvanced, ReadStores, ReadFails
<1> QED
  BY <1>0, <1>1, <1>2, <1>3, <1>4, <1>5 DEF TenantsStep

\* tenants_reloader.go: every stale snapshot is one that the next poll re-reads,
\* however the writer's steps fall between Stat and ReadFile and whichever step
\* of startup or of a later poll loaded it.
THEOREM StaleIsNoticed ==
  ASSUME ~Coarse PROVE StartupSpec => []NoMissedUpdate
<1>1. StartupInit => TenantsInv /\ NoMissedUpdate
  BY InitTenants
<1>2. TenantsInv /\ NoMissedUpdate /\ [StartupNext]_startupVars => TenantsInv' /\ NoMissedUpdate'
  BY NextTenants, NextNoMissedUpdate
<1> QED
  BY <1>1, <1>2, PTL DEF StartupSpec

\* tenants_reloader.go:43: with whole-file replacement the process is never left
\* without tenants by a reload, on any clock.
THEOREM NotWipedByReplacement == StartupSpec => []NeverWiped
<1>1. StartupInit => TenantsInv /\ WholeInv
  BY InitTenants
<1>2. TenantsInv /\ WholeInv /\ [StartupNext]_startupVars => TenantsInv' /\ WholeInv'
  BY NextTenants, NextWhole
<1>3. WholeInv => NeverWiped
  BY DEF WholeInv, NeverWiped
<1> QED
  BY <1>1, <1>2, <1>3, PTL DEF StartupSpec
-----------------------------------------------------------------------------
\* The initial states satisfy the invariant of the keypair.
LEMMA InitCert == StartupInit => CertInv
<1> SUFFICES ASSUME StartupInit PROVE CertInv
  OBVIOUS
<1>1. CertInit
  BY DEF StartupInit
<1>2. CertTypeOK
  BY <1>1 DEF CertInit, CertTypeOK, Waiting, Content, HandshakeAt
<1>3. \A h \in Loader : hs[h].at = "waiting"
  BY <1>1 DEF CertInit, Waiting
<1>4. KeptIsRead
  BY <1>1 DEF CertInit, KeptIsRead
<1> QED
  BY <1>2, <1>3, <1>4 DEF CertInv, ReadIsRead, BegunIsPresent, Loader

\* A step of the writer, which is later than all that was statted or begun before.
LEMMA WriterStep ==
  ASSUME CertInv, writes' = writes + 1, UNCHANGED <<kept, hs>>,
         renewals' \in Nat, keyFile' \in Nat,
         \/ certFile' = certFile
         \/ certFile' \in [pair : Content, mtime : {writes'}]
  PROVE  CertInv'
<1>0. writes \in Nat \ {0} /\ certFile \in [pair : Content, mtime : 1..writes]
      /\ kept \in [pair : Content, mtime : 0..writes]
      /\ hs \in [Loader -> [at : HandshakeAt, mtime : 0..writes, pair : Content, begun : 0..writes]]
  BY DEF CertInv, CertTypeOK
<1>1. CertTypeOK'
  BY <1>0 DEF CertTypeOK
<1>2. certFile' = certFile \/ certFile'.mtime = writes + 1
  OBVIOUS
<1>3. KeptIsRead'
  BY <1>0, <1>2 DEF CertInv, KeptIsRead
<1>4. ASSUME NEW h \in Loader PROVE ReadIsRead(h)'
  <2>1. hs[h].mtime \in 0..writes
    BY <1>0
  <2> QED
    BY <1>0, <1>2, <2>1 DEF CertInv, ReadIsRead
<1>5. ASSUME NEW h \in Handshake PROVE BegunIsPresent(h)'
  <2>1. hs[h].begun \in 0..writes
    BY <1>0 DEF Loader
  <2>2. hs'[h].begun # writes'
    BY <1>0, <2>1
  <2> QED
    BY <2>2 DEF BegunIsPresent
<1> QED
  BY <1>1, <1>3, <1>4, <1>5 DEF CertInv

\* A step of one loader that leaves the files and the kept pair alone.
LEMMA LoaderStep ==
  ASSUME CertInv, UNCHANGED <<filesVars, kept>>, NEW l \in Loader,
         NEW v \in [at : HandshakeAt, mtime : 0..writes, pair : Content, begun : 0..writes],
         hs' = [hs EXCEPT ![l] = v],
         ReadIsRead(l)', l \in Handshake => BegunIsPresent(l)'
  PROVE  CertInv'
<1>0. UNCHANGED <<certFile, keyFile, renewals, writes, kept>>
  BY DEF filesVars
<1>1. hs \in [Loader -> [at : HandshakeAt, mtime : 0..writes, pair : Content, begun : 0..writes]]
  BY DEF CertInv, CertTypeOK
<1>2. CertTypeOK'
  BY <1>0, <1>1 DEF CertInv, CertTypeOK
<1>3. \A h \in Loader : h # l => hs'[h] = hs[h]
  BY <1>1
<1>4. \A h \in Loader : h # l => ReadIsRead(h)'
  BY <1>0, <1>3 DEF CertInv, ReadIsRead
<1>5. \A h \in Handshake : h # l => BegunIsPresent(h)'
  BY <1>0, <1>3 DEF CertInv, BegunIsPresent, Loader
<1>6. KeptIsRead'
  BY <1>0 DEF CertInv, KeptIsRead
<1> QED
  BY <1>2, <1>4, <1>5, <1>6 DEF CertInv

\* A loader moves to a place where nothing is asked of what it read.
LEMMA HarmlessStep ==
  ASSUME CertInv, UNCHANGED <<filesVars, kept>>, NEW l \in Loader,
         NEW v \in [at : HandshakeAt \ {"compare", "cert", "key", "store"},
                    mtime : 0..writes, pair : Content, begun : 0..writes],
         hs' = [hs EXCEPT ![l] = v]
  PROVE  CertInv'
<1>1. hs'[l] = v
  BY DEF CertInv, CertTypeOK
<1>2. ReadIsRead(l)' /\ BegunIsPresent(l)'
  BY <1>1 DEF ReadIsRead, BegunIsPresent
<1>3. v \in [at : HandshakeAt, mtime : 0..writes, pair : Content, begun : 0..writes]
  OBVIOUS
<1> QED
  BY <1>2, <1>3, LoaderStep

\* Every step of a loader preserves the invariant.
LEMMA LoadStep ==
  ASSUME CertInv, NEW l \in Loader, PreloadBegins \/ getCertificate(l)
  PROVE  CertInv'
<1> DEFINE Rec == [at : HandshakeAt, mtime : 0..writes, pair : Content, begun : 0..writes]
           Harmless == [at : HandshakeAt \ {"compare", "cert", "key", "store"},
                        mtime : 0..writes, pair : Content, begun : 0..writes]
<1>0. /\ writes \in Nat \ {0} /\ certFile \in [pair : Content, mtime : 1..writes]
      /\ kept \in [pair : Content, mtime : 0..writes]
      /\ hs \in [Loader -> Rec] /\ hs[l] \in Rec /\ NoPair \in Content
  BY DEF CertInv, CertTypeOK, Content
<1>b. 0 \in 0..writes /\ writes \in 0..writes /\ certFile.mtime \in 0..writes
      /\ \A x \in Harmless : x \in Rec
  BY <1>0
<1>c. ReadIsRead(l) /\ (l \in Handshake => BegunIsPresent(l))
  BY DEF CertInv
<1>1. ASSUME NEW h \in Loader, NEW to \in {"fell back", "load", "refused"}, Goes(h, to), UNCHANGED <<filesVars, kept>>
      PROVE  CertInv'
  <2>1. [hs[h] EXCEPT !.at = to] \in Harmless
    BY <1>0, <1>b DEF HandshakeAt
  <2>2. hs' = [hs EXCEPT ![h] = [hs[h] EXCEPT !.at = to]]
    BY <1>1 DEF Goes
  <2> HIDE DEF Harmless
  <2> QED
    BY <1>1, <2>1, <2>2, HarmlessStep DEF Harmless
<1>2. ASSUME NEW p \in Content, Answers(l, p), UNCHANGED <<filesVars, kept>>
      PROVE  CertInv'
  <2> DEFINE v == [at |-> "answered", mtime |-> 0, pair |-> p, begun |-> 0]
  <2>1. v \in Harmless
    BY <1>0, <1>b DEF HandshakeAt
  <2>2. hs' = [hs EXCEPT ![l] = v]
    BY <1>2 DEF Answers
  <2> HIDE DEF Harmless, v
  <2> QED
    BY <1>2, <2>1, <2>2, HarmlessStep DEF Harmless
<1>3. CASE PreloadBegins
  BY <1>1, <1>3 DEF PreloadBegins, Loader
<1>4. CASE StatCert(l)
  <2> DEFINE v == [hs[l] EXCEPT !.at = "compare", !.mtime = certFile.mtime, !.begun = writes]
  <2>1. v \in Rec /\ v.at = "compare" /\ v.mtime = certFile.mtime
    BY <1>0, <1>b DEF HandshakeAt
  <2>2. hs' = [hs EXCEPT ![l] = v] /\ UNCHANGED <<filesVars, kept>>
    BY <1>4 DEF StatCert
  <2>3. hs'[l] = v /\ certFile' = certFile
    BY <1>0, <2>2 DEF filesVars
  <2> HIDE DEF v
  <2>4. ReadIsRead(l)' /\ BegunIsPresent(l)'
    BY <2>1, <2>3 DEF ReadIsRead, BegunIsPresent
  <2> QED
    BY <2>1, <2>2, <2>4, LoaderStep
<1>5. CASE StatFails(l)
  BY <1>1, <1>5 DEF StatFails
<1>6. CASE Compare(l)
  BY <1>0, <1>1, <1>2, <1>6 DEF Compare
<1>7. CASE LoadStats(l)
  <2> DEFINE v == [hs[l] EXCEPT !.at = "cert", !.mtime = certFile.mtime]
  <2>1. v \in Rec /\ v.at = "cert" /\ v.mtime = certFile.mtime
    BY <1>0, <1>b DEF HandshakeAt
  <2>2. hs' = [hs EXCEPT ![l] = v] /\ UNCHANGED <<filesVars, kept>>
    BY <1>0, <1>7 DEF LoadStats
  <2>3. hs'[l] = v /\ certFile' = certFile
    BY <1>0, <2>2 DEF filesVars
  <2> HIDE DEF v
  <2>4. ReadIsRead(l)' /\ BegunIsPresent(l)'
    BY <1>0, <2>1, <2>3 DEF ReadIsRead, BegunIsPresent
  <2> QED
    BY <2>1, <2>2, <2>4, LoaderStep
<1>8. CASE LoadStatFails(l)
  <2> DEFINE v == [Waiting EXCEPT !.at = "refused"]
  <2>1. v \in Harmless
    BY <1>0, <1>b DEF HandshakeAt, Waiting
  <2>2. hs' = [hs EXCEPT ![l] = v] /\ UNCHANGED <<filesVars, kept>>
    BY <1>8 DEF LoadStatFails
  <2> HIDE DEF v, Harmless
  <2> QED
    BY <2>1, <2>2, HarmlessStep DEF Harmless
<1>9. CASE ReadCert(l)
  <2> DEFINE v == [hs[l] EXCEPT !.at = "key", !.pair = certFile.pair]
  <2>1. v \in Rec /\ v.at = "key" /\ v.pair = certFile.pair /\ v.mtime = hs[l].mtime /\ v.begun = hs[l].begun
    BY <1>0, <1>b DEF HandshakeAt
  <2>2. hs' = [hs EXCEPT ![l] = v] /\ UNCHANGED <<filesVars, kept>> /\ hs[l].at = "cert"
    BY <1>0, <1>9 DEF ReadCert
  <2>3. hs'[l] = v /\ certFile' = certFile /\ writes' = writes
    BY <1>0, <2>2 DEF filesVars
  <2> HIDE DEF v
  <2>4. ReadIsRead(l)'
    BY <1>c, <2>1, <2>2, <2>3 DEF ReadIsRead
  <2>5. l \in Handshake => BegunIsPresent(l)'
    BY <1>c, <2>1, <2>2, <2>3 DEF BegunIsPresent
  <2> QED
    BY <2>1, <2>2, <2>4, <2>5, LoaderStep
<1>10. CASE ReadKey(l)
  <2> DEFINE v == [hs[l] EXCEPT !.at = "store"]
  <2>1. v \in Rec /\ v.at = "store" /\ v.pair = hs[l].pair /\ v.mtime = hs[l].mtime /\ v.begun = hs[l].begun
    BY <1>0, <1>b DEF HandshakeAt
  <2>2. hs' = [hs EXCEPT ![l] = v] /\ UNCHANGED <<filesVars, kept>> /\ hs[l].at = "key"
    BY <1>0, <1>10 DEF ReadKey, Goes
  <2>3. hs'[l] = v /\ certFile' = certFile /\ writes' = writes
    BY <1>0, <2>2 DEF filesVars
  <2> HIDE DEF v
  <2>4. ReadIsRead(l)'
    BY <1>c, <2>1, <2>2, <2>3 DEF ReadIsRead
  <2>5. l \in Handshake => BegunIsPresent(l)'
    BY <1>c, <2>1, <2>2, <2>3 DEF BegunIsPresent
  <2> QED
    BY <2>1, <2>2, <2>4, <2>5, LoaderStep
<1>11. CASE LoadFails(l)
  BY <1>0, <1>1, <1>2, <1>11 DEF LoadFails
<1>12. CASE StorePair(l)
  <2> DEFINE v == [at |-> "answered", mtime |-> 0, pair |-> hs[l].pair, begun |-> 0]
  <2>1. v \in Rec /\ v.at = "answered"
    BY <1>0, <1>b DEF HandshakeAt
  <2>2. /\ hs' = [hs EXCEPT ![l] = v] /\ UNCHANGED filesVars /\ hs[l].at = "store"
        /\ kept' = [pair |-> hs[l].pair, mtime |-> hs[l].mtime]
    BY <1>12 DEF StorePair, Answers
  <2>3. UNCHANGED <<certFile, keyFile, renewals, writes>>
    BY <2>2 DEF filesVars
  <2> HIDE DEF v
  <2>4. CertTypeOK'
    BY <1>0, <2>1, <2>2, <2>3 DEF CertInv, CertTypeOK
  <2>5. KeptIsRead'
    BY <2>2, <2>3 DEF CertInv, KeptIsRead, ReadIsRead
  <2>6. \A h \in Loader : hs'[h] = hs[h] \/ hs'[h].at = "answered"
    BY <1>0, <2>1, <2>2
  <2>7. \A h \in Loader : ReadIsRead(h)'
    BY <2>3, <2>6 DEF CertInv, ReadIsRead
  <2>8. \A h \in Handshake : BegunIsPresent(h)'
    BY <2>3, <2>6 DEF CertInv, BegunIsPresent, Loader
  <2> QED
    BY <2>4, <2>5, <2>7, <2>8 DEF CertInv
<1> QED
  BY <1>3, <1>4, <1>5, <1>6, <1>7, <1>8, <1>9, <1>10, <1>11, <1>12 DEF getCertificate, Load

\* Every step of the system preserves the invariant of the keypair.
LEMMA NextCert == CertInv /\ [StartupNext]_startupVars => CertInv'
<1> SUFFICES ASSUME CertInv, [StartupNext]_startupVars PROVE CertInv'
  OBVIOUS
<1>0. CertStep
  BY StepsAreSteps DEF startupVars, CertStep
<1>1. CASE UNCHANGED certVars
  BY <1>1 DEF certVars, filesVars, CertInv, CertTypeOK, KeptIsRead, ReadIsRead, BegunIsPresent
<1>2. CASE CertFresh
  <2>1. UNCHANGED <<certFile, keyFile, renewals, writes>> /\ kept' = [pair |-> NoPair, mtime |-> 0]
        /\ hs' = [h \in Loader |-> Waiting]
    BY <1>2 DEF CertFresh, filesVars
  <2>2. CertTypeOK'
    <3>1. writes \in Nat /\ 0 \in 0..writes
      BY DEF CertInv, CertTypeOK
    <3>2. Waiting \in [at : HandshakeAt, mtime : 0..writes, pair : Content, begun : 0..writes]
      BY <3>1 DEF Waiting, Content, HandshakeAt
    <3> QED
      BY <2>1, <3>1, <3>2 DEF CertInv, CertTypeOK, Content
  <2>3. \A h \in Loader : hs'[h].at = "waiting"
    BY <2>1 DEF Waiting
  <2>4. KeptIsRead'
    BY <2>1 DEF CertInv, CertTypeOK, KeptIsRead
  <2> QED
    BY <2>2, <2>3, <2>4 DEF CertInv, ReadIsRead, BegunIsPresent, Loader
<1>3. CASE SwapPair \/ TruncateCert \/ WriteCert \/ WriteKey
  <2>1. writes \in Nat /\ renewals \in Nat /\ keyFile \in Nat /\ renewals + 1 \in Nat
    BY DEF CertInv, CertTypeOK
  <2>2. writes' = writes + 1 /\ UNCHANGED <<kept, hs>> /\ renewals' \in Nat /\ keyFile' \in Nat
    BY <1>3, <2>1 DEF SwapPair, TruncateCert, WriteCert, WriteKey
  <2>3. \/ certFile' = certFile
        \/ certFile' \in [pair : Content, mtime : {writes'}]
    BY <1>3, <2>1 DEF SwapPair, TruncateCert, WriteCert, WriteKey, Content
  <2> QED
    BY <2>2, <2>3, WriterStep
<1>4. CASE PreloadBegins \/ Load(Preload)
  BY <1>4, LoadStep DEF Loader, getCertificate
<1>5. CASE \E h \in Handshake : getCertificate(h)
  BY <1>5, LoadStep DEF Loader
<1> QED
  BY <1>0, <1>1, <1>2, <1>3, <1>4, <1>5 DEF CertStep

\* What is known of the keypair stays so.
THEOREM CertInvariance == StartupSpec => []CertInv
  BY InitCert, NextCert, PTL DEF StartupSpec

\* tls.go:106-107: a handshake during which the files stay one matching pair is
\* answered with that pair, whatever other handshakes store meanwhile.
THEOREM SettledIsServed == StartupSpec => SettledPairIsServed
<1> DEFINE A == \A h \in Handshake :
                  /\ hs[h].at # "answered" /\ hs'[h].at = "answered"
                  /\ hs[h].begun = writes /\ certFile.pair = keyFile
                  => hs'[h].pair = keyFile
<1>1. CertInv /\ [StartupNext]_startupVars => [A]_certVars
  <2> SUFFICES ASSUME CertInv, StartupNext, NEW h \in Handshake,
                      hs[h].at # "answered", hs'[h].at = "answered",
                      hs[h].begun = writes, certFile.pair = keyFile
               PROVE  hs'[h].pair = keyFile
    BY DEF startupVars
  <2> DEFINE Rec == [at : HandshakeAt, mtime : 0..writes, pair : Content, begun : 0..writes]
  <2>0. hs \in [Loader -> Rec] /\ h \in Loader /\ Preload \in Loader /\ h # Preload
        /\ writes \in Nat /\ kept.mtime \in Nat /\ certFile.mtime \in Nat
    BY CertAssumption DEF CertInv, CertTypeOK, Loader
  <2>i. KeptIsRead /\ ReadIsRead(h) /\ BegunIsPresent(h)
    BY <2>0 DEF CertInv
  <2>1. ~CertFresh
    BY <2>0 DEF CertFresh, Waiting
  <2>2. ~(SwapPair \/ TruncateCert \/ WriteCert \/ WriteKey \/ UNCHANGED certVars)
    BY DEF SwapPair, TruncateCert, WriteCert, WriteKey, certVars
  <2>3. \A g \in Loader : getCertificate(g) /\ g # h => hs'[h] = hs[h]
    BY <2>0 DEF getCertificate, Load, StatCert, StatFails, Compare, LoadStats, LoadStatFails, ReadCert,
                ReadKey, LoadFails, StorePair, Goes, Answers
  <2>4. ~PreloadBegins
    BY <2>0 DEF PreloadBegins, Goes
  <2>5. getCertificate(h)
    <3>1. PICK g \in Loader : getCertificate(g)
      BY <2>0, <2>1, <2>2, <2>4, StepsAreSteps DEF CertStep, getCertificate, Loader
    <3> QED
      BY <2>3, <3>1
  <2>6. ~(StatCert(h) \/ StatFails(h) \/ LoadStats(h) \/ LoadStatFails(h) \/ ReadCert(h) \/ ReadKey(h))
    <3>1. hs[h] \in Rec /\ (\A v : hs' = [hs EXCEPT ![h] = v] => hs'[h] = v)
      BY <2>0
    <3>2. ~(StatCert(h) \/ StatFails(h) \/ LoadStats(h))
      BY <2>0, <3>1 DEF StatCert, StatFails, LoadStats, Goes
    <3>3. ~(LoadStatFails(h) \/ ReadCert(h) \/ ReadKey(h))
      BY <2>0, <3>1 DEF LoadStatFails, ReadCert, ReadKey, Goes, Waiting
    <3> QED
      BY <3>2, <3>3
  <2>7. CASE Compare(h)
    <3>1. hs[h].mtime = certFile.mtime
      BY <2>7, <2>i DEF BegunIsPresent, Compare
    <3>2. hs[h].mtime <= kept.mtime /\ hs'[h].pair = kept.pair
      BY <2>0, <2>7 DEF Compare, Goes, Answers
    <3>3. kept.pair = certFile.pair
      BY <2>0, <2>i, <3>1, <3>2 DEF KeptIsRead
    <3> QED
      BY <3>2, <3>3
  <2>8. CASE LoadFails(h) \/ StorePair(h)
    <3>1. hs[h].at \in {"key", "store"}
      BY <2>8 DEF LoadFails, StorePair
    <3>2. hs[h].pair = certFile.pair
      BY <2>0, <2>i, <3>1 DEF BegunIsPresent, ReadIsRead
    <3>3. StorePair(h)
      BY <2>8, <3>2 DEF LoadFails
    <3> QED
      BY <2>0, <3>2, <3>3 DEF StorePair, Answers
  <2> QED
    BY <2>5, <2>6, <2>7, <2>8 DEF getCertificate, Load
<1> QED
  BY <1>1, CertInvariance, PTL DEF StartupSpec, SettledPairIsServed
=============================================================================
