-------------------------------- MODULE Startup --------------------------------
(***************************************************************************)
(* run of cmd/muthur/main.go up to its select, and what it calls on the    *)
(* way: config.Load, appconfig.Load, notify.BuildReceivers, newStore,      *)
(* evaluator.New, LoadServerTLS, NewSignerFromFiles, NewTenantsReloader,   *)
(* LoadHPKEKeys, LoadTrustPools and the listeners.                         *)
(*                                                                         *)
(* It composes TenantsReloader and CertReloader: startup loads the first   *)
(* tenants and the first keypair through them, and once the process serves *)
(* they follow their files.  The config file is read twice, by             *)
(* appconfig.Load and by the reloader, and may change in between.  A       *)
(* process that exits is started again.                                    *)
(*                                                                         *)
(* The environment is a record of settings: each is "unset" or what it     *)
(* names ("good", "bad").  What happens after a signal is in Shutdown.     *)
(***************************************************************************)
EXTENDS TenantsReloader, CertReloader, Functions

CONSTANTS
  Scenario,      \* [env, rewritten]: settings, and which files change
  receiversOf    \* the receivers listed in each version of the config file

\* What the text of a numeric setting is told apart by.
ASSUME StartupAssumption ==
  \A s \in Scenario : \A setting \in {"callsPerMinute", "maxConcurrent"} :
    s.env[setting] \in {"unset", "positive", "zero", "malformed"}

VARIABLES
  scenario,  \* the environment; never changes
  phase,     \* where run is
  reason,    \* why run returned: "none", "refused", or "lacks" a setting
  loaded,    \* the version appconfig.Load has read, 0 before
  up         \* the servers whose listener is open

mainVars == <<phase, reason, loaded, up>>
startupVars == <<scenario, mainVars, vars, certVars>>

env == scenario.env
Given(setting) == env[setting] # "unset"
-----------------------------------------------------------------------------
\* config.Load.

\* envOr.
envOr(setting, fallback) == IF Given(setting) THEN env[setting] ELSE fallback

llmProvider == envOr("provider", "anthropic")

\* LLM_MODEL, or for anthropic a default.
llmModel == IF llmProvider = "anthropic" THEN envOr("model", "default") ELSE env.model

\* resolveAPIKey: the file, "missing" if it cannot be read, or the variable.
resolveAPIKey == IF Given("keyFile") THEN env.keyFile ELSE env.keyEnv

HasKey == resolveAPIKey = "text"

\* boolEnv with fallback FALSE: malformed text counts as unset.
boolEnv(setting) == env[setting] = "true"

\* strconv.Atoi with the error ignored: malformed text counts as zero.
Atoi(setting) == IF envOr(setting, "positive") = "positive" THEN 1 ELSE 0

\* llmlimit.NewPool returns a pool, not nil.
NewPool == Atoi("callsPerMinute") > 0 /\ Atoi("maxConcurrent") > 0

\* Mutation: an unknown mode is skipped.
parseAuthModes_SkipsUnknown(raw) == Range(raw) \cap {"mtls", "signed"}

\* parseAuthModes of a list of names, {} if it returns an error.
parseAuthModes(raw) ==
  IF Range(raw) \subseteq {"mtls", "signed", "blank"} THEN Range(raw) \ {"blank"} ELSE {}

AuthModes == parseAuthModes(IF env.authModes = <<>> THEN <<"mtls">> ELSE env.authModes)

AuthModeEnabled(mode) == mode \in AuthModes

\* The provider has what it needs.
ProviderValid ==
  \/ llmProvider = "anthropic" /\ HasKey
  \/ llmProvider = "openai-compatible" /\ Given("baseURL") /\ llmModel # "unset"

\* Mutation: the signed mode does not ask for its key.
ConfigValid_NoHPKE ==
  /\ resolveAPIKey # "missing" /\ AuthModes # {} /\ ProviderValid
  /\ Given("trustRoot") /\ Given("intermediateCA") /\ Given("intermediateKey")
  /\ AuthModeEnabled("mtls") => Given("serverCert") /\ Given("serverKey")

\* config.Load returns no error.
ConfigValid ==
  /\ resolveAPIKey # "missing" /\ AuthModes # {} /\ ProviderValid
  /\ Given("trustRoot") /\ Given("intermediateCA") /\ Given("intermediateKey")
  /\ AuthModeEnabled("mtls") => Given("serverCert") /\ Given("serverKey")
  /\ AuthModeEnabled("signed") => Given("hpkeKey")
-----------------------------------------------------------------------------
\* notify.BuildReceivers.

\* The settings each factory insists on.
newTelegram == {"token", "chat_id"}
newDiscord == {"webhook_url"}
newSlack == {"webhook_url"}
newPagerDuty == {"routing_key"}
newWebhook == {"url"}
newSMTP == {"host", "from", "to"}

factories ==
  [telegram |-> newTelegram, discord |-> newDiscord, slack |-> newSlack,
   pagerduty |-> newPagerDuty, webhook |-> newWebhook, smtp |-> newSMTP, email |-> newSMTP]

\* resolveConfig: every file named can be read.
Resolves(rc) == \A s \in rc.config : s.is # "missing"

\* The factory has its settings; a file with nothing but white space has none.
Builds(rc) ==
  /\ rc.type \in DOMAIN factories
  /\ Resolves(rc)
  /\ factories[rc.type] \subseteq {s.key : s \in {x \in rc.config : x.is = "text"}}

\* A name, unless it is empty, occurs once: a second one ends the loop.
NamesDiffer(configs) ==
  \A i, j \in DOMAIN configs : configs[i].name = configs[j].name => i = j \/ configs[i].name = ""

\* The error, and the names under which receivers are registered.
BuildReceivers(configs) ==
  [err |-> ~NamesDiffer(configs),
   out |-> {rc.name : rc \in {x \in Range(configs) : x.name # "" /\ Builds(x)}}]
-----------------------------------------------------------------------------
\* run.

\* The process does not exist yet, or no longer.
Fresh ==
  /\ loaded' = 0
  /\ up' = {}
  /\ cached' = [tenants |-> 0, mtime |-> 0]
  /\ poll' = "idle"
  /\ statted' = 0
  /\ kept' = [pair |-> NoPair, mtime |-> 0]
  /\ hs' = [h \in Loader |-> Waiting]
  /\ UNCHANGED <<scenario, atomic, file, version, clock, swapped, filesVars>>

\* run returns an error, its deferred calls release what it held.
Exit(why) == phase' = "exited" /\ reason' = why /\ Fresh

\* The container is started again.
Restart ==
  /\ phase = "exited"
  /\ phase' = "config" /\ reason' = "none"
  /\ UNCHANGED <<scenario, loaded, up, vars, certVars>>

\* One step of run that opens nothing: it fails with Why, or goes on.
Step(from, ok, why, to) ==
  /\ phase = from
  /\ IF ok
     THEN /\ phase' = to
          /\ UNCHANGED <<scenario, reason, loaded, up, vars, certVars>>
     ELSE Exit(why)

LoadConfig == Step("config", ConfigValid, "refused", "file")

\* appconfig.Load reads the config file, BuildReceivers builds what it lists.
\* A version in Bad may be one that Load can parse.
LoadFile ==
  /\ phase = "file"
  /\ file.content \in Valid \cup Bad \cup {Empty}
  /\ ~BuildReceivers(receiversOf[file.content]).err
  /\ phase' = "store"
  /\ loaded' = file.content
  /\ UNCHANGED <<scenario, reason, up, vars, certVars>>

LoadFileFails ==
  /\ phase = "file"
  /\ file.content \in Bad \/ BuildReceivers(receiversOf[file.content]).err
  /\ Exit("refused")

\* newStore: in memory, or Redis, which must answer a PING.
OpenStore ==
  /\ phase = "store"
  /\ env.redis # "bad"
  /\ phase' = "evaluator"
  /\ UNCHANGED <<scenario, reason, loaded, up, vars, certVars>>

OpenStoreFails ==
  /\ phase = "store"
  /\ env.redis \in {"flaky", "bad"}
  /\ Exit("refused")

\* evaluator.New: what it lacks, and what it refuses.
EvaluatorLacks ==
  \/ llmProvider = "anthropic" /\ ~HasKey
  \/ llmProvider = "openai-compatible" /\ (~Given("baseURL") \/ llmModel = "unset")
  \/ llmProvider \notin {"anthropic", "openai-compatible"}

parseSchemaMode == envOr("schemaMode", "good") = "good"

EvaluatorAccepts ==
  /\ llmProvider = "anthropic" => ~boolEnv("airGapped")
  /\ llmProvider = "openai-compatible" => parseSchemaMode

NewEvaluator ==
  Step("evaluator", EvaluatorAccepts /\ ~EvaluatorLacks,
       IF EvaluatorLacks THEN "lacks" ELSE "refused",
       IF AuthModeEnabled("mtls") THEN "tls" ELSE "signer")

\* LoadServerTLS preloads the keypair ...
LoadServerTLS ==
  /\ phase = "tls"
  /\ IF Given("serverCert") /\ Given("serverKey") /\ Given("trustRoot")
     THEN /\ PreloadBegins
          /\ phase' = "preload"
          /\ UNCHANGED <<scenario, reason, loaded, up, vars>>
     ELSE Exit("lacks")

LoadPair ==
  /\ phase = "preload"
  /\ Load(Preload)
  /\ UNCHANGED <<scenario, mainVars, vars>>

\* appendCertsFromFile: a PEM file with a certificate.
HoldsCerts(setting) == env[setting] \in {"good", "leaf"}

\* ... and reads the trust root and the intermediate.
LoadCertPool ==
  /\ phase = "preload"
  /\ \/ /\ hs[Preload].at = "answered" /\ HoldsCerts("trustRoot") /\ HoldsCerts("intermediateCA")
        /\ phase' = "signer"
        /\ UNCHANGED <<scenario, reason, loaded, up, vars, certVars>>
     \/ /\ \/ hs[Preload].at = "refused"
           \/ hs[Preload].at = "answered" /\ ~(HoldsCerts("trustRoot") /\ HoldsCerts("intermediateCA"))
        /\ Exit("refused")

\* Why a step that needs some files fails.
Why(settings) == IF \A s \in settings : Given(s) THEN "refused" ELSE "lacks"

\* NewSignerFromFiles: both files parse and the certificate is a CA's.  That
\* they belong together is not looked at.
NewSignerFromFiles ==
  Step("signer", env.intermediateCA = "good" /\ env.intermediateKey = "good",
       Why({"intermediateCA", "intermediateKey"}), "tenants")

\* NewTenantsReloader calls reload ...
StatTenants ==
  /\ phase = "tenants"
  /\ StatAdvanced
  /\ phase' = "reading"
  /\ UNCHANGED <<scenario, reason, loaded, up, certVars>>

ReadTenants ==
  /\ phase = "reading"
  /\ ReadStores
  /\ phase' = IF AuthModeEnabled("signed") THEN "hpke" ELSE "listen"
  /\ UNCHANGED <<scenario, reason, loaded, up, certVars>>

\* ... and a failure, which later would be tolerated, is fatal.
ReadTenantsFails ==
  /\ phase = "reading"
  /\ Exit("refused")

\* LoadHPKEKeys and LoadTrustPools.
LoadHPKEKeys ==
  Step("hpke", env.hpkeKey = "good" /\ HoldsCerts("trustRoot") /\ HoldsCerts("intermediateCA"),
       Why({"hpkeKey", "trustRoot", "intermediateCA"}), "listen")

\* Nobody listens on the server's port.
PortFree(server) ==
  env.port[server] # "taken" /\ \A s \in up : env.port[s] # env.port[server]

\* net.Listen for gRPC, before the goroutines start.
ListenGRPC ==
  /\ phase = "listen"
  /\ IF AuthModeEnabled("mtls") /\ ~PortFree("mtls")
     THEN Exit("refused")
     ELSE /\ phase' = "select"
          /\ up' = AuthModes \cap {"mtls"}
          /\ UNCHANGED <<scenario, reason, loaded, vars, certVars>>

\* Mutation: the signed server is started only where the gRPC one is not.
ListenAndServe_ElseIf(server) ==
  /\ phase = "select"
  /\ server \in {"public"} \cup (IF AuthModeEnabled("mtls") THEN {} ELSE {"signed"}) /\ server \notin up
  /\ IF PortFree(server)
     THEN /\ up' = up \cup {server}
          /\ UNCHANGED <<scenario, phase, reason, loaded, vars, certVars>>
     ELSE Exit("refused")

\* The goroutine of an HTTP server: ListenAndServe, or its error reaches the
\* select, and run returns.
ListenAndServe(server) ==
  /\ phase = "select"
  /\ server \in {"public"} \cup (AuthModes \cap {"signed"}) /\ server \notin up
  /\ IF PortFree(server)
     THEN /\ up' = up \cup {server}
          /\ UNCHANGED <<scenario, phase, reason, loaded, vars, certVars>>
     ELSE Exit("refused")

Listen == \E server \in {"signed", "public"} : ListenAndServe(server)
-----------------------------------------------------------------------------
\* The poller has been started.
Polling == phase \in {"hpke", "listen", "select"}

PollStats == Polling /\ StatAdvanced /\ UNCHANGED <<scenario, mainVars, certVars>>
PollStores == Polling /\ ReadStores /\ UNCHANGED <<scenario, mainVars, certVars>>
PollFails == Polling /\ ReadFails /\ UNCHANGED <<scenario, mainVars, certVars>>

\* A collector connects, or goes on with its handshake.  Handshakes are numbered
\* in the order in which they begin.
Connect(h) ==
  /\ "mtls" \in up /\ scenario.rewritten = "pair"
  /\ \A g \in Handshake : g < h => hs[g].at # "waiting"
  /\ getCertificate(h)
  /\ UNCHANGED <<scenario, mainVars, vars>>

\* Files are rewritten.
RewriteConfig ==
  /\ scenario.rewritten = "config"
  /\ Replace \/ Truncate
  /\ UNCHANGED <<scenario, mainVars, certVars>>
FillConfig == Fill /\ UNCHANGED <<scenario, mainVars, certVars>>
RewritePair ==
  /\ scenario.rewritten = "pair"
  /\ SwapPair \/ TruncateCert
  /\ UNCHANGED <<scenario, mainVars, vars>>
FinishPair == (WriteCert \/ WriteKey) /\ UNCHANGED <<scenario, mainVars, vars>>

StartupInit ==
  /\ scenario \in Scenario
  /\ phase = "config" /\ reason = "none" /\ loaded = 0 /\ up = {}
  /\ Init /\ CertInit
  /\ scenario.rewritten # "config" => atomic
  /\ scenario.rewritten # "pair" => swapped

\* run's own steps.
Main ==
  \/ LoadConfig \/ LoadFile \/ LoadFileFails \/ OpenStore \/ OpenStoreFails
  \/ NewEvaluator \/ LoadServerTLS \/ LoadPair \/ LoadCertPool \/ NewSignerFromFiles
  \/ StatTenants \/ ReadTenants \/ ReadTenantsFails \/ LoadHPKEKeys \/ ListenGRPC
  \/ Listen \/ Restart

StartupNext ==
  \/ Main \/ PollStats \/ PollStores \/ PollFails
  \/ \E h \in Handshake : Connect(h)
  \/ RewriteConfig \/ FillConfig \/ RewritePair \/ FinishPair

\* run goes on, the container is restarted, the ticker ticks, a rewrite that
\* was begun is finished; and Redis, Stat and ReadFile do not fail for ever.
StartupFairness ==
  /\ WF_startupVars(Main)
  /\ WF_startupVars(PollStats) /\ WF_startupVars(PollStores \/ PollFails)
  /\ WF_startupVars(FillConfig) /\ WF_startupVars(FinishPair)
  /\ SF_startupVars(LoadFile) /\ SF_startupVars(OpenStore)
  /\ SF_startupVars(LoadPair /\ LoadStats(Preload))
  /\ SF_startupVars(ReadTenants) /\ SF_startupVars(PollStores)

StartupSpec == StartupInit /\ [][StartupNext]_startupVars /\ StartupFairness
-----------------------------------------------------------------------------
\* The process serves on all its ports.
Running == phase = "select" /\ up = AuthModes \cup {"public"}

\* A process that serves is the one its settings describe, whatever was rewritten
\* while it started: it serves exactly the modes AUTH_MODES names, at least one,
\* each on a port of its own; an air-gapped one has no cloud provider; only a
\* limit that is zero or malformed turns the cost backstop off; and no receiver
\* hides another of the same name.
ServesAsConfigured ==
  Running =>
    /\ up \ {"public"} = IF env.authModes = <<>> THEN {"mtls"} ELSE Range(env.authModes) \ {"blank"}
    /\ up # {"public"}
    /\ \A s, r \in up : env.port[s] = env.port[r] => s = r
    /\ env.airGapped = "true" => llmProvider # "anthropic"
    /\ NewPool \/ env.callsPerMinute \in {"zero", "malformed"} \/ env.maxConcurrent \in {"zero", "malformed"}
    /\ NamesDiffer(receiversOf[loaded])

\* What config.Load accepts is complete: no later step of startup fails because a
\* setting it needs is missing, in any combination of modes and providers, so a
\* process never comes half up on an incomplete configuration (config.go:298-327).
ValidatedOnce == reason # "lacks"

\* The settings are in order, and so are the files as they are now.
Loadable ==
  /\ ConfigValid /\ EvaluatorAccepts /\ env.redis # "bad"
  /\ HoldsCerts("trustRoot") /\ env.intermediateCA = "good" /\ env.intermediateKey = "good"
  /\ AuthModeEnabled("signed") => env.hpkeKey = "good"
  /\ \A s \in AuthModes \cup {"public"} : env.port[s] # "taken"
  /\ \A s, r \in AuthModes \cup {"public"} : env.port[s] = env.port[r] => s = r
  /\ file.content \in Valid /\ ~BuildReceivers(receiversOf[file.content]).err
  /\ certFile.pair = keyFile

\* Startup that fails on a file in the middle of a rewrite, or on a store that
\* does not answer yet, is not stuck: once settings and files are in order, some
\* attempt serves on all ports, and goes on serving.
EventuallyServes == <>[]Loadable => <>[]Running

\* "flipping `revoked: true` in the config file then takes effect within one
\* stat poll" (tenants_reloader.go:15-17): whichever version the process started
\* with and whatever failed meanwhile, a valid version is eventually the one
\* served.  As finitely many follow, it is enough that the last one is.
ChangeTakesEffect ==
  <>[](Running /\ file.content \in Valid => cached.tenants = file.content)
=============================================================================
