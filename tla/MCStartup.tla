------------------------------- MODULE MCStartup -------------------------------
(***************************************************************************)
(* Instance of Startup for TLC.  The environments are a sound one for each *)
(* choice of transports and provider, and all that differ from it in one   *)
(* or two settings.  The files are rewritten under sound ones only.        *)
(***************************************************************************)
EXTENDS Startup

Ports == [mtls |-> "8080", signed |-> "8082", public |-> "8081"]

\* The default deployment, complete for both transports and both providers.
Sound(modes, provider) ==
  [provider |-> provider, keyFile |-> "text", keyEnv |-> "unset", baseURL |-> "good",
   model |-> "good", airGapped |-> "unset", schemaMode |-> "unset",
   callsPerMinute |-> "unset", maxConcurrent |-> "unset", authModes |-> modes,
   trustRoot |-> "good", intermediateCA |-> "good", intermediateKey |-> "good",
   serverCert |-> "good", serverKey |-> "good", hpkeKey |-> "good",
   redis |-> "unset", port |-> Ports]

File == {"unset", "bad"}

\* The values other than the sound one that a setting may have.
Other ==
  [provider |-> {"other"}, keyFile |-> {"unset", "blank", "missing"}, keyEnv |-> {"text"},
   baseURL |-> {"unset"}, model |-> {"unset"}, airGapped |-> {"true", "malformed"}, schemaMode |-> {"bad"},
   callsPerMinute |-> {"zero", "malformed"}, maxConcurrent |-> {"malformed"},
   authModes |-> {<<"mtls", "other">>, <<"blank">>, <<"blank", "signed">>, <<>>},
   trustRoot |-> File, intermediateCA |-> File \cup {"leaf"}, intermediateKey |-> File,
   serverCert |-> {"unset"}, serverKey |-> {"unset"}, hpkeKey |-> File,
   redis |-> {"up", "flaky", "bad"},
   port |-> {[Ports EXCEPT !.public = "8080"], [Ports EXCEPT !.signed = "8081"],
             [Ports EXCEPT !.mtls = "taken"]}]

Changed(e) == UNION {{[e EXCEPT ![s] = v] : v \in Other[s]} : s \in DOMAIN e}

Sounds == {Sound(modes, provider) : modes \in {<<"mtls">>, <<"signed">>, <<"signed", "mtls">>},
                                    provider \in {"unset", "openai-compatible"}}

Deployments ==
  {[env |-> e, rewritten |-> "nothing"] : e \in UNION {Changed(s) \cup UNION {Changed(c) : c \in Changed(s)} : s \in Sounds}}
  \cup {[env |-> Sound(<<"mtls", "signed">>, "unset"), rewritten |-> "config"],
        [env |-> Sound(<<"mtls">>, "unset"), rewritten |-> "pair"]}

MCScenario == Deployments
MCHandshake == 1..3
MCBad == {3}

Receiver(name, type, config) == [name |-> name, type |-> type, config |-> config]
Text(key) == [key |-> key, is |-> "text"]

Slack == Receiver("slack", "slack", {Text("webhook_url")})
Mail == Receiver("mail", "email", {Text("host"), Text("from"), Text("to")})
NoSecret == Receiver("pager", "pagerduty", {[key |-> "routing_key", is |-> "missing"]})
BlankSecret == Receiver("hook", "webhook", {[key |-> "url", is |-> "blank"]})
Unknown == Receiver("pigeon", "carrier", {})
Nameless == Receiver("", "slack", {Text("webhook_url")})
Twin == Receiver("slack", "discord", {})

\* The first version has receivers that are skipped, the fourth a name twice.
Lists == <<<<Nameless, NoSecret, Slack, Unknown, BlankSecret, Nameless, Mail>>, <<Mail>>,
           <<>>, <<Twin, Mail, Slack>>, <<Slack>>>>
MCReceiversOf == [v \in 1..5 \cup {0, Empty} |-> IF v \in 1..5 THEN Lists[v] ELSE <<>>]
=============================================================================
