------------------------------ MODULE MCAzureUp ------------------------------
EXTENDS AzureUp

AllFaults == {"context", "upload_url", "put_blob", "queue", "wait", "result", "log_link",
              "poll", "copy", "kube", "challenge", "helm", "storage"}

\* draft.toml names a registry of any kind, and a tag of its own in its values.
Toml(r) == [builder |-> "acrbuild", registry |-> r, name |-> "app", customTags |-> {<<"custom", "v1">>},
            values |-> [tag |-> <<"custom", "v2">>], buildTar |-> "none", chartTar |-> "none", chart |-> "none"]

\* A second draft.toml: both archives, and another builder that the global
\* configuration overrides.
TarToml == [Toml("none") EXCEPT !.builder = "docker", !.buildTar = "b.tar", !.chartTar = "c.tar"]

Globals == {<<>>, [registry |-> "bare_name"]}

AzureInputs ==
  LET Input(env, global, skip) ==
        [settings |-> Settings(env, global, skip), context |-> Loaded(env, "chart")]
  IN  {Input(Toml(r), <<>>, skip) : r \in Registries, skip \in BOOLEAN}
        \union {Input(Toml("other"), g, FALSE) : g \in Globals}
        \union {Input(TarToml, "container-builder" :> "acrbuild" @@ "registry" :> "login_server", FALSE)}

\* Up to two parameters, quoted or not, empty or with a comma in their value,
\* in any order, each possibly twice.
Params ==
  {[key |-> k, quoted |-> TRUE, value |-> v] :
     k \in {"service", "realm"}, v \in {<<>>, <<"v1">>, <<"v2", "comma", "v3">>}}
  \union {[key |-> k, quoted |-> FALSE, value |-> <<"v1">>] : k \in {"service", "realm"}}

AzureOffers == UNION {[1 .. n -> Params] : n \in 0 .. 2}
=============================================================================
