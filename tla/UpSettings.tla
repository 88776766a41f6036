----------------------------- MODULE UpSettings ------------------------------
(***************************************************************************)
(* What `draft up` has decided before Builder.Up starts a stage: the       *)
(* settings of the environment (upCmd.run), its chart and build archive    *)
(* (LoadWithEnv, loadArchive) and the images and chart values of the build *)
(* (newAppContext).  All of it is computed from files and flags; a file    *)
(* that cannot be read ends the command before anything is done.           *)
(*                                                                         *)
(* A registry is known here by what it looks like: "none" is the empty     *)
(* string, "login_server" is acr.azurecr.io, "bare_name" is acr alone, and *)
(* "other" is anything whose name is not one of an azure registry.         *)
(***************************************************************************)
EXTENDS TLC

Registries == {"none", "login_server", "bare_name", "other"}

\* A setting of the global configuration, if there, overrides draft.toml.
Override(global, name, own) == IF name \in DOMAIN global THEN global[name] ELSE own

\* upCmd.run: the environment of draft.toml, the global configuration and
\* the flag --skip-image-push.
Settings(env, global, skip) ==
  [env EXCEPT
     !.builder  = Override(global, "container-builder", env.builder),
     !.registry = IF skip THEN "none" ELSE Override(global, "registry", env.registry)]

\* loadArchive: both archives of draft.toml, if both are given, or else the
\* source directory with the chart that draft.toml names or the first one in
\* charts/.  "none" stands for a name that is not given and for no chart.
Loaded(env, firstChart) ==
  IF env.buildTar # "none" /\ env.chartTar # "none"
  THEN [archive |-> env.buildTar, chart |-> env.chartTar]
  ELSE [archive |-> "source",
        chart   |-> IF env.chart # "none" THEN env.chart ELSE firstChart]

\* The digest of the archive, which is the tag of the main image.
Digest(archive) == <<"digest", archive>>

\* The name under which an image is known to docker and to the cluster.
ImageName(registry, name, tag) == [registry |-> registry, name |-> name, tag |-> tag]

\* newAppContext: the main image first, then one per custom tag.
BuildImages(env, archive) ==
  {ImageName(env.registry, env.name, t) : t \in {Digest(archive)} \union env.customTags}

\* A mutant of ChartImage: the values of draft.toml win over the injected ones.
OwnValuesWin(env, archive) ==
  env.values @@ ImageName(env.registry, env.name, Digest(archive))

\* loadValues and newAppContext: the image that the chart deploys.  The
\* injected repository and tag are parsed into the values of draft.toml
\* last, and so replace what it says of them.
ChartImage(env, archive) ==
  LET injected == ImageName(env.registry, env.name, Digest(archive))
  IN  [k \in DOMAIN injected \union DOMAIN env.values |->
         IF k \in DOMAIN injected THEN injected[k] ELSE env.values[k]]
=============================================================================
