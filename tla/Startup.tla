------------------------------ MODULE Startup ------------------------------
(***************************************************************************)
(* config/mod.rs, s3/cache.rs, HdfsGateway::new, and the Python            *)
(* constructor: a configuration is put together from a TOML file, the      *)
(* environment and the arguments, validated, and turned into the gateway's *)
(* caches and path mapper, which then answers requests (PathMapper).       *)
(*                                                                         *)
(* A setting is [source, field]; of its value the model keeps whether it   *)
(* is usable: "some", or "empty", "illegal", "zero", "on", "off", "junk".  *)
(* The gateway keeps of the configuration what the properties look at: the *)
(* settings are forgotten once the mapper is built.                        *)
(***************************************************************************)
EXTENDS PathMapper

CONSTANTS Options,       \* Hadoop configuration keys
          MaxSettings    \* bound: settings besides the template's

Required == {"namenode_uri", "hdfs_root", "bucket_name"}
Optional == {"listen_addr", "auth_secret", "hdfs_user", "hdfs_config_dir"}
Ttls == {"metadata_ttl_ms", "negative_ttl_ms", "blocks_ttl_ms", "listing_ttl_ms"}
Capacities == {"metadata_capacity", "blocks_capacity", "listing_capacity_entries",
               "listing_max_dir_entries"}

\* The fields of Config and CacheConfig; every Hadoop key is a field of its own.
Field == Required \cup Optional \cup Ttls \cup Capacities \cup Options
           \cup {"max_concurrent_requests", "expose_upstream_errors", "enabled"}

ASSUME StartupAssumption ==
  Options \cap (Required \cup Optional \cup Ttls \cup Capacities \cup
               {"max_concurrent_requests", "expose_upstream_errors", "enabled"}) = {}

\* What each source can set: CliArgs, the environment variables, the file.
Settable(source) ==
  CASE source = "args" -> Required \cup Optional \cup Options \cup {"enabled"}
    [] source = "env"  -> Required \cup {"enabled"}
    [] source = "file" -> Field

Values(source, f) ==
  CASE f = "bucket_name" -> {"some", "empty", "illegal"}
    [] f \in Required -> {"some", "empty"}
    [] f \in Ttls \cup Capacities \cup {"max_concurrent_requests"} -> {"some", "zero"}
    [] f = "expose_upstream_errors" -> {"on", "off"}
    [] f = "enabled" -> {"on", "off"} \cup IF source = "env" THEN {"junk"} ELSE {}
    [] OTHER -> {"some"}

VARIABLES launcher,   \* "main" or "python"
          file,       \* "none", "unreadable", "malformed" or "ok"
          given,      \* the settings: a function from [source, field] to values
          settings,   \* how many were made
          loaded      \* None, or what Config::load returned

configVars == <<launcher, file, given, settings, loaded>>

-----------------------------------------------------------------------------
Has(g, source, f) == <<source, f>> \in DOMAIN g

From(g, source, f) == [from |-> source, val |-> g[<<source, f>>]]

\* Default for Config and CacheConfig: caches are off.
Default(f) ==
  [from |-> "default",
   val  |-> CASE f = "enabled" -> "off"
              [] f = "expose_upstream_errors" -> "on"
              [] f \in Options \cup (Optional \ {"listen_addr"}) -> "none"
              [] OTHER -> "some"]

\* toml::from_str: a field that is absent has its serde default, which for
\* expose_upstream_errors is false.
from_toml(g) ==
  [f \in Field |->
     IF Has(g, "file", f) THEN From(g, "file", f)
     ELSE IF f = "expose_upstream_errors" THEN [from |-> "default", val |-> "off"]
     ELSE Default(f)]

\* All three variables, or none of them counts.
from_env(g) ==
  LET complete == \A f \in Required : Has(g, "env", f)
  IN  [f \in Field |-> IF complete /\ f \in Required THEN From(g, "env", f) ELSE Default(f)]

\* Mutant: the arguments' options replace the file's.
overridden_replacing(config, g) ==
  [f \in Field |->
     IF f # "enabled" /\ Has(g, "args", f) THEN From(g, "args", f)
     ELSE IF f \in Options /\ \E o \in Options : Has(g, "args", o) THEN Default(f)
     ELSE config[f]]

\* The arguments, field by field; options are merged key by key.
overridden(config, g) ==
  [f \in Field |->
     IF f # "enabled" /\ Has(g, "args", f) THEN From(g, "args", f) ELSE config[f]]

\* [cache] enabled < HDFS_S3_CACHE_ENABLED < --cache/--no-cache (which exclude each
\* other); flags: whether the launcher passes them to load.
switched(config, g, flags) ==
  LET source == IF flags /\ Has(g, "args", "enabled") THEN "args" ELSE "env"
  IN  IF Has(g, source, "enabled")
        THEN [config EXCEPT !["enabled"] = From(g, source, "enabled")] ELSE config

validate(config) ==
  /\ \A f \in Required : config[f].val # "empty"
  /\ config["max_concurrent_requests"].val # "zero"
  /\ config["enabled"].val = "on" /\ config["listing_ttl_ms"].val # "zero" =>
       config["listing_capacity_entries"].val # "zero"
  /\ config["bucket_name"].val # "illegal"

\* Config::load, up to the wording of its errors.
load(fi, g, flags) ==
  LET base   == IF fi = "none" THEN from_env(g) ELSE from_toml(g)
      config == switched(overridden(base, g), g, flags)
  IN  CASE fi = "unreadable" -> [ok |-> FALSE, error |-> "ReadFile"]
        [] fi = "malformed" \/ (fi = "ok" /\ \E f \in Required : ~Has(g, "file", f)) ->
             [ok |-> FALSE, error |-> "ParseToml"]
        [] Has(g, "env", "enabled") /\ g[<<"env", "enabled">>] = "junk" ->
             [ok |-> FALSE, error |-> "Invalid"]
        [] ~validate(config) -> [ok |-> FALSE, error |-> "Missing or Invalid"]
        [] OTHER -> [ok |-> TRUE, config |-> config]

\* Gateway::new in Python: cache_enabled is applied to the validated configuration.
python_new(fi, g) ==
  LET l == load(fi, g, FALSE)
  IN  IF l.ok /\ Has(g, "args", "enabled")
        THEN [l EXCEPT !.config["enabled"] = From(g, "args", "enabled")] ELSE l

loads(la, fi, g) == IF la = "main" THEN load(fi, g, TRUE) ELSE python_new(fi, g)

\* Mutant: the master switch is not looked at.
ttl_unswitched(config, f) == config[f].val

\* The time to live of a cache of Caches::new.
ttl(config, f) == IF config["enabled"].val = "on" THEN config[f].val ELSE "zero"

-----------------------------------------------------------------------------
\* A complete file, or a complete environment, or neither, to start from.
Init ==
  /\ launcher \in {"main", "python"}
  /\ file \in {"none", "unreadable", "malformed", "ok"}
  /\ given \in {[s \in {src} \X Required |-> "some"] : src \in {"file", "env"}} \cup {<<>>}
  /\ file = "ok" <=> \E s \in DOMAIN given : s[1] = "file"
  /\ settings = 0
  /\ loaded = None
  /\ root = None /\ key = <<>>

\* The operator sets, changes or removes a setting.
Set(source, f, v) ==
  /\ loaded = None /\ root = None /\ settings < MaxSettings
  /\ source = "file" => file = "ok"
  /\ Has(given, source, f) => given[<<source, f>>] # v
  /\ given' = [s \in DOMAIN given \cup {<<source, f>>} |->
                 IF s = <<source, f>> THEN v ELSE given[s]]
  /\ settings' = settings + 1
  /\ UNCHANGED <<launcher, file, loaded, mapperVars>>

Unset(s) ==
  /\ loaded = None /\ root = None /\ settings < MaxSettings
  /\ given' = [t \in DOMAIN given \ {s} |-> given[t]]
  /\ settings' = settings + 1
  /\ UNCHANGED <<launcher, file, loaded, mapperVars>>

Load ==
  /\ loaded = None /\ root = None
  /\ loaded' = loads(launcher, file, given)
  /\ UNCHANGED <<launcher, file, given, settings, mapperVars>>

\* HdfsGateway::new, once the client is built: PathMapper::new.
New ==
  /\ loaded # None /\ root = None
  /\ loaded.ok
  /\ \E r \in IF loaded.config["hdfs_root"].from = "default" THEN {<<Slash>>} ELSE Roots :
       root' = normalize_root(r)
  /\ given' = <<>> /\ settings' = 0 /\ loaded' = None
  /\ launcher' = "main" /\ file' = "none"
  /\ UNCHANGED key

Next ==
  \/ \E source \in {"args", "env", "file"} : \E f \in Settable(source) :
       \E v \in Values(source, f) : Set(source, f, v)
  \/ \E s \in DOMAIN given : Unset(s)
  \/ Load \/ New
  \/ Ask /\ UNCHANGED configVars

Spec == Init /\ [][Next]_<<configVars, mapperVars>>
-----------------------------------------------------------------------------
Off(config) == \A f \in Ttls : ttl(config, f) = "zero"

\* The kill switch: with --no-cache the gateway starts whenever it would with no
\* cache ever enabled, with the same configuration, and caches nothing - whatever
\* the file and the environment say, except that a mistyped HDFS_S3_CACHE_ENABLED
\* still fails fast.  From Python cache_enabled=False turns the caches off, but
\* does not make a configuration load.
KillSwitchHolds ==
  loaded # None /\ Has(given, "args", "enabled") /\ given[<<"args", "enabled">>] = "off" =>
    LET never == load(file, [s \in {t \in DOMAIN given : t[2] # "enabled"} |-> given[s]], TRUE)
        typo  == Has(given, "env", "enabled") /\ given[<<"env", "enabled">>] = "junk"
    IN  /\ loaded.ok => Off(loaded.config) /\ ~typo
        /\ loaded.ok => never.ok /\ \A f \in Field \ {"enabled"} :
                                      never.config[f] = loaded.config[f]
        /\ launcher = "main" /\ never.ok => loaded.ok \/ typo

\* What a source contributes to a successful load: the environment counts without
\* a file and only as a whole, the switch aside.
Offers(source, f) ==
  /\ Has(given, source, f)
  /\ source = "env" /\ f # "enabled" =>
       file = "none" /\ \A r \in Required : Has(given, "env", r)

\* A loaded configuration takes each field, and each Hadoop option, from the
\* highest source that has it - arguments over file and environment, for the
\* switch arguments over environment over file - and it can serve: nothing
\* required is empty, the limit is not zero, and (from main) an enabled listing
\* cache can hold something.
LoadedIsSound ==
  loaded # None /\ loaded.ok =>
    /\ \A f \in Field :
         LET c == loaded.config[f]
             above == CASE c.from = "args" -> {}
                        [] c.from = "env"  -> {"args"}
                        [] c.from = "file" -> {"args", "env"}
                        [] OTHER -> {"args", "env", "file"}
         IN  /\ \A source \in above : ~Offers(source, f)
             /\ c.from # "default" => given[<<c.from, f>>] = c.val
    /\ \A f \in Required : loaded.config[f].val = "some"
    /\ loaded.config["max_concurrent_requests"].val = "some"
    /\ launcher = "main" /\ loaded.config["enabled"].val = "on" =>
         \/ loaded.config["listing_capacity_entries"].val = "some"
         \/ loaded.config["listing_ttl_ms"].val = "zero"
=============================================================================
