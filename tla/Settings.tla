------------------------------ MODULE Settings ------------------------------
(***************************************************************************)
(* What config/settings.py accepts as a configuration.  A source is what   *)
(* one launch finds: the --dev flag, the ANSINA_ environment and the TOML  *)
(* file, each giving values to some of the fields.  Sections are flattened *)
(* (no two of the fields below share a name) and a field whose value no    *)
(* decision of the daemon reads is left out.                               *)
(***************************************************************************)
EXTENDS Integers, FiniteSets

None == "none"

(* One layer of values over another.                                       *)
Over(upper, lower) ==
  [x \in DOMAIN upper \cup DOMAIN lower |->
     IF x \in DOMAIN upper THEN upper[x] ELSE lower[x]]

OidcCredentials == {"issuer", "client_id", "client_secret", "redirect_uri"}
S3Credentials   == {"bucket", "access_key_id", "secret_access_key"}

(* The permissions preflight compares with what OpenCode resolves.  The     *)
(* other two are not among them: edit and bash, one word or a mode that is  *)
(* rendered as a map of globs.                                              *)
ScalarKeys == {"*", "read", "webfetch", "websearch", "external_directory"}

DefaultPermission ==
  Over([edit |-> "workspace", bash |-> "allowlist", read |-> "allow"],
       [k \in ScalarKeys |-> "deny"])

(* The values without any source, section by section.                      *)
ServerSection == [host |-> "loopback"]

SecuritySection ==
  [security |-> TRUE, admin_username |-> None, api_token |-> None,
   key |-> None, min_length |-> 12, max_length |-> 1024,
   oidc |-> FALSE, oidcGiven |-> {}, cors |-> FALSE, origins |-> {}]

HeartSection ==
  [heart |-> FALSE, runtime |-> "auto", tick |-> TRUE, faults |-> FALSE,
   schedule_path |-> None]

BrainSection == [brain |-> FALSE, api_key |-> None]

TelemetrySection ==
  [telemetry |-> FALSE, max_file_bytes |-> 2, max_spool_bytes |-> 100,
   retention |-> 7, s3 |-> FALSE, s3Given |-> {}]

DevSection == [dev |-> FALSE]

OpencodeSection ==
  [opencode |-> FALSE, max_concurrent_runs |-> 1, queue_max_depth |-> 10,
   max_event_bytes |-> 1, max_run_output_bytes |-> 160,
   workspace_dir |-> "outside", inherit_env_names |-> {},
   required_version_prefix |-> "", provider_api_key |-> None,
   permission |-> DefaultPermission, additional |-> <<>>]

Default ==
  Over(ServerSection, Over(SecuritySection, Over(HeartSection, Over(BrainSection,
    Over(TelemetrySection, Over(DevSection, OpencodeSection))))))

Fields == DOMAIN Default

(* Every SecretStr field; oidcGiven and s3Given name the secrets they hold. *)
SecretFields == {"api_key", "key", "provider_api_key", "api_token"}
SecretsIn(layer) ==
  (DOMAIN layer \cap SecretFields)
    \cup (IF "oidcGiven" \in DOMAIN layer
          THEN layer.oidcGiven \cap {"client_secret"} ELSE {})
    \cup (IF "s3Given" \in DOMAIN layer
          THEN layer.s3Given \cap {"access_key_id", "secret_access_key"}
          ELSE {})

(* The flag of the command line is over the environment, the environment   *)
(* over the file, field by field.  The two sets are unions of leaves.      *)
Flag(source) == IF source.flag THEN [dev |-> TRUE] ELSE <<>>

Leaves(source, f) ==
  (IF f \in DOMAIN source.env THEN source.env[f] ELSE {})
    \cup (IF f \in DOMAIN source.toml THEN source.toml[f] ELSE {})

Merged(source) ==
  LET unions == [s3Given   |-> Leaves(source, "s3Given"),
                 oidcGiven |-> Leaves(source, "oidcGiven")]
  IN  Over(unions, Over(Flag(source), Over(source.env, Over(source.toml, Default))))

FileHasNoSecret(source) == SecretsIn(source.toml) = {}

NothingUnknown(source) ==
  DOMAIN source.env \cup DOMAIN source.toml \subseteq Fields

PasswordOk(c) ==
  /\ c.min_length >= 8 /\ c.max_length >= 8
  /\ c.max_length >= c.min_length

FaultInjectionOk(c) == c.faults => c.schedule_path # None

KeyOk(c) == c.key \notin {"short", "not_base64"}

AdminOk(c) ==
  /\ c.admin_username # "bootstrap-admin"
  /\ (c.admin_username = None) <=> (c.api_token = None)

TokenOk(c) == c.api_token \notin {"short", "odd_characters", "repeated"}

OidcOk(c) == c.oidc => c.oidcGiven = OidcCredentials

CorsOk(c) == "*" \notin c.origins /\ (c.cors => c.origins # {})

TelemetryOk(c) ==
  /\ {c.max_file_bytes, c.max_spool_bytes, c.retention} \subseteq Nat \ {0}
  /\ c.max_file_bytes <= c.max_spool_bytes

RunLimitsOk(c) ==
  /\ c.max_concurrent_runs >= 1
  /\ c.queue_max_depth >= c.max_concurrent_runs
  /\ c.max_event_bytes > 0
  /\ c.max_event_bytes <= c.max_run_output_bytes

InheritedOk(c) ==
  c.inherit_env_names \cap {"ANSINA_X", "AWS_X", "X_API_KEY"} = {}

(* The checkout is looked for above the workspace, and the workspace above *)
(* the checkout this daemon runs from.                                     *)
WorkspaceOk(c) ==
  c.opencode => c.workspace_dir \notin {"in_checkout", "above_checkout"}

BindOk(c) == c.security \/ c.host = "loopback"

ExecutorObserved(c) == c.opencode => c.telemetry

Loads(source) ==
  LET c == Merged(source)
  IN  /\ FileHasNoSecret(source)
      /\ NothingUnknown(source)
      /\ PasswordOk(c)
      /\ FaultInjectionOk(c)
      /\ KeyOk(c)
      /\ AdminOk(c)
      /\ TokenOk(c)
      /\ OidcOk(c)
      /\ CorsOk(c)
      /\ TelemetryOk(c)
      /\ RunLimitsOk(c)
      /\ InheritedOk(c)
      /\ WorkspaceOk(c)
      /\ BindOk(c)
      /\ ExecutorObserved(c)

(* What the child of OpenCode is told it may do: the permissions of the    *)
(* settings, overridden by the additional ones.                            *)
Word(mode) == IF mode \in {"allow", "deny"} THEN mode ELSE "globs"

Rendered(c) ==
  Over(c.additional, [k \in DOMAIN c.permission |-> Word(c.permission[k])])

(* What the installed OpenCode resolves: its own files may merge in above  *)
(* ours.  An ask is refused, at any depth of a map of globs, and of the    *)
(* plain permissions an allow where we say deny.                           *)
Looser(c, effective) ==
  \E k \in DOMAIN effective :
    \/ effective[k] \in {"ask", "globs_with_ask"}
    \/ k \in ScalarKeys /\ Rendered(c)[k] = "deny" /\ effective[k] = "allow"

(* Whether the Vector sidecar has somewhere to ship to.                    *)
ShipsTelemetry(c) == c.telemetry /\ c.s3 /\ c.s3Given = S3Credentials
=============================================================================
