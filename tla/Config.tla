------------------------------- MODULE Config -------------------------------
(***************************************************************************)
(* How a configuration comes about (common/src/config.rs) and what the     *)
(* daemon does with it before it serves: Config::load of the daemon,       *)
(* load_for_control_client of sttctl, and build_provider.  The sources are *)
(* the runtime environment, the env file and the TOML file, which users    *)
(* edit one entry at a time.                                               *)
(***************************************************************************)
EXTENDS Integers, Sequences, Functions

CONSTANTS
    Shipped,    \* bound: what is configured before the edits
    MaxEdits    \* bound: entries edited

VARIABLES
    sources,    \* what is written, as a function of <<setting, level>>
    edits

configVars == <<sources, edits>>

\* The settings some check looks at, by their possible contents: "text" is what does not
\* parse, "holes" a list with an empty entry.  One stands for those that are treated
\* alike: beam_size for whisper_best_of too, whisper_threads for the two flags of
\* whisper, which are parsed and not checked either, and positive_ones for six numbers.
Values == [
    kind           |-> {"blank", "hosted", "whisper_local", "whisper_server", "unknown"},
    model          |-> {"blank", "audio", "chat"},
    language       |-> {"blank", "english", "other"},
    language_hints |-> {"blank", "list", "holes"},
    request_mode   |-> {"unknown", "auto", "chat_completions"},
    base_url       |-> {"blank", "slash", "url"},
    api_key        |-> {"blank", "key", "other key"},
    model_path     |-> {"blank", "english only", "multilingual"},
    whisper_cmd    |-> {"blank", "command"},
    whisper_threads |-> {"text", "number"},
    beam_size      |-> {"text", "zero", "positive"},
    playback_enabled |-> {"text", "true", "false"},
    playerctl_cmd  |-> {"blank", "command"},
    command_timeout_ms   |-> {"text", "zero", "short", "long"},
    aggregate_timeout_ms |-> {"text", "zero", "short", "long"},
    spend_limit    |-> {"text", "nan", "zero", "positive"},
    request_cost   |-> {"text", "nan", "negative", "zero"},
    output_mode    |-> {"unknown", "type"},
    min_speech_ms  |-> {"above max_utterance_ms", "within"},
    positive_ones  |-> {"zero", "positive"}]

Settings == DOMAIN Values

\* The default of each, where no source has it.
Default == [
    kind |-> "whisper_local", model |-> "audio", language |-> "none",
    language_hints |-> "blank", request_mode |-> "auto", base_url |-> "url",
    api_key |-> "none", model_path |-> "english only", whisper_cmd |-> "command",
    whisper_threads |-> "none", beam_size |-> "positive", playback_enabled |-> "true",
    playerctl_cmd |-> "command", command_timeout_ms |-> "short",
    aggregate_timeout_ms |-> "long", spend_limit |-> "none", request_cost |-> "zero",
    output_mode |-> "type", min_speech_ms |-> "within", positive_ones |-> "positive"]

TomlOnly == {"output_mode", "min_speech_ms", "positive_ones"}
Aliased  == {"model", "language", "api_key"}

LevelsByName(s) ==
    IF s \in TomlOnly THEN <<"toml">>
    ELSE IF s \notin Aliased THEN <<"runtime", "file", "toml">>
    ELSE IF s # "api_key" THEN <<"runtime", "file", "runtime alias", "file alias", "toml">>
    ELSE <<"runtime", "file", "toml", "runtime alias", "file alias", "toml alias">>

\* Where pick_env_value and resolve_hosted_api_key look, one after the other, and after
\* the environment the value that TOML gave; only the API key has an alias in TOML.
Levels(s) ==
    IF s \in TomlOnly THEN <<"toml">>
    ELSE IF s \notin Aliased THEN <<"runtime", "file", "toml">>
    ELSE IF s # "api_key" THEN <<"runtime", "runtime alias", "file", "file alias", "toml">>
    ELSE <<"runtime", "runtime alias", "file", "file alias", "toml", "toml alias">>

Entries == UNION {{s} \X Range(Levels(s)) : s \in Settings}

\* The contents of the three sources: what is written at some of their entries.
Contents(src) == DOMAIN src \subseteq Entries /\ \A e \in DOMAIN src : src[e] \in Values[e[1]]

ASSUME ConfigAssumption == MaxEdits \in Nat /\ \A src \in Shipped : Contents(src)

-----------------------------------------------------------------------------
(* apply_env_overrides *)

Written(src, s, l) == <<s, l>> \in DOMAIN src

\* A blank value hides what comes after it, but for the API key.
Counts(src, s, l) == Written(src, s, l) /\ (s = "api_key" => src[<<s, l>>] # "blank")

\* The first level that counts, by its place among the levels.
Places(src, s)    == {i \in DOMAIN Levels(s) : Counts(src, s, Levels(s)[i])}
First(src, s) == CHOOSE i \in Places(src, s) : \A j \in Places(src, s) : i <= j

Picked(src, s) ==
    LET l == Levels(s)[First(src, s)] IN
    IF Places(src, s) = {} THEN Default[s]
    ELSE IF s = "language" /\ l # "toml" /\ src[<<s, l>>] = "blank" THEN "none"
    ELSE src[<<s, l>>]

Overridden(src) == [s \in Settings |-> Picked(src, s)]

-----------------------------------------------------------------------------
(* validate *)

Hosted(cfg) == cfg.kind = "hosted"

Invalid(cfg) ==
    \/ \E s \in Settings : cfg[s] = "text"
    \/ cfg.kind \in {"blank", "unknown"}
    \/ cfg.request_mode = "unknown"
    \/ cfg.language_hints = "holes"
    \/ Hosted(cfg) /\ (cfg.model = "blank" \/ cfg.base_url = "blank")
    \/ ~Hosted(cfg) /\ (cfg.language_hints = "list" \/ cfg.request_mode # "auto")
    \/ cfg.kind = "whisper_local" /\ (cfg.whisper_cmd = "blank" \/ cfg.beam_size = "zero")
    \/ cfg.kind = "whisper_server" /\ cfg.base_url = "blank"
    \/ cfg.min_speech_ms = "above max_utterance_ms"
    \/ cfg.positive_ones = "zero"
    \/ cfg.playback_enabled = "true" /\ cfg.playerctl_cmd = "blank"
    \/ "zero" \in {cfg.command_timeout_ms, cfg.aggregate_timeout_ms}
    \/ cfg.aggregate_timeout_ms = "short" /\ cfg.command_timeout_ms = "long"
    \* nan is neither <= 0.0 nor < 0.0.
    \/ cfg.spend_limit = "zero" \/ cfg.request_cost = "negative"
    \/ cfg.output_mode = "unknown"

\* A value of the wrong type refuses the whole TOML file, whatever overrides it.
Parses(src) == \A e \in DOMAIN src : e[2] = "toml" => src[e] # "text"

KeyAlways(require_api_key) == TRUE
KeyWanted(require_api_key) == require_api_key

Accepted(src, require_api_key) ==
    LET cfg == Overridden(src) IN
    /\ Parses(src) /\ ~Invalid(cfg)
    /\ KeyWanted(require_api_key) /\ Hosted(cfg) => cfg.api_key \notin {"none", "blank"}

-----------------------------------------------------------------------------
(* main: build_provider and validate_model_capability look at the settings again *)

Builds(cfg) ==
    CASE cfg.kind = "hosted" ->
            /\ cfg.api_key \notin {"none", "blank"}
            /\ cfg.base_url \notin {"blank", "slash"} /\ cfg.model # "blank"
      [] cfg.kind = "whisper_local"  -> cfg.model_path # "blank"
      [] cfg.kind = "whisper_server" -> cfg.base_url \notin {"blank", "slash"}
      [] OTHER -> FALSE

\* What the provider can tell without its server, its command and its model file.
Capable(cfg) ==
    /\ cfg.language # "blank"
    /\ Hosted(cfg) => cfg.model = "audio"
    /\ cfg.kind = "whisper_local" =>
          ~(cfg.model_path = "english only" /\ cfg.language = "other")

-----------------------------------------------------------------------------
ConfigInit == sources \in Shipped /\ edits = 0

Writes(entry, value) ==
    sources' = [e \in DOMAIN sources \cup {entry} |-> IF e = entry THEN value ELSE sources[e]]

Erases(entry) == sources' = Restrict(sources, DOMAIN sources \ {entry})

ConfigNext ==
    /\ edits < MaxEdits /\ edits' = edits + 1
    /\ \E entry \in Entries : Erases(entry) \/ \E value \in Values[entry[1]] : Writes(entry, value)

ConfigSpec == ConfigInit /\ [][ConfigNext]_configVars

-----------------------------------------------------------------------------
(* The precedence that README.md and docs/data-models-sttd.md give: runtime canonical >
   runtime legacy > env-file canonical > env-file legacy > TOML canonical > TOML legacy. *)

Runtime == {"runtime", "runtime alias"}
File    == {"file", "file alias"}
TOML    == {"toml", "toml alias"}

Outranks(l, m) ==
    \/ l \in Runtime /\ m \in File \cup TOML
    \/ l \in File /\ m \in TOML
    \/ <<l, m>> \in {<<"runtime", "runtime alias">>, <<"file", "file alias">>,
                     <<"toml", "toml alias">>}

\* What is written at an entry, if anything; a blank API key is "treated as unset".
Content(src, e) == {src[w] : w \in DOMAIN src \cap {e}}
Unset(src, e)   == e \notin DOMAIN src \/ (e[1] = "api_key" /\ src[e] = "blank")

Overrides(src, entry) ==
    \E e \in DOMAIN src : e[1] = entry[1] /\ Outranks(e[2], entry[2]) /\ ~Unset(src, e)

MistypedToml(src, entry) == entry[2] = "toml" /\ Content(src, entry) = {"text"}

\* Where the sources have come to differ.
Edited(src, other) == {e \in Entries : Content(src, e) # Content(other, e)}

\* What is configured, and whether the daemon and sttctl accept it, depends on no entry
\* that one of higher precedence overrides, and on no API key that is unset or blank; so a
\* key can be moved from one file to another and the old entry left empty.  The exception
\* is an entry of the TOML file of the wrong type, which has the file refused whatever
\* overrides it.
OverriddenIsInert ==
    [][\A entry \in Edited(sources, sources') :
          /\ Edited(sources, sources') = {entry}
          /\ Overrides(sources, entry) \/ (Unset(sources, entry) /\ Unset(sources', entry))
          => /\ Overridden(sources') = Overridden(sources)
             /\ ~MistypedToml(sources, entry) /\ ~MistypedToml(sources', entry) =>
                   \A require_api_key \in BOOLEAN :
                      Accepted(sources', require_api_key) = Accepted(sources, require_api_key)
      ]_configVars

\* The values that validate lets pass and start-up refuses: a model path that is blank, an
\* URL of slashes, a blank language (of the TOML file: in the environment it means none), a
\* model that does not look like one for speech, and a language other than English, when
\* the model is for English only.
RefusedLater ==
    {<<"model_path", "blank">>, <<"base_url", "slash">>, <<"language", "blank">>,
     <<"model", "chat">>, <<"language", "other">>}

\* A configuration that validate accepted is enough for the rest of the program, whichever
\* source each part came from.  The daemon builds its provider and finds nothing wrong in
\* its model and language, or else a source has a value of RefusedLater that took effect;
\* and with it sttctl finds the socket too, with the API key or without.
AcceptedIsEnough ==
    LET cfg == Overridden(sources)
        withoutKeys == {e \in DOMAIN sources : e[1] # "api_key"}
    IN  /\ Accepted(sources, TRUE) =>
              \/ Builds(cfg) /\ Capable(cfg)
              \/ \E e \in DOMAIN sources :
                    cfg[e[1]] = sources[e] /\ <<e[1], sources[e]>> \in RefusedLater
        /\ Accepted(sources, TRUE) => Accepted(Restrict(sources, withoutKeys), FALSE)
=============================================================================
