---------------------------- MODULE ConfigProofs ----------------------------
(***************************************************************************)
(* Proofs about the configuration, for whatever the sources hold and       *)
(* however often they are edited.  All of it comes from one fact: of the   *)
(* levels of a setting at which something that counts is written, there    *)
(* is a first, and no entry after it is looked at; and what the documents  *)
(* rank higher is looked at earlier.                                       *)
(***************************************************************************)
EXTENDS Config, TLAPS

-----------------------------------------------------------------------------
(* Lemmas about levels.                                                     *)

\* A setting has no level twice, and at most six.
LEMMA LevelsDistinct ==
    ASSUME NEW s
    PROVE  /\ DOMAIN Levels(s) \subseteq 1 .. 6
           /\ \A i, j \in DOMAIN Levels(s) : Levels(s)[i] = Levels(s)[j] => i = j
<1>1. CASE s \in TomlOnly
  BY <1>1 DEF Levels
<1>2. CASE s \notin TomlOnly /\ s \notin Aliased
  BY <1>2 DEF Levels
<1>3. CASE s \notin TomlOnly /\ s \in Aliased /\ s # "api_key"
  <2>. DEFINE L == <<"runtime", "runtime alias", "file", "file alias", "toml">>
  <2>1. Levels(s) = L
    BY <1>3 DEF Levels
  <2>2. /\ DOMAIN L = 1 .. 5
        /\ L[1] = "runtime" /\ L[2] = "runtime alias" /\ L[3] = "file"
        /\ L[4] = "file alias" /\ L[5] = "toml"
    OBVIOUS
  <2>. HIDE DEF L
  <2>3. \A i \in 1 .. 5 : i = 1 \/ i = 2 \/ i = 3 \/ i = 4 \/ i = 5
    OBVIOUS
  <2>4. ASSUME NEW i \in 1 .. 5, NEW j \in 1 .. 5, L[i] = L[j]
        PROVE  i = j
    <3>1. CASE i \in {1, 2, 3}
      BY <2>2, <2>3, <2>4, <3>1
    <3>2. CASE i \in {4, 5}
      BY <2>2, <2>3, <2>4, <3>2
    <3>. QED  BY <2>3, <3>1, <3>2
  <2>5. DOMAIN Levels(s) = 1 .. 5
    BY <2>1, <2>2, Zenon
  <2>6. \A i, j \in 1 .. 5 : Levels(s)[i] = Levels(s)[j] => i = j
    BY <2>1, <2>4
  <2>. QED  BY <2>5, <2>6
<1>4. CASE s \notin TomlOnly /\ s \in Aliased /\ s = "api_key"
  <2>. DEFINE L == <<"runtime", "runtime alias", "file", "file alias", "toml", "toml alias">>
  <2>1. Levels(s) = L
    BY <1>4 DEF Levels
  <2>2. /\ DOMAIN L = 1 .. 6
        /\ L[1] = "runtime" /\ L[2] = "runtime alias" /\ L[3] = "file"
        /\ L[4] = "file alias" /\ L[5] = "toml" /\ L[6] = "toml alias"
    OBVIOUS
  <2>. HIDE DEF L
  <2>3. \A i \in 1 .. 6 : i = 1 \/ i = 2 \/ i = 3 \/ i = 4 \/ i = 5 \/ i = 6
    OBVIOUS
  <2>4. ASSUME NEW i \in 1 .. 6, NEW j \in 1 .. 6, L[i] = L[j]
        PROVE  i = j
    BY <2>2, <2>3, <2>4
  <2>. QED  BY <2>1, <2>2, <2>4
<1>. QED  BY <1>1, <1>2, <1>3, <1>4

\* Of some of six places, one is the first.
LEMMA FirstPlace ==
    ASSUME NEW P \in SUBSET (1 .. 6), P # {}
    PROVE  \E i \in P : \A j \in P : i <= j
<1>1. CASE 1 \in P
  BY <1>1
<1>2. CASE 1 \notin P /\ 2 \in P
  BY <1>2
<1>3. CASE 1 \notin P /\ 2 \notin P /\ 3 \in P
  BY <1>3
<1>4. CASE 1 \notin P /\ 2 \notin P /\ 3 \notin P /\ 4 \in P
  BY <1>4
<1>5. CASE 1 \notin P /\ 2 \notin P /\ 3 \notin P /\ 4 \notin P /\ 5 \in P
  BY <1>5
<1>6. CASE \A i \in P : i = 6
  <2>1. PICK i : i \in P
    OBVIOUS
  <2>. QED  BY <1>6, <2>1
<1>. QED  BY <1>1, <1>2, <1>3, <1>4, <1>5, <1>6

\* The first level that counts is one that counts, and none before it does.
LEMMA FirstOfPlaces ==
    ASSUME NEW src, NEW s, Places(src, s) # {}
    PROVE  /\ First(src, s) \in Places(src, s)
           /\ \A j \in Places(src, s) : First(src, s) <= j
<1>1. Places(src, s) \in SUBSET (1 .. 6)
  BY LevelsDistinct DEF Places
<1>2. \E i \in Places(src, s) : \A j \in Places(src, s) : i <= j
  BY <1>1, FirstPlace
<1>. QED  BY <1>2 DEF First

\* No other place comes before all those that count.
LEMMA FirstIsUnique ==
    ASSUME NEW src, NEW s, NEW i \in Places(src, s), \A j \in Places(src, s) : i <= j
    PROVE  First(src, s) = i
<1>1. Places(src, s) \in SUBSET (1 .. 6)
  BY LevelsDistinct DEF Places
<1>2. First(src, s) \in Places(src, s) /\ First(src, s) <= i
  BY FirstOfPlaces
<1>3. i <= First(src, s)
  BY <1>2
<1>. QED  BY <1>1, <1>2, <1>3

\* What is picked for a setting depends on what is written for it, and on no more.
LEMMA PickedFromOwn ==
    ASSUME NEW src, NEW other, NEW s,
           \A i \in DOMAIN Levels(s) :
              LET e == <<s, Levels(s)[i]>>
              IN  (e \in DOMAIN other) = (e \in DOMAIN src)
                  /\ (e \in DOMAIN src => other[e] = src[e])
    PROVE  Picked(other, s) = Picked(src, s)
<1>1. Places(other, s) = Places(src, s)
  <2>1. \A i \in DOMAIN Levels(s) :
           Counts(other, s, Levels(s)[i]) <=> Counts(src, s, Levels(s)[i])
    BY DEF Counts, Written
  <2>. QED  BY <2>1 DEF Places
<1>2. First(other, s) = First(src, s)
  BY <1>1 DEF First
<1>3. CASE Places(src, s) = {}
  BY <1>1, <1>3 DEF Picked
<1>4. CASE Places(src, s) # {}
  <2>1. /\ First(src, s) \in DOMAIN Levels(s)
        /\ <<s, Levels(s)[First(src, s)]>> \in DOMAIN src
    BY <1>4, FirstOfPlaces DEF Places, Counts, Written
  <2>. DEFINE e == <<s, Levels(s)[First(src, s)]>>
  <2>2. other[e] = src[e]
    BY <2>1
  <2>. QED  BY <1>1, <1>2, <1>4, <2>2 DEF Picked
<1>. QED  BY <1>3, <1>4

-----------------------------------------------------------------------------
(* The sources hold what they can hold.                                     *)

\* Every edit leaves the sources contents of the kind they had.
LEMMA ContentsInductive == ConfigSpec => []Contents(sources)
<1>1. ConfigInit => Contents(sources)
  BY ConfigAssumption DEF ConfigInit
<1>2. Contents(sources) /\ [ConfigNext]_configVars => Contents(sources)'
  <2>. SUFFICES ASSUME Contents(sources), [ConfigNext]_configVars PROVE Contents(sources')
    OBVIOUS
  <2>1. ASSUME NEW entry \in Entries, Erases(entry)
        PROVE  Contents(sources')
    BY <2>1 DEF Erases, Restrict, Contents
  <2>2. ASSUME NEW entry \in Entries, NEW value \in Values[entry[1]], Writes(entry, value)
        PROVE  Contents(sources')
    BY <2>2 DEF Writes, Contents
  <2>3. CASE UNCHANGED configVars
    BY <2>3 DEF configVars
  <2>. QED  BY <2>1, <2>2, <2>3 DEF ConfigNext
<1>. QED  BY <1>1, <1>2, PTL DEF ConfigSpec

\* What is picked for a setting that has no blank to hide is one of its values.
LEMMA PickedIsValue ==
    ASSUME NEW src, Contents(src), NEW s \in Settings, s # "language", Default[s] \in Values[s]
    PROVE  Picked(src, s) \in Values[s]
<1>1. CASE Places(src, s) = {}
  BY <1>1 DEF Picked
<1>2. CASE Places(src, s) # {}
  <2>. DEFINE e == <<s, Levels(s)[First(src, s)]>>
  <2>1. e \in DOMAIN src
    BY <1>2, FirstOfPlaces DEF Places, Counts, Written
  <2>2. src[e] \in Values[e[1]]
    BY <2>1 DEF Contents
  <2>3. src[e] \in Values[s]
    BY <2>2
  <2>4. Picked(src, s) = src[e]
    BY <1>2 DEF Picked
  <2>. QED  BY <2>3, <2>4
<1>. QED  BY <1>1, <1>2

\* The kind of the provider is one of the kinds, and so is the model.
LEMMA KindPicked ==
    ASSUME NEW src, Contents(src)
    PROVE  Picked(src, "kind") \in Values.kind
<1>1. "kind" \in Settings /\ Default["kind"] \in Values["kind"]
  BY DEF Settings, Values, Default
<1>. QED  BY <1>1, PickedIsValue

LEMMA ModelPicked ==
    ASSUME NEW src, Contents(src)
    PROVE  Picked(src, "model") \in Values.model
<1>1. "model" \in Settings /\ Default["model"] \in Values["model"]
  BY DEF Settings, Values, Default
<1>. QED  BY <1>1, PickedIsValue

-----------------------------------------------------------------------------
(* A configuration that was accepted is enough.                             *)

\* What is configured is the default, or some source says it; but a blank language in the
\* environment says that there is none.
LEMMA PickedWritten ==
    ASSUME NEW src, NEW s, Picked(src, s) # Default[s], Picked(src, s) # "none"
    PROVE  \E e \in DOMAIN src : e[1] = s /\ src[e] = Picked(src, s)
<1>1. Places(src, s) # {}
  BY DEF Picked
<1>. DEFINE e == <<s, Levels(s)[First(src, s)]>>
<1>2. e \in DOMAIN src
  BY <1>1, FirstOfPlaces DEF Places, Counts, Written
<1>3. Picked(src, s) = src[e]
  BY <1>1 DEF Picked
<1>. QED  BY <1>2, <1>3

\* A value that start-up refuses is found in a source.
LEMMA RefusedIsWritten ==
    ASSUME NEW src, NEW s, NEW v, <<s, v>> \in RefusedLater, Overridden(src)[s] = v
    PROVE  \E e \in DOMAIN src : /\ Overridden(src)[e[1]] = src[e]
                                 /\ <<e[1], src[e]>> \in RefusedLater
<1>1. \/ s = "model_path" /\ v = "blank"
      \/ s = "base_url" /\ v = "slash"
      \/ s = "language" /\ v \in {"blank", "other"}
      \/ s = "model" /\ v = "chat"
  BY DEF RefusedLater
<1>2. s \in Settings
  BY <1>1 DEF Settings, Values
<1>3. /\ Default["model_path"] = "english only" /\ Default["base_url"] = "url"
      /\ Default["language"] = "none" /\ Default["model"] = "audio"
  BY DEF Default
<1>4. v # Default[s] /\ v # "none"
  BY <1>1, <1>3
<1>5. Picked(src, s) = v
  BY <1>2 DEF Overridden
<1>6. PICK e \in DOMAIN src : e[1] = s /\ src[e] = v
  BY <1>4, <1>5, PickedWritten
<1>. QED  BY <1>6

\* What was accepted has a kind that has a provider, and what that provider needs.
LEMMA AcceptedBuilds ==
    ASSUME NEW src, Contents(src), Accepted(src, TRUE)
    PROVE  \/ Builds(Overridden(src)) /\ Capable(Overridden(src))
           \/ \E e \in DOMAIN src : /\ Overridden(src)[e[1]] = src[e]
                                    /\ <<e[1], src[e]>> \in RefusedLater
<1>. DEFINE cfg == Overridden(src)
<1>1. cfg.kind = Picked(src, "kind")
  BY DEF Overridden, Settings, Values
<1>2. cfg.kind \in {"blank", "hosted", "whisper_local", "whisper_server", "unknown"}
  BY <1>1, KindPicked DEF Values
<1>3. cfg.model \in {"blank", "audio", "chat"}
  <2>1. cfg.model = Picked(src, "model")
    BY DEF Overridden, Settings, Values
  <2>. QED  BY <2>1, ModelPicked DEF Values
<1>4. ~Invalid(cfg) /\ (cfg.kind = "hosted" => cfg.api_key \notin {"none", "blank"})
  BY DEF Accepted, KeyWanted, Hosted
<1>5. SUFFICES ASSUME cfg.model_path # "blank", cfg.base_url # "slash", cfg.language # "blank",
                      cfg.model # "chat", cfg.language # "other"
               PROVE  Builds(cfg) /\ Capable(cfg)
  BY RefusedIsWritten DEF RefusedLater
<1>. HIDE DEF cfg
<1>6. CASE cfg.kind = "hosted"
  BY <1>3, <1>4, <1>5, <1>6 DEF Invalid, Hosted, Builds, Capable
<1>7. CASE cfg.kind = "whisper_local"
  BY <1>4, <1>5, <1>7 DEF Invalid, Hosted, Builds, Capable
<1>8. CASE cfg.kind = "whisper_server"
  BY <1>4, <1>5, <1>8 DEF Invalid, Hosted, Builds, Capable
<1>9. cfg.kind \notin {"blank", "unknown"}
  BY <1>4 DEF Invalid
<1>. QED  BY <1>2, <1>6, <1>7, <1>8, <1>9

\* Without the API keys, every other setting is what it was.
LEMMA KeysApart ==
    ASSUME NEW src, NEW s, s # "api_key"
    PROVE  Picked(Restrict(src, {e \in DOMAIN src : e[1] # "api_key"}), s) = Picked(src, s)
<1>. DEFINE rest == Restrict(src, {e \in DOMAIN src : e[1] # "api_key"})
<1>1. \A i \in DOMAIN Levels(s) :
         LET e == <<s, Levels(s)[i]>>
         IN  (e \in DOMAIN rest) = (e \in DOMAIN src) /\ (e \in DOMAIN src => rest[e] = src[e])
  BY DEF Restrict
<1>. QED  BY <1>1, PickedFromOwn

\* sttctl, which is not given the keys, accepts what the daemon accepted.
LEMMA AcceptedWithoutKeys ==
    ASSUME NEW src, Accepted(src, TRUE)
    PROVE  Accepted(Restrict(src, {e \in DOMAIN src : e[1] # "api_key"}), FALSE)
<1>. DEFINE rest == Restrict(src, {e \in DOMAIN src : e[1] # "api_key"})
            cfg  == Overridden(src)
            bare == Overridden(rest)
<1>1. \A s \in Settings \ {"api_key"} : bare[s] = cfg[s]
  BY KeysApart DEF Overridden
<1>2. bare["api_key"] = "none"
  <2>1. \A i \in DOMAIN Levels("api_key") : <<"api_key", Levels("api_key")[i]>> \notin DOMAIN rest
    BY DEF Restrict
  <2>2. Places(rest, "api_key") = {}
    BY <2>1 DEF Places, Counts, Written
  <2>3. Picked(rest, "api_key") = "none"
    BY <2>2 DEF Picked, Default
  <2>4. "api_key" \in Settings
    BY DEF Settings, Values
  <2>. QED  BY <2>3, <2>4 DEF Overridden
<1>3. Parses(rest)
  BY DEF Accepted, Parses, Restrict
<1>4. ~Invalid(cfg)
  BY DEF Accepted
<1>. HIDE DEF cfg, bare
<1>5. /\ bare.kind = cfg.kind /\ bare.request_mode = cfg.request_mode
      /\ bare.language_hints = cfg.language_hints /\ bare.model = cfg.model
      /\ bare.base_url = cfg.base_url /\ bare.whisper_cmd = cfg.whisper_cmd
      /\ bare.beam_size = cfg.beam_size /\ bare.min_speech_ms = cfg.min_speech_ms
      /\ bare.positive_ones = cfg.positive_ones
      /\ bare.aggregate_timeout_ms = cfg.aggregate_timeout_ms
      /\ bare.command_timeout_ms = cfg.command_timeout_ms
      /\ bare.playback_enabled = cfg.playback_enabled
      /\ bare.playerctl_cmd = cfg.playerctl_cmd
      /\ bare.spend_limit = cfg.spend_limit /\ bare.request_cost = cfg.request_cost
      /\ bare.output_mode = cfg.output_mode
  BY <1>1 DEF Settings, Values
<1>6. \A s \in Settings : bare[s] # "text"
  BY <1>1, <1>2, <1>4 DEF Invalid
<1>7. ~Invalid(bare)
  BY <1>4, <1>5, <1>6 DEF Invalid, Hosted
<1>. QED  BY <1>3, <1>7 DEF Accepted, KeyWanted, bare

\* Whatever is edited, what validate accepted starts up, or a source holds a value that
\* took effect and that only start-up refuses; and the client accepts it without the key.
THEOREM AcceptedSuffices == ConfigSpec => []AcceptedIsEnough
<1>1. Contents(sources) => AcceptedIsEnough
  BY AcceptedBuilds, AcceptedWithoutKeys DEF AcceptedIsEnough
<1>. QED  BY <1>1, ContentsInductive, PTL

-----------------------------------------------------------------------------
(* What is overridden has no effect.                                        *)

\* The two sources differ at no entry but one.
OnlyDiffersAt(entry, src, other) ==
    \A e \in Entries \ {entry} : /\ (e \in DOMAIN src) = (e \in DOMAIN other)
                                 /\ e \in DOMAIN src => src[e] = other[e]

LEMMA EditedOnly ==
    ASSUME NEW src, NEW other, NEW entry \in Entries, Edited(src, other) = {entry}
    PROVE  OnlyDiffersAt(entry, src, other)
<1>. SUFFICES ASSUME NEW e \in Entries, e # entry
              PROVE  /\ (e \in DOMAIN src) = (e \in DOMAIN other)
                     /\ e \in DOMAIN src => src[e] = other[e]
  BY DEF OnlyDiffersAt
<1>1. Content(src, e) = Content(other, e)
  BY DEF Edited
<1>2. CASE e \in DOMAIN src
  <2>1. Content(src, e) = {src[e]}
    BY <1>2 DEF Content
  <2>2. e \in DOMAIN other
    BY <1>1, <2>1 DEF Content
  <2>3. Content(other, e) = {other[e]}
    BY <2>2 DEF Content
  <2>. QED  BY <1>1, <1>2, <2>1, <2>2, <2>3
<1>3. CASE e \notin DOMAIN src
  <2>1. Content(other, e) = {}
    BY <1>1, <1>3 DEF Content
  <2>2. e \in DOMAIN other => other[e] \in Content(other, e)
    BY DEF Content
  <2>. QED  BY <1>3, <2>1, <2>2
<1>. QED  BY <1>2, <1>3

\* Every level of a setting is an entry, and an entry is no more than that.
LEMMA LevelsAreEntries ==
    ASSUME NEW s \in Settings, NEW i \in DOMAIN Levels(s)
    PROVE  <<s, Levels(s)[i]>> \in Entries
BY DEF Entries, Range

LEMMA EntriesAreLevels ==
    ASSUME NEW entry \in Entries
    PROVE  /\ entry[1] \in Settings
           /\ \E i \in DOMAIN Levels(entry[1]) :
                 entry[2] = Levels(entry[1])[i] /\ entry = <<entry[1], Levels(entry[1])[i]>>
<1>1. PICK s \in Settings : entry \in {s} \X Range(Levels(s))
  BY DEF Entries
<1>2. entry[1] = s /\ entry[2] \in Range(Levels(s)) /\ entry = <<s, entry[2]>>
  BY <1>1
<1>3. PICK i \in DOMAIN Levels(s) : entry[2] = Levels(s)[i]
  BY <1>2 DEF Range
<1>. QED  BY <1>2, <1>3

\* What outranks what, level by level.
LEMMA OutranksWhom ==
    ASSUME NEW l, NEW m, Outranks(l, m)
    PROVE  \/ l = "runtime" /\ m \in {"runtime alias", "file", "file alias", "toml", "toml alias"}
           \/ l = "runtime alias" /\ m \in {"file", "file alias", "toml", "toml alias"}
           \/ l = "file" /\ m \in {"file alias", "toml", "toml alias"}
           \/ l = "file alias" /\ m \in {"toml", "toml alias"}
           \/ l = "toml" /\ m = "toml alias"
BY DEF Outranks, Runtime, File, TOML

\* What has the higher precedence in the documents, the code looks at earlier.
LEMMA OutranksIsBefore ==
    ASSUME NEW s, NEW i \in DOMAIN Levels(s), NEW j \in DOMAIN Levels(s),
           Outranks(Levels(s)[i], Levels(s)[j])
    PROVE  i < j
<1>1. CASE s \in TomlOnly
  <2>1. Levels(s)[i] = "toml" /\ Levels(s)[j] = "toml"
    BY <1>1 DEF Levels
  <2>. QED  BY <2>1, OutranksWhom
<1>2. CASE s \notin TomlOnly /\ s \notin Aliased
  <2>. DEFINE L == <<"runtime", "file", "toml">>
  <2>1. Levels(s) = L
    BY <1>2 DEF Levels
  <2>2. DOMAIN L = 1 .. 3 /\ L[1] = "runtime" /\ L[2] = "file" /\ L[3] = "toml"
    OBVIOUS
  <2>. HIDE DEF L
  <2>3. Outranks(L[i], L[j])
    BY <2>1
  <2>4. i \in 1 .. 3 /\ j \in 1 .. 3
    BY <2>1, <2>2
  <2>5. i = 1 \/ i = 2 \/ i = 3
    BY <2>4
  <2>6. j = 1 \/ j = 2 \/ j = 3
    BY <2>4
  <2>7. \/ /\ L[i] = "runtime"
           /\ L[j] \in {"runtime alias", "file", "file alias", "toml", "toml alias"}
        \/ L[i] = "runtime alias" /\ L[j] \in {"file", "file alias", "toml", "toml alias"}
        \/ L[i] = "file" /\ L[j] \in {"file alias", "toml", "toml alias"}
        \/ L[i] = "file alias" /\ L[j] \in {"toml", "toml alias"}
        \/ L[i] = "toml" /\ L[j] \in {"toml alias"}
    BY <2>3, OutranksWhom
  <2>8. CASE i = 1
    <3>1. j \notin {1}
      BY <2>2, <2>7, <2>8
    <3>. QED  BY <2>6, <2>8, <3>1
  <2>9. CASE i = 2
    <3>1. j \notin {1, 2}
      BY <2>2, <2>7, <2>9
    <3>. QED  BY <2>6, <2>9, <3>1
  <2>10. CASE i = 3
    <3>1. j \notin {1, 2, 3}
      BY <2>2, <2>7, <2>10
    <3>. QED  BY <2>6, <2>10, <3>1
  <2>. QED  BY <2>5, <2>8, <2>9, <2>10
<1>3. CASE s \notin TomlOnly /\ s \in Aliased /\ s # "api_key"
  <2>. DEFINE L == <<"runtime", "runtime alias", "file", "file alias", "toml">>
  <2>1. Levels(s) = L
    BY <1>3 DEF Levels
  <2>2. /\ DOMAIN L = 1 .. 5
        /\ L[1] = "runtime" /\ L[2] = "runtime alias" /\ L[3] = "file"
        /\ L[4] = "file alias" /\ L[5] = "toml"
    OBVIOUS
  <2>. HIDE DEF L
  <2>3. Outranks(L[i], L[j])
    BY <2>1
  <2>4. i \in 1 .. 5 /\ j \in 1 .. 5
    BY <2>1, <2>2
  <2>5. i = 1 \/ i = 2 \/ i = 3 \/ i = 4 \/ i = 5
    BY <2>4
  <2>6. j = 1 \/ j = 2 \/ j = 3 \/ j = 4 \/ j = 5
    BY <2>4
  <2>7. \/ /\ L[i] = "runtime"
           /\ L[j] \in {"runtime alias", "file", "file alias", "toml", "toml alias"}
        \/ L[i] = "runtime alias" /\ L[j] \in {"file", "file alias", "toml", "toml alias"}
        \/ L[i] = "file" /\ L[j] \in {"file alias", "toml", "toml alias"}
        \/ L[i] = "file alias" /\ L[j] \in {"toml", "toml alias"}
        \/ L[i] = "toml" /\ L[j] \in {"toml alias"}
    BY <2>3, OutranksWhom
  <2>8. CASE i = 1
    <3>1. j \notin {1}
      BY <2>2, <2>7, <2>8
    <3>. QED  BY <2>6, <2>8, <3>1
  <2>9. CASE i = 2
    <3>1. j \notin {1, 2}
      BY <2>2, <2>7, <2>9
    <3>. QED  BY <2>6, <2>9, <3>1
  <2>10. CASE i = 3
    <3>1. j \notin {1, 2, 3}
      BY <2>2, <2>7, <2>10
    <3>. QED  BY <2>6, <2>10, <3>1
  <2>11. CASE i = 4
    <3>1. j \notin {1, 2, 3, 4}
      BY <2>2, <2>7, <2>11
    <3>. QED  BY <2>6, <2>11, <3>1
  <2>12. CASE i = 5
    <3>1. j \notin {1, 2, 3, 4, 5}
      BY <2>2, <2>7, <2>12
    <3>. QED  BY <2>6, <2>12, <3>1
  <2>. QED  BY <2>5, <2>8, <2>9, <2>10, <2>11, <2>12
<1>4. CASE s \notin TomlOnly /\ s \in Aliased /\ s = "api_key"
  <2>. DEFINE L == <<"runtime", "runtime alias", "file", "file alias", "toml", "toml alias">>
  <2>1. Levels(s) = L
    BY <1>4 DEF Levels
  <2>2. /\ DOMAIN L = 1 .. 6
        /\ L[1] = "runtime" /\ L[2] = "runtime alias" /\ L[3] = "file"
        /\ L[4] = "file alias" /\ L[5] = "toml" /\ L[6] = "toml alias"
    OBVIOUS
  <2>. HIDE DEF L
  <2>3. Outranks(L[i], L[j])
    BY <2>1
  <2>4. i \in 1 .. 6 /\ j \in 1 .. 6
    BY <2>1, <2>2
  <2>5. i = 1 \/ i = 2 \/ i = 3 \/ i = 4 \/ i = 5 \/ i = 6
    BY <2>4
  <2>6. j = 1 \/ j = 2 \/ j = 3 \/ j = 4 \/ j = 5 \/ j = 6
    BY <2>4
  <2>7. \/ /\ L[i] = "runtime"
           /\ L[j] \in {"runtime alias", "file", "file alias", "toml", "toml alias"}
        \/ L[i] = "runtime alias" /\ L[j] \in {"file", "file alias", "toml", "toml alias"}
        \/ L[i] = "file" /\ L[j] \in {"file alias", "toml", "toml alias"}
        \/ L[i] = "file alias" /\ L[j] \in {"toml", "toml alias"}
        \/ L[i] = "toml" /\ L[j] \in {"toml alias"}
    BY <2>3, OutranksWhom
  <2>8. CASE i = 1
    <3>1. j \notin {1}
      BY <2>2, <2>7, <2>8
    <3>. QED  BY <2>6, <2>8, <3>1
  <2>9. CASE i = 2
    <3>1. j \notin {1, 2}
      BY <2>2, <2>7, <2>9
    <3>. QED  BY <2>6, <2>9, <3>1
  <2>10. CASE i = 3
    <3>1. j \notin {1, 2, 3}
      BY <2>2, <2>7, <2>10
    <3>. QED  BY <2>6, <2>10, <3>1
  <2>11. CASE i = 4
    <3>1. j \notin {1, 2, 3, 4}
      BY <2>2, <2>7, <2>11
    <3>. QED  BY <2>6, <2>11, <3>1
  <2>12. CASE i = 5
    <3>1. j \notin {1, 2, 3, 4, 5}
      BY <2>2, <2>7, <2>12
    <3>. QED  BY <2>6, <2>12, <3>1
  <2>13. CASE i = 6
    <3>1. j \notin {1, 2, 3, 4, 5, 6}
      BY <2>2, <2>7, <2>13
    <3>. QED  BY <2>6, <2>13, <3>1
  <2>. QED  BY <2>5, <2>8, <2>9, <2>10, <2>11, <2>12, <2>13
<1>. QED  BY <1>1, <1>2, <1>3, <1>4

\* The other settings do not depend on the entry.
LEMMA OtherSettings ==
    ASSUME NEW src, NEW other, NEW entry \in Entries, OnlyDiffersAt(entry, src, other),
           NEW s \in Settings, s # entry[1]
    PROVE  Picked(other, s) = Picked(src, s)
<1>1. ASSUME NEW i \in DOMAIN Levels(s)
      PROVE  <<s, Levels(s)[i]>> \in Entries \ {entry}
  BY LevelsAreEntries
<1>2. \A i \in DOMAIN Levels(s) :
         LET e == <<s, Levels(s)[i]>>
         IN  (e \in DOMAIN other) = (e \in DOMAIN src) /\ (e \in DOMAIN src => other[e] = src[e])
  BY <1>1 DEF OnlyDiffersAt
<1>. QED  BY <1>2, PickedFromOwn

\* An entry that another overrides comes after one that counts.
LEMMA OverriddenIsLater ==
    ASSUME NEW src, Contents(src), NEW entry \in Entries, Overrides(src, entry)
    PROVE  \E i, j \in DOMAIN Levels(entry[1]) :
              /\ i < j /\ Levels(entry[1])[j] = entry[2]
              /\ Counts(src, entry[1], Levels(entry[1])[i])
<1>. DEFINE L == Levels(entry[1])
<1>1. PICK e \in DOMAIN src : e[1] = entry[1] /\ Outranks(e[2], entry[2]) /\ ~Unset(src, e)
  BY DEF Overrides
<1>2. e \in Entries
  BY DEF Contents
<1>3. PICK i \in DOMAIN L : e[2] = L[i] /\ e = <<entry[1], L[i]>>
  BY <1>1, <1>2, EntriesAreLevels
<1>4. PICK j \in DOMAIN L : entry[2] = L[j]
  BY EntriesAreLevels
<1>5. i < j
  BY <1>1, <1>3, <1>4, OutranksIsBefore
<1>6. Counts(src, entry[1], L[i])
  BY <1>1, <1>3 DEF Unset, Counts, Written
<1>. QED  BY <1>4, <1>5, <1>6

\* An entry that comes after one that counts is not looked at.
LEMMA EarlierHides ==
    ASSUME NEW src, NEW other, NEW entry \in Entries, OnlyDiffersAt(entry, src, other),
           Contents(src), Overrides(src, entry)
    PROVE  Picked(other, entry[1]) = Picked(src, entry[1])
<1>. DEFINE s == entry[1]
            At(k) == <<s, Levels(s)[k]>>
<1>1. PICK i \in DOMAIN Levels(s), j \in DOMAIN Levels(s) :
         i < j /\ Levels(s)[j] = entry[2] /\ Counts(src, s, Levels(s)[i])
  BY OverriddenIsLater
<1>2. s \in Settings
  BY DEF Entries
<1>3. ASSUME NEW k \in DOMAIN Levels(s), k # j
      PROVE  At(k) \in Entries \ {entry}
  <2>1. Levels(s)[k] # entry[2]
    BY <1>1, <1>3, LevelsDistinct
  <2>. QED  BY <1>2, <2>1, LevelsAreEntries
<1>4. \A k \in DOMAIN Levels(s) \ {j} :
         /\ (At(k) \in DOMAIN src) = (At(k) \in DOMAIN other)
         /\ At(k) \in DOMAIN src => src[At(k)] = other[At(k)]
  BY <1>3 DEF OnlyDiffersAt
<1>5. i \in Places(src, s)
  BY <1>1 DEF Places
<1>6. \A k \in DOMAIN Levels(s) \ {j} : k \in Places(other, s) <=> k \in Places(src, s)
  BY <1>4 DEF Places, Counts, Written
<1>7. Places(src, s) \subseteq DOMAIN Levels(s) /\ Places(other, s) \subseteq DOMAIN Levels(s)
  BY DEF Places
<1>8. DOMAIN Levels(s) \subseteq 1 .. 6
  BY LevelsDistinct
<1>. DEFINE first == First(src, s)
<1>9. first \in Places(src, s) /\ \A k \in Places(src, s) : first <= k
  BY <1>5, FirstOfPlaces
<1>. HIDE DEF s, first
<1>10. first < j /\ first # j
  BY <1>1, <1>5, <1>7, <1>8, <1>9
<1>11. first \in Places(other, s) /\ \A k \in Places(other, s) : first <= k
  BY <1>6, <1>7, <1>8, <1>9, <1>10
<1>12. First(other, s) = first
  BY <1>11, FirstIsUnique
<1>13. other[At(first)] = src[At(first)]
  <2>1. first \in DOMAIN Levels(s) \ {j} /\ At(first) \in DOMAIN src
    BY <1>7, <1>9, <1>10 DEF Places, Counts, Written
  <2>. QED  BY <1>4, <2>1
<1>14. Picked(other, s) = Picked(src, s)
  BY <1>9, <1>11, <1>12, <1>13 DEF Picked, first
<1>. QED  BY <1>14 DEF s

\* What is unset before and after an edit was never looked at.
LEMMA UnsetIsNotSeen ==
    ASSUME NEW src, NEW other, NEW entry \in Entries, OnlyDiffersAt(entry, src, other),
           Unset(src, entry), Unset(other, entry)
    PROVE  Picked(other, entry[1]) = Picked(src, entry[1])
<1>. DEFINE s == entry[1]
            At(k) == <<s, Levels(s)[k]>>
<1>1. s \in Settings
  BY EntriesAreLevels
<1>2. ASSUME NEW k \in DOMAIN Levels(s)
      PROVE  /\ Counts(other, s, Levels(s)[k]) <=> Counts(src, s, Levels(s)[k])
             /\ Counts(src, s, Levels(s)[k]) => other[At(k)] = src[At(k)]
  <2>1. At(k) \in Entries
    BY <1>1, LevelsAreEntries
  <2>2. CASE At(k) # entry
    <3>1. /\ (At(k) \in DOMAIN src) = (At(k) \in DOMAIN other)
          /\ At(k) \in DOMAIN src => src[At(k)] = other[At(k)]
      BY <2>1, <2>2 DEF OnlyDiffersAt
    <3>. QED  BY <3>1 DEF Counts, Written
  <2>3. CASE At(k) = entry
    BY <2>3 DEF Unset, Counts, Written
  <2>. QED  BY <2>2, <2>3
<1>3. Places(other, s) = Places(src, s)
  BY <1>2 DEF Places
<1>4. First(other, s) = First(src, s)
  BY <1>3 DEF First
<1>5. CASE Places(src, s) = {}
  BY <1>3, <1>5 DEF Picked
<1>6. CASE Places(src, s) # {}
  <2>. DEFINE first == First(src, s)
  <2>1. first \in DOMAIN Levels(s) /\ Counts(src, s, Levels(s)[first])
    BY <1>6, FirstOfPlaces DEF Places
  <2>2. other[At(first)] = src[At(first)]
    BY <1>2, <2>1
  <2>. QED  BY <1>3, <1>4, <1>6, <2>2 DEF Picked
<1>. QED  BY <1>5, <1>6

\* The TOML file is read before as after, unless the entry has the wrong type in it.
LEMMA ParsesAlike ==
    ASSUME NEW src, NEW other, Contents(src), Contents(other), NEW entry \in Entries,
           OnlyDiffersAt(entry, src, other), ~MistypedToml(src, entry),
           ~MistypedToml(other, entry)
    PROVE  Parses(other) <=> Parses(src)
<1>1. DOMAIN src \subseteq Entries /\ DOMAIN other \subseteq Entries
  BY DEF Contents
<1>2. ASSUME Parses(src) PROVE Parses(other)
  BY <1>1, <1>2 DEF Parses, OnlyDiffersAt, MistypedToml, Content
<1>3. ASSUME Parses(other) PROVE Parses(src)
  BY <1>1, <1>3 DEF Parses, OnlyDiffersAt, MistypedToml, Content
<1>. QED  BY <1>2, <1>3

\* What one entry holds that others override, or that is unset, decides nothing.
LEMMA OneEntryInert ==
    ASSUME NEW src, NEW other, Contents(src), Contents(other), NEW entry \in Entries,
           Edited(src, other) = {entry},
           Overrides(src, entry) \/ (Unset(src, entry) /\ Unset(other, entry))
    PROVE  /\ Overridden(other) = Overridden(src)
           /\ ~MistypedToml(src, entry) /\ ~MistypedToml(other, entry) =>
                 \A require_api_key \in BOOLEAN :
                    Accepted(other, require_api_key) = Accepted(src, require_api_key)
<1>1. OnlyDiffersAt(entry, src, other)
  BY EditedOnly
<1>2. Picked(other, entry[1]) = Picked(src, entry[1])
  BY <1>1, EarlierHides, UnsetIsNotSeen
<1>3. \A s \in Settings : Picked(other, s) = Picked(src, s)
  BY <1>1, <1>2, OtherSettings
<1>4. Overridden(other) = Overridden(src)
  BY <1>3 DEF Overridden
<1>5. ASSUME ~MistypedToml(src, entry), ~MistypedToml(other, entry), NEW key \in BOOLEAN
      PROVE  Accepted(other, key) = Accepted(src, key)
  <2>1. Parses(other) <=> Parses(src)
    BY <1>1, <1>5, ParsesAlike
  <2>. QED  BY <1>4, <2>1 DEF Accepted
<1>. QED  BY <1>4, <1>5

\* The order in which pick_env_value and resolve_hosted_api_key look is the documented
\* precedence: an edit of an entry that another overrides by it, or of one that is unset
\* before and after, changes neither the configuration nor its being accepted, unless it
\* breaks or repairs the TOML file.
THEOREM OverriddenHasNoEffect == ConfigSpec => OverriddenIsInert
<1>. DEFINE Inert == \A entry \in Edited(sources, sources') :
          /\ Edited(sources, sources') = {entry}
          /\ Overrides(sources, entry) \/ (Unset(sources, entry) /\ Unset(sources', entry))
          => /\ Overridden(sources') = Overridden(sources)
             /\ ~MistypedToml(sources, entry) /\ ~MistypedToml(sources', entry) =>
                   \A require_api_key \in BOOLEAN :
                      Accepted(sources', require_api_key) = Accepted(sources, require_api_key)
<1>1. Contents(sources) /\ Contents(sources') => Inert
  BY OneEntryInert DEF Edited
<1>2. Contents(sources) /\ Contents(sources)' /\ [ConfigNext]_configVars => [Inert]_configVars
  BY <1>1
<1>. QED  BY <1>2, ContentsInductive, PTL DEF ConfigSpec, OverriddenIsInert
=============================================================================
