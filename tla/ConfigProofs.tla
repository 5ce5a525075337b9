---------------------------- MODULE ConfigProofs ----------------------------
(***************************************************************************)
(* The settings in force are the ones that were asked for, whatever the    *)
(* layers say, however many entries they have and however wide an int32    *)
(* is.  While koanf is being filled, the texts it holds are those of the   *)
(* highest layer read so far; from then on each part of the configuration  *)
(* stays what it was made from.                                            *)
(***************************************************************************)
EXTENDS Config, FiniteSetTheorems, TLAPS

Speaks(layer, key) == key \in DOMAIN layer \/ Section[key] \in DOMAIN layer

(* The layers are read: k is settled.                                      *)
Loaded == {"materialize", "logger", "resource", "pool", "open"}

Typed ==
    /\ at \in {"file", "env", "flags", "failed"} \cup Loaded
    /\ given \in [file : Layers, env : Layers, flag : Flags]
    /\ \A key \in DOMAIN k : key \in Keys /\ k[key] \in Texts(key) \cup {Defaults[key]}

(* The highest layer that speaks of a setting, layer by layer.             *)
Top(key) ==
    IF given.flag.changed /\ key = "obs.log_level" THEN LogLevel(given.flag.text)
    ELSE IF Speaks(given.env, key) THEN given.env
    ELSE IF Speaks(given.file, key) THEN given.file
    ELSE Defaults

(* What is not read yet has given nothing.                                 *)
Unread ==
    /\ at = "file" => given.file = Nothing
    /\ at \in {"file", "env"} => given.env = Nothing
    /\ at \in {"file", "env", "flags"} => ~given.flag.changed

Cascade(key) ==
    LET top == Highest(key) IN
    IF key \in DOMAIN top THEN key \in DOMAIN k /\ k[key] = top[key]
    ELSE key \notin DOMAIN k

ConfigOf ==
    [env |-> StringOf(k, "env"),
     shutdown |-> DurationOf(k, "http.shutdown_timeout"),
     max |-> int32(IntOf(k, "db.max_conns")),
     min |-> int32(IntOf(k, "db.min_conns")),
     lifetime |-> DurationOf(k, "db.max_conn_lifetime"),
     log |-> StringOf(k, "obs.log_level")]

ConfigInv ==
    /\ Typed
    /\ Unread
    /\ at \in {"file", "env", "flags"} => \A key \in Keys : Cascade(key)
    /\ Precedence
    /\ at \in {"logger", "resource", "pool", "open"} => Accepted /\ cfg = ConfigOf
    /\ at \in {"resource", "pool", "open"} => level = parseLevel(cfg.log)
    /\ at \in {"pool", "open"} =>
          deployed = newResource(cfg.env) /\ newResource(cfg.env) # "error"
    /\ at = "open" => dsn \in Dsn /\ pool = OverDsn(cfg, dsn)

---------------------------------------------------------------------------
(* The layers.                                                             *)

(* The largest element of a set.                                           *)
LEMMA MaxIs ==
    ASSUME NEW S, NEW m \in S, S \subseteq Int, \A y \in S : y <= m
    PROVE  Max(S) = m
<1>1. \A x \in S : (\A y \in S : y <= x) => x = m
  OBVIOUS
<1> QED
  BY <1>1 DEF Max

(* Every setting has a default.                                            *)
LEMMA DefaultsSpeak == DOMAIN Defaults = Keys /\ \A key \in Keys : Speaks(Defaults, key)
BY DEF Defaults, Speaks

(* The four layers from the highest down.                                  *)
LEMMA HighestIs ==
    ASSUME NEW key \in Keys
    PROVE  Highest(key) = Top(key)
<1> DEFINE flags == IF given.flag.changed THEN LogLevel(given.flag.text) ELSE Nothing
           L == <<Defaults, given.file, given.env, flags>>
           S == {i \in 1 .. 4 : Speaks(L[i], key)}
<1>1. Highest(key) = L[Max(S)]
  BY DEF Highest, Layered, Speaks
<1>2. Speaks(flags, key) <=> given.flag.changed /\ key = "obs.log_level"
  <2>1. DOMAIN LogLevel(given.flag.text) = {"obs.log_level"}
    BY DEF LogLevel
  <2>2. Section[key] # "obs.log_level"
    BY DEF Section, Keys
  <2>3. DOMAIN Nothing = {}
    BY DEF Nothing
  <2> QED BY <2>1, <2>2, <2>3 DEF Speaks
<1>3. 1 \in S
  BY DefaultsSpeak
<1>4. CASE Speaks(flags, key)
  <2>1. 4 \in S
    BY <1>4
  <2>2. Max(S) = 4
    BY <2>1, MaxIs
  <2> QED BY <1>1, <1>2, <1>4, <2>2 DEF Top
<1>5. CASE ~Speaks(flags, key) /\ Speaks(given.env, key)
  <2>1. 3 \in S /\ 4 \notin S
    BY <1>5
  <2>2. Max(S) = 3
    BY <2>1, MaxIs
  <2> QED BY <1>1, <1>2, <1>5, <2>2 DEF Top
<1>6. CASE ~Speaks(flags, key) /\ ~Speaks(given.env, key) /\ Speaks(given.file, key)
  <2>1. 2 \in S /\ 3 \notin S /\ 4 \notin S
    BY <1>6
  <2>2. Max(S) = 2
    BY <2>1, MaxIs
  <2> QED BY <1>1, <1>2, <1>6, <2>2 DEF Top
<1>7. CASE ~Speaks(flags, key) /\ ~Speaks(given.env, key) /\ ~Speaks(given.file, key)
  <2>1. 2 \notin S /\ 3 \notin S /\ 4 \notin S
    BY <1>7
  <2>2. Max(S) = 1
    BY <1>3, <2>1, MaxIs
  <2> QED BY <1>1, <1>2, <1>7, <2>2 DEF Top
<1> QED BY <1>4, <1>5, <1>6, <1>7

(* A layer: texts of the right kind, and no bare section beside one of its *)
(* keys; the empty one among them.                                         *)
LEMMA LayerShape ==
    ASSUME NEW layer \in Layers
    PROVE  /\ \A p \in DOMAIN layer : p \in Keys \cup Sections
           /\ \A key \in Keys \cap DOMAIN layer :
                 layer[key] \in Texts(key) /\ Section[key] \notin DOMAIN layer
BY DEF Layers

(* A layer that says nothing is one, whatever the bound on the entries.    *)
LEMMA NothingIsALayer == Nothing \in Layers
<1> DEFINE T == UNION {Texts(key) : key \in Keys} \cup {Word("bare")}
           F(D) == {f \in [D -> T] :
                      \A p \in D : f[p] \in IF p \in Keys THEN Texts(p) ELSE {Word("bare")}}
           Ds == {D \in SUBSET (Keys \cup Sections) :
                    /\ Cardinality(D) <= MaxEntries
                    /\ \A key \in D \cap Keys : Section[key] \notin D}
<1>1. {} \in Ds
  BY EntriesAssumption, FS_EmptySet
<1>2. Nothing \in F({})
  <2>1. Nothing \in [{} -> T]
    BY DEF Nothing
  <2> QED BY <2>1
<1>3. Layers = UNION {F(D) : D \in Ds}
  BY DEF Layers
<1> HIDE DEF F, Ds
<1> QED BY <1>1, <1>2, <1>3

(* Merging: what the layer says, it has; of the rest nothing is lost but   *)
(* under a bare section.                                                   *)
LEMMA Merging ==
    ASSUME NEW layer, NEW m, NEW key \in Keys
    PROVE  /\ key \in DOMAIN Merge(layer, m) <=>
                key \in DOMAIN layer \/ (key \in DOMAIN m /\ ~Speaks(layer, key))
           /\ key \in DOMAIN Merge(layer, m) =>
                Merge(layer, m)[key] = IF key \in DOMAIN layer THEN layer[key] ELSE m[key]
BY DEF Merge, Speaks

(* Only settings get into koanf.                                           *)
LEMMA MergeDomain == \A layer, m : DOMAIN Merge(layer, m) \subseteq Keys
BY DEF Merge

(* That is so in the next state as well.                                   *)
LEMMA HighestIsNext == \A key \in Keys : Highest(key)' = Top(key)'
<1>1. \A key \in Keys : Highest(key) = Top(key)
  BY HighestIs
<1>2. (\A key \in Keys : Highest(key) = Top(key))'
  BY <1>1, PTL
<1> QED BY <1>2

---------------------------------------------------------------------------
(* One lemma for each step.                                                *)

(* Start-up begins with the defaults alone.                                *)
LEMMA InitInv == Init => ConfigInv
<1> SUFFICES ASSUME Init PROVE ConfigInv
  OBVIOUS
<1>1. Typed
  BY NothingIsALayer, DefaultsSpeak
     DEF Init, Typed, Loaded, Flags, DefaultFlag
<1>2. \A key \in Keys : Top(key) = Defaults
  BY DEF Init, Top, Speaks, Nothing
<1>3. \A key \in Keys : Cascade(key)
  BY <1>2, HighestIs, DefaultsSpeak DEF Cascade, Init
<1> QED
  BY <1>1, <1>3 DEF ConfigInv, Init, Unread, Precedence

(* The file, over the defaults.                                            *)
LEMMA LoadFileInv == ASSUME ConfigInv, LoadFile PROVE ConfigInv'
<1>1. PICK file \in Layers : given' = [given EXCEPT !.file = file] /\ k' = Merge(file, k)
  BY DEF LoadFile
<1>2. /\ at = "file" /\ at' = "env"
      /\ given.file = Nothing /\ given.env = Nothing /\ ~given.flag.changed
      /\ given'.file = file /\ given'.env = Nothing /\ given'.flag = given.flag
      /\ given' \in [file : Layers, env : Layers, flag : Flags]
  BY <1>1 DEF LoadFile, ConfigInv, Typed, Unread
<1>3. ASSUME NEW key \in Keys
      PROVE  Cascade(key)' /\ (key \in DOMAIN k' => k'[key] \in Texts(key) \cup {Defaults[key]})
  <2>1. Top(key) = Defaults /\ Top(key)' = IF Speaks(file, key) THEN file ELSE Defaults
    BY <1>2 DEF Top, Speaks, Nothing
  <2>2. key \in DOMAIN k /\ k[key] = Defaults[key]
    BY <2>1, <1>2, HighestIs, DefaultsSpeak DEF ConfigInv, Cascade
  <2>3. Highest(key)' = Top(key)'
    BY HighestIsNext
  <2> QED
    BY <1>1, <2>1, <2>2, <2>3, Merging, LayerShape, DefaultsSpeak DEF Cascade, Speaks
<1>4. Typed'
  BY <1>1, <1>2, <1>3, MergeDomain DEF Typed, Loaded
<1> QED
  BY <1>2, <1>3, <1>4 DEF ConfigInv, Unread, Precedence

(* The environment, over the file.                                         *)
LEMMA LoadEnvInv == ASSUME ConfigInv, LoadEnv PROVE ConfigInv'
<1>1. PICK env \in Layers : given' = [given EXCEPT !.env = env] /\ k' = Merge(env, k)
  BY DEF LoadEnv
<1>2. /\ at = "env" /\ at' = "flags"
      /\ given.env = Nothing /\ ~given.flag.changed
      /\ given'.file = given.file /\ given'.env = env /\ given'.flag = given.flag
      /\ given' \in [file : Layers, env : Layers, flag : Flags]
  BY <1>1 DEF LoadEnv, ConfigInv, Typed, Unread
<1>3. ASSUME NEW key \in Keys
      PROVE  Cascade(key)' /\ (key \in DOMAIN k' => k'[key] \in Texts(key) \cup {Defaults[key]})
  <2>1. Top(key)' = IF Speaks(env, key) THEN env ELSE Top(key)
    BY <1>2 DEF Top, Speaks, Nothing
  <2>2. /\ Cascade(key) /\ Highest(key) = Top(key)
        /\ key \in DOMAIN k => k[key] \in Texts(key) \cup {Defaults[key]}
    BY <1>2, HighestIs DEF ConfigInv, Typed
  <2>3. Highest(key)' = Top(key)'
    BY HighestIsNext
  <2> QED
    BY <1>1, <2>1, <2>2, <2>3, Merging, LayerShape DEF Cascade, Speaks
<1>4. Typed'
  BY <1>1, <1>2, <1>3, MergeDomain DEF Typed, Loaded
<1> QED
  BY <1>2, <1>3, <1>4 DEF ConfigInv, Unread, Precedence

(* The layer of the command line speaks of the log level only.             *)
LEMMA LogLevelLayer ==
    ASSUME NEW text, NEW key \in Keys
    PROVE  /\ Speaks(LogLevel(text), key) <=> key = "obs.log_level"
           /\ key \in DOMAIN LogLevel(text) <=> key = "obs.log_level"
           /\ LogLevel(text)["obs.log_level"] = text
<1>1. Section[key] # "obs.log_level"
  BY DEF Section, Keys
<1> QED BY <1>1 DEF Speaks, LogLevel

(* The flags, over everything else; one that nobody gave fills a gap.      *)
LEMMA LoadFlagsInv == ASSUME ConfigInv, LoadFlags PROVE ConfigInv'
<1>1. PICK flag \in Flags : given' = [given EXCEPT !.flag = flag] /\ k' = Override(flag, k)
  BY DEF LoadFlags
<1>2. /\ at = "flags" /\ at' = "materialize" /\ ~given.flag.changed
      /\ given'.file = given.file /\ given'.env = given.env /\ given'.flag = flag
      /\ given' \in [file : Layers, env : Layers, flag : Flags]
  BY <1>1 DEF LoadFlags, ConfigInv, Typed, Unread
<1>3. /\ flag.text \in Texts("obs.log_level")
      /\ ~flag.changed => flag.text = DefaultFlag
  <2>1. DefaultFlag \in Texts("obs.log_level")
    BY DEF DefaultFlag, Texts, LevelNames
  <2> QED BY <2>1 DEF Flags
<1>4. ASSUME NEW key \in Keys
      PROVE  /\ LET top == Highest(key)' IN
                IF key \in DOMAIN top
                THEN key \in DOMAIN k' /\ k'[key] = top[key]
                ELSE key \in DOMAIN k' => key = "obs.log_level" /\ k'[key] = DefaultFlag
             /\ key \in DOMAIN k' => k'[key] \in Texts(key) \cup {Defaults[key]}
  <2>1. /\ Cascade(key) /\ Highest(key) = Top(key) /\ Highest(key)' = Top(key)'
        /\ key \in DOMAIN k => k[key] \in Texts(key) \cup {Defaults[key]}
    BY <1>2, HighestIs, HighestIsNext DEF ConfigInv, Typed
  <2>2. Top(key)' = IF flag.changed /\ key = "obs.log_level" THEN LogLevel(flag.text)
                    ELSE Top(key)
    BY <1>2 DEF Top
  <2>3. CASE key = "obs.log_level" /\ (flag.changed \/ key \notin DOMAIN k)
    <3>1. key \in DOMAIN k' /\ k'[key] = flag.text
      BY <1>1, <2>3, Merging, LogLevelLayer DEF Override
    <3> QED BY <1>3, <2>1, <2>2, <2>3, <3>1, LogLevelLayer DEF Cascade
  <2>4. CASE key # "obs.log_level" \/ (~flag.changed /\ key \in DOMAIN k)
    <3>1. /\ key \in DOMAIN k' <=> key \in DOMAIN k
          /\ key \in DOMAIN k => k'[key] = k[key]
      BY <1>1, <2>4, Merging, LogLevelLayer DEF Override
    <3>2. Top(key)' = Top(key)
      BY <2>2, <2>4
    <3> QED BY <2>1, <3>1, <3>2 DEF Cascade
  <2> QED BY <2>3, <2>4
<1>5. Typed'
  <2>1. DOMAIN k' \subseteq Keys
    BY <1>1, MergeDomain DEF Override, ConfigInv, Typed
  <2> QED BY <1>2, <1>4, <2>1 DEF Typed, Loaded
<1>6. Precedence'
  BY <1>4 DEF Precedence
<1> QED
  BY <1>2, <1>5, <1>6 DEF ConfigInv, Unread

(* From here on koanf is only read.                                        *)
LEMMA SettledStep ==
    ASSUME ConfigInv, UNCHANGED <<given, k>>,
           at \in Loaded, at' \in Loaded \cup {"failed"}
    PROVE  /\ Typed' /\ Unread' /\ Precedence'
           /\ ~(at' \in {"file", "env", "flags"})
           /\ ConfigOf' = ConfigOf
           /\ Accepted' <=> Accepted
<1>1. \A key \in Keys : Highest(key)' = Highest(key)
  <2>1. \A key \in Keys : Top(key)' = Top(key)
    BY DEF Top
  <2> QED BY <2>1, HighestIs, HighestIsNext
<1>2. Precedence'
  BY <1>1 DEF ConfigInv, Precedence, Loaded
<1>3. Typed' /\ Unread'
  BY DEF ConfigInv, Typed, Unread, Loaded
<1>4. ConfigOf' = ConfigOf /\ (Accepted' <=> Accepted)
  BY DEF ConfigOf, Accepted
<1> QED
  BY <1>2, <1>3, <1>4 DEF Loaded

(* The configuration is what koanf holds, in range.                        *)
LEMMA MaterializeInv == ASSUME ConfigInv, Materialize PROVE ConfigInv'
<1>1. /\ at \in Loaded /\ at' \in Loaded /\ at' = "logger" /\ UNCHANGED <<given, k>>
      /\ Accepted /\ cfg' = ConfigOf
  BY DEF Materialize, Loaded, ConfigOf
<1> QED
  BY <1>1, SettledStep DEF ConfigInv

(* The level is the one the configuration names.                           *)
LEMMA NewLoggerInv == ASSUME ConfigInv, NewLogger PROVE ConfigInv'
<1>1. /\ at \in Loaded /\ at' \in Loaded /\ at = "logger" /\ at' = "resource"
      /\ UNCHANGED <<given, k, cfg>> /\ level' = parseLevel(cfg.log)
  BY DEF NewLogger, Loaded
<1> QED
  BY <1>1, SettledStep DEF ConfigInv

(* The label is that of a known environment.                               *)
LEMMA NewProvidersInv == ASSUME ConfigInv, NewProviders PROVE ConfigInv'
<1>1. /\ at \in Loaded /\ at' \in Loaded /\ at = "resource" /\ at' = "pool"
      /\ UNCHANGED <<given, k, cfg, level>>
      /\ deployed' = newResource(cfg.env) /\ newResource(cfg.env) # "error"
  BY DEF NewProviders, Loaded
<1> QED
  BY <1>1, SettledStep DEF ConfigInv

(* The pool is made of the configuration and the DSN.                      *)
LEMMA NewPoolInv == ASSUME ConfigInv, NewPool PROVE ConfigInv'
<1>1. /\ at \in Loaded /\ at' \in Loaded /\ at = "pool" /\ at' = "open"
      /\ UNCHANGED <<given, k, cfg, level, deployed>>
      /\ dsn' \in Dsn /\ pool' = OverDsn(cfg, dsn')
  BY DEF NewPool, Loaded
<1> QED
  BY <1>1, SettledStep DEF ConfigInv

(* Start-up that failed promises nothing.                                  *)
LEMMA FailedInv ==
    ASSUME ConfigInv, FileFails \/ OutOfRange \/ ProvidersFail \/ PoolFails
    PROVE  ConfigInv'
<1>1. at' = "failed" /\ UNCHANGED <<given, k>>
  BY DEF FileFails, OutOfRange, ProvidersFail, PoolFails
<1> QED
  BY <1>1 DEF ConfigInv, Typed, Unread, Precedence

(* Nothing changes.                                                        *)
LEMMA StutterInv == ASSUME ConfigInv, UNCHANGED cvars PROVE ConfigInv'
<1>1. \A key \in Keys : Highest(key)' = Highest(key)
  <2>1. \A key \in Keys : Top(key)' = Top(key)
    BY DEF Top, cvars
  <2> QED BY <2>1, HighestIs, HighestIsNext
<1>2. Precedence' /\ (at \in {"file", "env", "flags"} => \A key \in Keys : Cascade(key)')
  BY <1>1 DEF ConfigInv, Precedence, Cascade, cvars
<1> QED
  BY <1>2 DEF ConfigInv, Typed, Unread, ConfigOf, Accepted, cvars

(* The invariant holds all through start-up.                               *)
THEOREM ConfigIsConsistent == Spec => []ConfigInv
<1>1. ConfigInv /\ [Next]_cvars => ConfigInv'
  BY LoadFileInv, LoadEnvInv, LoadFlagsInv, MaterializeInv, NewLoggerInv,
     NewProvidersInv, NewPoolInv, FailedInv, StutterInv DEF Next
<1> QED
  BY <1>1, InitInv, PTL DEF Spec

---------------------------------------------------------------------------
(* What start-up makes of the configuration.                               *)

(* A number that an int32 can hold stays itself.                           *)
LEMMA Int32Keeps == \A i \in 0 .. MaxInt32 : int32(i) = i
<1> SUFFICES ASSUME NEW i \in 0 .. MaxInt32 PROVE int32(i) = i
  OBVIOUS
<1>1. i \in Nat /\ MaxInt32 \in Nat /\ i <= MaxInt32
  BY WidthAssumption
<1> QED BY <1>1 DEF int32

(* What can be read as a number is one.                                    *)
LEMMA TextsAreTyped ==
    /\ \A key \in {"db.max_conns", "db.min_conns", "db.max_conn_lifetime"} :
          \A text \in Texts(key) \cup {Defaults[key]} :
             text.kind \in {"number", "duration"} => text.n \in Int
    /\ \A key \in {"obs.log_level", "env"} :
          \A text \in Texts(key) \cup {Defaults[key]} : text.kind = "word"
<1>1. ASSUME NEW key \in {"db.max_conns", "db.min_conns"}, NEW text \in Texts(key)
      PROVE  text.kind \in {"number", "duration"} => text.n \in Int
  <2>1. Texts(key) = {Number(i) : i \in Numbers} \cup {Word("other")}
    BY <1>1 DEF Texts
  <2>2. Numbers \subseteq Int
    BY WidthAssumption DEF Numbers
  <2> QED BY <2>1, <2>2 DEF Number, Word
<1>2. ASSUME NEW text \in Texts("db.max_conn_lifetime")
      PROVE  text.kind \in {"number", "duration"} => text.n \in Int
  <2>1. Texts("db.max_conn_lifetime") =
          {Number(0), Number(1), Duration(5), Duration(-5), Word("other")}
    BY DEF Texts
  <2> QED BY <2>1 DEF Number, Duration, Word
<1>3. ASSUME NEW key \in {"obs.log_level", "env"}, NEW text \in Texts(key)
      PROVE  text.kind = "word"
  <2>1. PICK w : text = Word(w)
    <3>1. CASE key = "obs.log_level"
      <4>1. Texts(key) = {Word(w) : w \in LevelNames \cup {"other"}}
        BY <3>1 DEF Texts
      <4> QED BY <4>1
    <3>2. CASE key = "env"
      <4>1. Texts(key) = {Word(w) : w \in DOMAIN Label \cup {"", "other"}}
        BY <3>2 DEF Texts
      <4> QED BY <4>1
    <3> QED BY <3>1, <3>2
  <2> QED BY <2>1 DEF Word
<1>4. /\ Defaults["db.max_conns"] = Number(1) /\ Defaults["db.min_conns"] = Number(1)
      /\ Defaults["db.max_conn_lifetime"] = Duration(60)
      /\ Defaults["obs.log_level"] = Word("info") /\ Defaults["env"] = Word("dev")
  BY DEF Defaults, Keys
<1> QED BY <1>1, <1>2, <1>3, <1>4 DEF Number, Duration, Word

(* The settings koanf holds are typed as their readers expect.             *)
LEMMA ReadsAreTyped ==
    ASSUME ConfigInv
    PROVE  /\ IntOf(k, "db.max_conns") \in Int /\ IntOf(k, "db.min_conns") \in Int
           /\ DurationOf(k, "db.max_conn_lifetime") \in Int
           /\ \A key \in {"obs.log_level", "env"} :
                 StringOf(k, key) = IF key \in DOMAIN k THEN k[key].word ELSE ""
<1>1. \A key \in DOMAIN k : k[key] \in Texts(key) \cup {Defaults[key]}
  BY DEF ConfigInv, Typed
<1>2. ASSUME NEW key \in {"db.max_conns", "db.min_conns", "db.max_conn_lifetime"}
      PROVE  IntOf(k, key) \in Int /\ DurationOf(k, key) \in Int
  BY <1>1, TextsAreTyped DEF IntOf, DurationOf
<1>3. ASSUME NEW key \in {"obs.log_level", "env"}
      PROVE  StringOf(k, key) = IF key \in DOMAIN k THEN k[key].word ELSE ""
  BY <1>1, TextsAreTyped DEF StringOf
<1> QED BY <1>2, <1>3

(* What koanf reads for a setting is what the highest layer that speaks of *)
(* it says, the log level apart.                                           *)
LEMMA ReadsAreTheHighest ==
    ASSUME ConfigInv, at = "open", NEW key \in Keys, key # "obs.log_level"
    PROVE  IntOf(k, key) = IntOf(Highest(key), key) /\ DurationOf(k, key) = DurationOf(Highest(key), key)
<1>1. IF key \in DOMAIN Highest(key)
      THEN key \in DOMAIN k /\ k[key] = Highest(key)[key]
      ELSE key \notin DOMAIN k
  BY DEF ConfigInv, Precedence
<1> QED
  BY <1>1 DEF IntOf, DurationOf

(* An open pool is as the layers, and behind them the DSN, ask.            *)
LEMMA PoolLemma == ConfigInv => PoolAsAsked
<1> SUFFICES ASSUME ConfigInv, at = "open" PROVE PoolAsAsked
  BY DEF PoolAsAsked
<1> DEFINE max == IntOf(k, "db.max_conns")
           min == IntOf(k, "db.min_conns")
           lifetime == DurationOf(k, "db.max_conn_lifetime")
<1>1. max \in Int /\ min \in Int /\ lifetime \in Int
  BY ReadsAreTyped
<1>2. max \in 1 .. MaxInt32 /\ min \in 0 .. MaxInt32
  BY <1>1, WidthAssumption DEF ConfigInv, Accepted, InRange
<1>3. int32(max) = max /\ int32(min) = min
  BY <1>2, WidthAssumption, Int32Keeps
<1>4. cfg = ConfigOf /\ pool = OverDsn(cfg, dsn)
  BY DEF ConfigInv
<1>5. cfg.max = max /\ cfg.min = min /\ cfg.lifetime = lifetime
  BY <1>3, <1>4 DEF ConfigOf
<1>6. cfg.max \in Int /\ cfg.max > 0 /\ cfg.min \in Int /\ cfg.min >= 0
  BY <1>1, <1>2, <1>5, WidthAssumption
<1>7. /\ max = IntOf(Highest("db.max_conns"), "db.max_conns")
      /\ min = IntOf(Highest("db.min_conns"), "db.min_conns")
      /\ lifetime = DurationOf(Highest("db.max_conn_lifetime"), "db.max_conn_lifetime")
  BY ReadsAreTheHighest DEF Keys
<1> HIDE DEF max, min, lifetime
<1>8. /\ pool.max = cfg.max
      /\ pool.min = IF cfg.min = 0 THEN dsn.min ELSE cfg.min
      /\ pool.lifetime = IF cfg.lifetime > 0 THEN cfg.lifetime ELSE dsn.lifetime
  BY <1>4, <1>6 DEF OverDsn
<1> QED
  BY <1>5, <1>6, <1>7, <1>8 DEF PoolAsAsked

(* Level and label are those of the highest layer.                         *)
LEMMA ObsLemma == ConfigInv => ObsAsAsked
<1> SUFFICES ASSUME ConfigInv, at \in {"resource", "pool", "open"} PROVE ObsAsAsked
  BY DEF ObsAsAsked
<1>1. /\ cfg.log = StringOf(k, "obs.log_level") /\ cfg.env = StringOf(k, "env")
      /\ level = parseLevel(cfg.log)
      /\ at \in {"pool", "open"} =>
            deployed = newResource(cfg.env) /\ newResource(cfg.env) # "error"
  BY DEF ConfigInv, ConfigOf
<1>2. ASSUME NEW key \in {"obs.log_level", "env"}
      PROVE  LET top == Highest(key) IN
             IF key \in DOMAIN top THEN StringOf(k, key) = top[key].word
             ELSE key = "obs.log_level" /\ StringOf(k, key) \in {"", "info"}
  <2>1. key \in Keys
    BY DEF Keys
  <2>2. key = "env" => key \in DOMAIN Highest(key)
    <3>1. Section["env"] = "top level" /\ "top level" \notin Keys \cup Sections
      BY DEF Section, Keys, Sections
    <3>2. \A layer \in Layers : Speaks(layer, "env") => "env" \in DOMAIN layer
      BY <3>1, LayerShape DEF Speaks
    <3>3. given.file \in Layers /\ given.env \in Layers
      BY DEF ConfigInv, Typed
    <3> QED BY <2>1, <3>2, <3>3, HighestIs, DefaultsSpeak DEF Top
  <2>3. /\ StringOf(k, key) = IF key \in DOMAIN k THEN k[key].word ELSE ""
        /\ DefaultFlag.word = "info"
    BY ReadsAreTyped DEF DefaultFlag, Word
  <2>4. IF key \in DOMAIN Highest(key)
        THEN key \in DOMAIN k /\ k[key] = Highest(key)[key]
        ELSE key \in DOMAIN k => key = "obs.log_level" /\ k[key] = DefaultFlag
    BY <2>1 DEF ConfigInv, Precedence
  <2> QED
    BY <2>2, <2>3, <2>4
<1>3. LET top == Highest("obs.log_level") IN
      level = IF /\ "obs.log_level" \in DOMAIN top
                 /\ top["obs.log_level"].word \in LevelNames
              THEN top["obs.log_level"].word ELSE "info"
  BY <1>1, <1>2 DEF parseLevel, LevelNames
<1>4. at \in {"pool", "open"} =>
         LET env == Highest("env")["env"].word IN
         env \in DOMAIN Label /\ deployed = Label[env]
  BY <1>1, <1>2 DEF newResource
<1> QED BY <1>3, <1>4 DEF ObsAsAsked

(* The text in force for a setting is that of the highest layer that says  *)
(* anything of it.                                                         *)
THEOREM LayersTakePrecedence == Spec => []Precedence
BY ConfigIsConsistent, PTL DEF ConfigInv

(* The pool is as large, and its connections live as long, as the highest  *)
(* layer asks: never as what is left of a number that was cut, and where   *)
(* nothing is asked as the DSN has it.                                     *)
THEOREM PoolIsAsAsked == Spec => []PoolAsAsked
BY ConfigIsConsistent, PoolLemma, PTL

(* Logger and telemetry are what the highest layer asked for.              *)
THEOREM ObsIsAsAsked == Spec => []ObsAsAsked
BY ConfigIsConsistent, ObsLemma, PTL
=============================================================================
