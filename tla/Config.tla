------------------------------ MODULE Config ------------------------------
(***************************************************************************)
(* How the server gets its settings: config.Load puts four layers over     *)
(* each other and materializes them, obs.Init makes the logger and the     *)
(* label of all telemetry, and storage.NewPool the connection pool from    *)
(* the result.                                                             *)
(*                                                                         *)
(* A text is what someone wrote for a setting: a number, a duration with   *)
(* its unit, or any other word.  Durations count nanoseconds.  int32 is as *)
(* wide as MaxInt32 says.                                                  *)
(***************************************************************************)
EXTENDS Integers, FiniteSets

CONSTANTS
    MaxInt32,    \* math.MaxInt32
    MaxEntries   \* bound: entries of the file, and of the environment

ASSUME WidthAssumption == MaxInt32 \in Nat \ {0}
ASSUME EntriesAssumption == MaxEntries \in Nat

VARIABLES
    at,      \* the next step of start-up, or how it ended
    given,   \* what the file, the environment and the command line say
    k,       \* koanf: the text of each path that exists
    cfg,     \* *config.Config
    level,   \* the level of the default logger
    deployed,\* the environment the telemetry is labelled with
    dsn,     \* the pool settings of the DSN, over those of pgx
    pool     \* the pool settings in force

cvars == <<at, given, k, cfg, level, deployed, dsn, pool>>

Keys == {"http.shutdown_timeout", "db.max_conns", "db.min_conns",
         "db.max_conn_lifetime", "obs.log_level", "env"}
Sections == {"http", "db", "obs"}
Section ==
    [key \in Keys |-> CASE key = "http.shutdown_timeout" -> "http"
                        [] key = "obs.log_level"         -> "obs"
                        [] key = "env"                   -> "top level"
                        [] OTHER                         -> "db"]

Number(n) == [kind |-> "number", n |-> n]
Duration(n) == [kind |-> "duration", n |-> n]
Word(w) == [kind |-> "word", word |-> w]

(* The second and the last number leave the range of an int32 and come     *)
(* back into it when they are cut to its width.                            *)
Numbers == {-1, -2 * MaxInt32 - 1, 0, 1, MaxInt32, MaxInt32 + 1, 2 * MaxInt32 + 3}
LevelNames == {"debug", "info", "warn", "error"}
Label == [dev |-> "development", staging |-> "staging", prod |-> "production"]
Texts(key) ==
    CASE key \in {"db.max_conns", "db.min_conns"} ->
            {Number(n) : n \in Numbers} \cup {Word("other")}
      [] key \in {"db.max_conn_lifetime", "http.shutdown_timeout"} ->
            {Number(0), Number(1), Duration(5), Duration(-5), Word("other")}
      [] key = "obs.log_level" -> {Word(w) : w \in LevelNames \cup {"other"}}
      [] OTHER -> {Word(w) : w \in DOMAIN Label \cup {"", "other"}}

(* A layer gives texts to some paths.  A path may be a bare section, such  *)
(* as an empty heading of the file or FLOWHAND_OBS; a layer that gives     *)
(* both a bare section and one of its keys is not modelled.                *)
Layers ==
    UNION {{f \in [D -> UNION {Texts(key) : key \in Keys} \cup {Word("bare")}] :
              \A p \in D : f[p] \in IF p \in Keys THEN Texts(p) ELSE {Word("bare")}} :
           D \in {D \in SUBSET (Keys \cup Sections) :
                    /\ Cardinality(D) <= MaxEntries
                    /\ \A key \in D \cap Keys : Section[key] \notin D}}
Nothing == << >>

(* --log-level, the one flag of serverCmd that maps to a setting. *)
DefaultFlag == Word("info")
Flags == [changed : {TRUE}, text : Texts("obs.log_level")]
           \cup [changed : {FALSE}, text : {DefaultFlag}]

Defaults ==
    [key \in Keys |-> CASE key = "http.shutdown_timeout" -> Duration(10)
                        [] key = "db.max_conn_lifetime"  -> Duration(60)
                        [] key = "obs.log_level"         -> Word("info")
                        [] key = "env"                   -> Word("dev")
                        [] OTHER                         -> Number(1)]

(* koanf reads a path: what does not parse, or is not there, is zero, and  *)
(* a number is a duration without a unit.                                  *)
IntOf(m, key) ==
    IF key \in DOMAIN m /\ m[key].kind = "number" THEN m[key].n ELSE 0
DurationOf(m, key) ==
    IF key \in DOMAIN m /\ m[key].kind \in {"number", "duration"} THEN m[key].n ELSE 0
StringOf(m, key) ==
    IF key \in DOMAIN m /\ m[key].kind = "word" THEN m[key].word ELSE ""

(* koanf merges a layer: its texts win, and a bare section takes the place *)
(* of every key the section had.                                           *)
Merge(layer, m) ==
    [key \in {key \in Keys : \/ key \in DOMAIN layer
                             \/ (key \in DOMAIN m /\ Section[key] \notin DOMAIN layer)} |->
        IF key \in DOMAIN layer THEN layer[key] ELSE m[key]]

(* int32(n): the low bits. *)
int32(n) == ((n + MaxInt32 + 1) % (2 * MaxInt32 + 2)) - MaxInt32 - 1

NoConfig == [env |-> "", shutdown |-> 0, max |-> 0, min |-> 0, lifetime |-> 0, log |-> ""]
NoPool == [max |-> 0, min |-> 0, lifetime |-> 0]

(* What pgxpool.ParseConfig can hand over: a maximum below one it rejects, *)
(* the other two it takes as they are.  The numbers tell the DSN's         *)
(* settings from those of the configuration.                               *)
Dsn == [max : {2}, min : {-2, 0, 2}, lifetime : {-7, 0, 7}]

(* Load starts: a fresh koanf with the defaults. *)
Init ==
    /\ at = "file"
    /\ given = [file |-> Nothing, env |-> Nothing,
                flag |-> [changed |-> FALSE, text |-> DefaultFlag]]
    /\ k = Defaults /\ cfg = NoConfig
    /\ level = "unset" /\ deployed = "unset" /\ dsn = NoPool /\ pool = NoPool

(* No path, or a file that is read and parsed. *)
LoadFile ==
    /\ at = "file"
    /\ \E file \in Layers :
          /\ given' = [given EXCEPT !.file = file]
          /\ k' = Merge(file, k)
    /\ at' = "env"
    /\ UNCHANGED <<cfg, level, deployed, dsn, pool>>

(* The file is not there or not YAML. *)
FileFails ==
    /\ at = "file"
    /\ at' = "failed"
    /\ UNCHANGED <<given, k, cfg, level, deployed, dsn, pool>>

LoadEnv ==
    /\ at = "env"
    /\ \E env \in Layers :
          /\ given' = [given EXCEPT !.env = env]
          /\ k' = Merge(env, k)
    /\ at' = "flags"
    /\ UNCHANGED <<cfg, level, deployed, dsn, pool>>

(* The layer of the command line. *)
LogLevel(text) == [key \in {"obs.log_level"} |-> text]

(* Mutant: a flag nobody gave overrides with its default. *)
Override_MutAlways(flag, m) == Merge(LogLevel(flag.text), m)

(* posflag: a flag nobody gave only fills in a path that does not exist. *)
Override(flag, m) ==
    IF flag.changed \/ "obs.log_level" \notin DOMAIN m
    THEN Merge(LogLevel(flag.text), m)
    ELSE m

LoadFlags ==
    /\ at = "flags"
    /\ \E flag \in Flags :
          /\ given' = [given EXCEPT !.flag = flag]
          /\ k' = Override(flag, k)
    /\ at' = "materialize"
    /\ UNCHANGED <<cfg, level, deployed, dsn, pool>>

InRange(n, least) == least <= n /\ n <= MaxInt32

(* Mutant: no upper bounds. *)
Accepted_MutNoUpper == IntOf(k, "db.max_conns") >= 1 /\ IntOf(k, "db.min_conns") >= 0
Accepted == InRange(IntOf(k, "db.max_conns"), 1) /\ InRange(IntOf(k, "db.min_conns"), 0)

Materialize ==
    /\ at = "materialize"
    /\ Accepted
    /\ cfg' = [env |-> StringOf(k, "env"),
               shutdown |-> DurationOf(k, "http.shutdown_timeout"),
               max |-> int32(IntOf(k, "db.max_conns")),
               min |-> int32(IntOf(k, "db.min_conns")),
               lifetime |-> DurationOf(k, "db.max_conn_lifetime"),
               log |-> StringOf(k, "obs.log_level")]
    /\ at' = "logger"
    /\ UNCHANGED <<given, k, level, deployed, dsn, pool>>

OutOfRange ==
    /\ at = "materialize"
    /\ ~Accepted
    /\ at' = "failed"
    /\ UNCHANGED <<given, k, cfg, level, deployed, dsn, pool>>

(* Mutant: a case is left out. *)
parseLevel_MutNoWarn(s) == IF s \in {"debug", "error"} THEN s ELSE "info"

parseLevel(s) == IF s \in {"debug", "warn", "error"} THEN s ELSE "info"

(* obs.Init makes NewLogger's logger the default one. *)
NewLogger ==
    /\ at = "logger"
    /\ level' = parseLevel(cfg.log)
    /\ at' = "resource"
    /\ UNCHANGED <<given, k, cfg, deployed, dsn, pool>>

newResource(env) == IF env \in DOMAIN Label THEN Label[env] ELSE "error"

(* The two providers of obs.Init label what they export.                   *)
NewProviders ==
    /\ at = "resource" /\ newResource(cfg.env) # "error"
    /\ deployed' = newResource(cfg.env)
    /\ at' = "pool"
    /\ UNCHANGED <<given, k, cfg, level, dsn, pool>>

(* The environment is unknown, or an exporter cannot be made. *)
ProvidersFail ==
    /\ at = "resource"
    /\ at' = "failed"
    /\ UNCHANGED <<given, k, cfg, level, deployed, dsn, pool>>

OverDsn(c, parsed) ==
    [max |-> IF c.max > 0 THEN c.max ELSE parsed.max,
     min |-> IF c.min > 0 THEN c.min ELSE parsed.min,
     lifetime |-> IF c.lifetime > 0 THEN c.lifetime ELSE parsed.lifetime]

NewPool ==
    /\ at = "pool"
    /\ dsn' \in Dsn
    /\ pool' = OverDsn(cfg, dsn')
    /\ at' = "open"
    /\ UNCHANGED <<given, k, cfg, level, deployed>>

(* pgxpool.ParseConfig rejects the DSN. *)
PoolFails ==
    /\ at = "pool"
    /\ at' = "failed"
    /\ UNCHANGED <<given, k, cfg, level, deployed, dsn, pool>>

Next == \/ LoadFile \/ FileFails \/ LoadEnv \/ LoadFlags \/ Materialize \/ OutOfRange
        \/ NewLogger \/ NewProviders \/ ProvidersFail \/ NewPool \/ PoolFails

Spec == Init /\ [][Next]_cvars

-----------------------------------------------------------------------------

Max(S) == CHOOSE x \in S : \A y \in S : y <= x

Layered == <<Defaults, given.file, given.env,
             IF given.flag.changed THEN LogLevel(given.flag.text) ELSE Nothing>>

(* The highest layer that says anything of the key, were it only by a bare *)
(* section.                                                                *)
Highest(key) ==
    Layered[Max({i \in DOMAIN Layered :
                   key \in DOMAIN Layered[i] \/ Section[key] \in DOMAIN Layered[i]})]

(* Defaults, file, environment, flags, in ascending order of precedence    *)
(* (config.go:49-50): the text in force is the one of the highest layer    *)
(* that speaks of the setting, and a layer takes nothing away that it does *)
(* not speak of.  A log level that is nowhere is the flag's default.       *)
Precedence ==
    at \in {"materialize", "logger", "resource", "pool", "open"} =>
        \A key \in Keys :
            LET top == Highest(key) IN
            IF key \in DOMAIN top
            THEN key \in DOMAIN k /\ k[key] = top[key]
            ELSE key \in DOMAIN k => key = "obs.log_level" /\ k[key] = DefaultFlag

(* An open pool is as the highest layer that speaks of each setting asks:  *)
(* its limits are numbers someone wrote, never those numbers cut to 32     *)
(* bits, and the maximum is never zero nor the DSN's.  A minimum that is   *)
(* not given, and a life-time that is missing, garbled or not positive, is *)
(* the DSN's, so that connections expire the moment they are made only if  *)
(* the DSN itself says so (config.go:127-135, pool.go:19-34).              *)
PoolAsAsked ==
    at = "open" =>
        LET max == IntOf(Highest("db.max_conns"), "db.max_conns")
            min == IntOf(Highest("db.min_conns"), "db.min_conns")
            lifetime == DurationOf(Highest("db.max_conn_lifetime"), "db.max_conn_lifetime")
        IN /\ pool.max = max /\ max > 0
           /\ pool.min = IF min = 0 THEN dsn.min ELSE min
           /\ pool.lifetime = IF lifetime > 0 THEN lifetime ELSE dsn.lifetime

(* The server logs at the level the highest layer names, through file,     *)
(* environment and flag, a name that is none being info (log.go:66-77);    *)
(* and what it exports is labelled with the environment that the highest   *)
(* layer names, or the process does not get as far as the pool             *)
(* (resource.go:23-25).                                                    *)
ObsAsAsked ==
    /\ at \in {"resource", "pool", "open"} =>
          LET top == Highest("obs.log_level") IN
          level = IF /\ "obs.log_level" \in DOMAIN top
                     /\ top["obs.log_level"].word \in LevelNames
                  THEN top["obs.log_level"].word ELSE "info"
    /\ at \in {"pool", "open"} =>
          LET env == Highest("env")["env"].word IN
          env \in DOMAIN Label /\ deployed = Label[env]
=============================================================================
