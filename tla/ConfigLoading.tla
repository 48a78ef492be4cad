---------------------------- MODULE ConfigLoading ----------------------------
(***************************************************************************)
(* The configuration of a process: the values that are built in, over them *)
(* those of the file, over them the environment's, and what is derived     *)
(* from the result.  It is read once and every part of the process holds   *)
(* the same object; the file can be edited and the environment changed for *)
(* the next process.  There is one key of each kind: one that two          *)
(* variables set, two that one variable sets, a number, a URL, headers     *)
(* whose parser throws, a secret, and switches only the file has.          *)
(* A value is where it comes from, whether it is set (a URL that is not    *)
(* empty, a switch that is on) and whether the schema allows it.  Of URLs  *)
(* that are derived from alike there is one: wsUrl also stands for the     *)
(* secondary RPC's, bundleUrl for the block engine's two.                  *)
(***************************************************************************)
EXTENDS Naturals, SequencesExt

CONSTANT MaxEdits   \* bound: changes of the file and of the environment

ASSUME ConfigConstants == MaxEdits \in Nat

\* In the order in which they are applied.
EnvMap == <<
    [key |-> "wsUrl", env |-> "SOLANA_WS_URL"],
    [key |-> "httpHeaders", env |-> "SOLANA_RPC_HTTP_HEADERS"],
    [key |-> "pythAccount", env |-> "PYTH_SOL_USD_PRICE_ACCOUNT"],
    [key |-> "sqlitePath", env |-> "SQLITE_DB_PATH"],
    [key |-> "sqlitePath", env |-> "PERSISTENCE_SQLITE_PATH"],
    [key |-> "killSwitchToken", env |-> "KILL_SWITCH_TOKEN"],
    [key |-> "bundleUrl", env |-> "JITO_BUNDLE_URL"],
    [key |-> "updaterAccount", env |-> "PYTH_SOL_USD_PRICE_ACCOUNT"],
    [key |-> "minFreeSol", env |-> "SIZING_MIN_FREE_SOL"]>>

EnvKey == {EnvMap[i].env : i \in DOMAIN EnvMap}
ConfigKey == {EnvMap[i].key : i \in DOMAIN EnvMap} \union {"features.jito", "execution.jito"}

VARIABLES
    configFile,     \* state ("there", "missing", "garbled") and its keys
    environment,    \* what the next process is started with
    env,            \* process.env
    located,        \* TRENCHES_CONFIG: "default" (unset), "custom", "empty"
    cachedConfig,   \* loaded, the values and the derived flags
    edits,
    fileRead,       \* history: the file that was read
    served          \* history: /config/safe has been asked for

configVars == <<configFile, environment, env, located, cachedConfig, edits, fileRead,
                served>>

BaseConfig == [k \in ConfigKey |->
    [from |-> "baked", set |-> k \in {"sqlitePath", "minFreeSol"}, valid |-> TRUE]]

Unloaded == [loaded |-> FALSE, values |-> BaseConfig,
             flags |-> [jitoEnabled |-> FALSE, wsEnabled |-> FALSE, simpleMode |-> TRUE]]

ConfigInit ==
    /\ configFile = [state |-> "there", keys |-> [k \in ConfigKey |-> "absent"]]
    /\ environment = [e \in EnvKey |-> "unset"]
    /\ env = environment
    /\ located \in {"default", "custom", "empty"}
    /\ cachedConfig = Unloaded
    /\ edits = 0 /\ fileRead = configFile /\ served = FALSE

-----------------------------------------------------------------------------
(* Outside the process *)

Changes ==
    /\ edits < MaxEdits /\ edits' = edits + 1
    /\ UNCHANGED <<env, located, cachedConfig, fileRead, served>>

EditFile(k, v) ==
    /\ configFile' = [configFile EXCEPT !.keys[k] = v]
    /\ Changes /\ UNCHANGED environment

BreakFile(s) ==
    /\ configFile' = [configFile EXCEPT !.state = s]
    /\ Changes /\ UNCHANGED environment

Export(e, v) ==
    /\ environment' = [environment EXCEPT ![e] = v]
    /\ Changes /\ UNCHANGED configFile

StartProcess ==
    /\ env' = environment
    /\ cachedConfig' = Unloaded /\ served' = FALSE
    /\ UNCHANGED <<configFile, environment, located, edits, fileRead>>

-----------------------------------------------------------------------------
(* loadConfig *)

\* loadFileConfig: an empty path is a path, of no file.
FileThrows ==
    CASE located = "empty" -> TRUE
      [] located = "custom" -> configFile.state # "there"
      [] located = "default" -> configFile.state = "garbled"

FileConfig ==
    IF configFile.state = "there" THEN configFile.keys ELSE [k \in ConfigKey |-> "absent"]

Merged(keys) == [k \in ConfigKey |->
    IF keys[k] = "absent" THEN BaseConfig[k]
    ELSE [from |-> "file", set |-> keys[k] # "no", valid |-> TRUE]]

SchemaThrows(keys) == \E k \in ConfigKey : keys[k] = "wrong"

CastThrows == env["SOLANA_RPC_HTTP_HEADERS"] = "garbled"

Cast(e) == [from |-> e, set |-> TRUE, valid |-> env[e] = "yes"]

\* Bug: a variable that is there but empty overrides too, as those of env.example.
ApplyEnv_EmptyToo(config) ==
    FoldLeft(LAMBDA c, m : IF env[m.env] = "unset" THEN c
                           ELSE [c EXCEPT ![m.key] = Cast(m.env)],
             config, EnvMap)

\* What the schema allowed is not looked at again.
ApplyEnv(config) ==
    FoldLeft(LAMBDA c, m : IF env[m.env] \in {"unset", "empty"} THEN c
                           ELSE [c EXCEPT ![m.key] = Cast(m.env)],
             config, EnvMap)

Flags(c) ==
    LET jito == c["features.jito"].set /\ c["execution.jito"].set /\ c["bundleUrl"].set
    IN  [jitoEnabled |-> jito, wsEnabled |-> c["wsUrl"].set,
         simpleMode |-> ~(jito \/ c["wsUrl"].set)]

LoadConfig ==
    /\ ~cachedConfig.loaded
    /\ ~FileThrows /\ ~SchemaThrows(FileConfig) /\ ~CastThrows
    /\ LET c == ApplyEnv(Merged(FileConfig))
       IN  cachedConfig' = [loaded |-> TRUE, values |-> c, flags |-> Flags(c)]
    /\ fileRead' = configFile
    /\ UNCHANGED <<configFile, environment, env, located, edits, served>>

\* agent-core's GET /config/safe deletes the token from the object all of it holds.
ServeSafeConfig ==
    /\ cachedConfig.loaded
    /\ served' = TRUE
    /\ cachedConfig' = [cachedConfig EXCEPT !.values["killSwitchToken"].set = FALSE]
    /\ UNCHANGED <<configFile, environment, env, located, edits, fileRead>>

ConfigNext ==
    \/ \E k \in ConfigKey, v \in {"yes", "no", "wrong"} : EditFile(k, v)
    \/ \E s \in {"there", "missing", "garbled"} : BreakFile(s)
    \/ \E e \in EnvKey, v \in {"yes", "empty", "garbled"} : Export(e, v)
    \/ StartProcess \/ LoadConfig \/ ServeSafeConfig

ConfigSpec == ConfigInit /\ [][ConfigNext]_configVars

-----------------------------------------------------------------------------
(* Property *)

IsGiven(e) == env[e] \in {"yes", "garbled"}
SetsKey(k) == {i \in DOMAIN EnvMap : EnvMap[i].key = k /\ IsGiven(EnvMap[i].env)}

Origin(k) ==
    CASE SetsKey(k) # {} -> EnvMap[CHOOSE i \in SetsKey(k) : \A j \in SetsKey(k) : j <= i].env
      [] SetsKey(k) = {} /\ fileRead.state = "there" /\ fileRead.keys[k] # "absent" -> "file"
      [] OTHER -> "baked"

\* As long as a process runs, the value it goes by is that of the last variable that
\* is not empty, else of the file it read, else the built-in one, and the derived
\* flags are those of these values; a value the schema refuses can only be the
\* environment's, and a file that was refused is not in effect.
ConfigInEffect ==
    cachedConfig.loaded =>
        /\ \A k \in ConfigKey :
            LET v == cachedConfig.values[k]
            IN  /\ v.from = Origin(k)
                /\ ~v.valid => IsGiven(v.from)
                /\ v.from = "file" /\ fileRead.keys[k] # (IF v.set THEN "yes" ELSE "no") =>
                        k = "killSwitchToken" /\ served
        /\ cachedConfig.flags = Flags(cachedConfig.values)
        /\ located # "empty"
=============================================================================
