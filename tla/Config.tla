------------------------------- MODULE Config -------------------------------
(***************************************************************************)
(* moduvex-config: ConfigLoader::load, load_with_profile, from_defaults and *)
(* load_with_defaults, which merge embedded defaults, {name}.toml,          *)
(* {name}-{profile}.toml and the MODUVEX__* variables, and scope(), which   *)
(* reads a section as a typed struct.  A TOML value is [t, v]: a table with *)
(* a function from keys to values, or a scalar with its kind.  The          *)
(* environment is a set of variables: env::vars() yields them in any order. *)
(***************************************************************************)
EXTENDS Naturals, Sequences, FiniteSets, Functions

CONSTANTS Trees,     \* the TOML documents a layer may hold
          Dirs,      \* the directories to read: "base", "dev" and "prod", each a file
          EnvSets,   \* the sets of environment variables to start from
          Profiles   \* the values MODUVEX_PROFILE may have; "" when it is unset

VARIABLES
    cfDefaults,  \* the embedded defaults
    cfDir,       \* the files of the directory: "base", "dev" and "prod"
    cfEnv,       \* the environment
    cfProfile,   \* MODUVEX_PROFILE
    cfCall,      \* the constructor that runs
    cfTodo,      \* variables merge_env_overrides has yet to visit
    cfRoot,      \* ConfigLoader.root, as built so far
    cfActive,    \* ConfigLoader.profile
    cfRead       \* what scope() last returned

cfVars == <<cfDefaults, cfDir, cfEnv, cfProfile, cfCall, cfTodo, cfRoot, cfActive, cfRead>>

Missing   == [t |-> "missing", v |-> "no such file"]
Malformed == [t |-> "malformed", v |-> "not TOML"]
Table(f)  == [t |-> "table", v |-> f]
NoTable   == Table(<<>>)
IsTable(x) == x.t = "table"
Set(x, k, y) == Table([j \in DOMAIN x.v \cup {k} |-> IF j = k THEN y ELSE x.v[j]])

\* str::to_lowercase, on the names the environment uses
to_lowercase(s) ==
    CASE s = "DB" -> "db" [] s = "LOG" -> "log" [] s = "A" -> "a" [] s = "B" -> "b"
      [] s = "TRUE" -> "true" [] s = "PROD" -> "prod" [] OTHER -> s

\* Profile::parse
parse(s) ==
    LET low == to_lowercase(s)
    IN  CASE low \in {"dev", "development"} -> "dev"
          [] low \in {"staging", "stage"}   -> "staging"
          [] low \in {"prod", "production"} -> "prod"
          [] OTHER                          -> low

\* Profile::from_env
from_env == IF cfProfile = "" THEN "dev" ELSE parse(cfProfile)

\* parse_env_value.  f64's parser takes "inf" too; a number beyond i64 is a float.
parse_env_value(s) ==
    LET low == to_lowercase(s)
    IN  CASE low \in {"true", "false"} -> [t |-> "bool", v |-> low]
          [] s = "7"                   -> [t |-> "int", v |-> s]
          [] s \in {"1.5", "inf"}      -> [t |-> "float", v |-> s]
          [] OTHER                     -> [t |-> "string", v |-> s]

\* variant: the base wins on a conflict below the top level
RECURSIVE deep_merge_KeepsBase(_, _)
deep_merge_KeepsBase(base, overlay) ==
    IF ~(IsTable(base) /\ IsTable(overlay)) THEN overlay
    ELSE Table([k \in DOMAIN base.v \cup DOMAIN overlay.v |->
                  IF k \notin DOMAIN overlay.v THEN base.v[k]
                  ELSE IF k \notin DOMAIN base.v THEN overlay.v[k]
                  ELSE deep_merge_KeepsBase(overlay.v[k], base.v[k])])

\* deep_merge: tables key by key, anything else is replaced by the overlay
RECURSIVE deep_merge(_, _)
deep_merge(base, overlay) ==
    IF ~(IsTable(base) /\ IsTable(overlay)) THEN overlay
    ELSE Table([k \in DOMAIN base.v \cup DOMAIN overlay.v |->
                  IF k \notin DOMAIN overlay.v THEN base.v[k]
                  ELSE IF k \notin DOMAIN base.v THEN overlay.v[k]
                  ELSE deep_merge(base.v[k], overlay.v[k])])

\* read_toml_file: FileRead or Parse is the error
read_toml_file(file) == IF IsTable(file) THEN file ELSE [t |-> "error", v |-> file.t]

\* load_toml: the base is required; the overlay is merged when its path exists
load_toml(profile) ==
    LET base    == read_toml_file(cfDir["base"])
        path    == IF profile \in DOMAIN cfDir THEN cfDir[profile] ELSE Missing
        overlay == read_toml_file(path)
    IN  IF base.t = "error" \/ path = Missing THEN base
        ELSE IF overlay.t = "error" THEN overlay ELSE deep_merge(base, overlay)

----------------------------------------------------------------------------

\* the caller has its documents and its environment; no loader exists yet
CfInit ==
    /\ cfDefaults \in Trees
    /\ cfDir \in Dirs
    /\ cfEnv \in EnvSets
    /\ cfProfile \in Profiles
    /\ cfCall = "none" /\ cfTodo = {} /\ cfRoot = NoTable /\ cfActive = ""
    /\ cfRead = [ok |-> FALSE, section |-> "", value |-> NoTable]

\* a constructor has the tree of its files: an error ends it, else the variables follow
Built(call, profile, tree) ==
    /\ cfCall = "none" /\ cfActive' = profile
    /\ cfRoot' = tree
    /\ IF tree.t = "error" THEN cfCall' = "failed" /\ cfTodo' = {}
       ELSE cfCall' = call /\ cfTodo' = cfEnv
    /\ UNCHANGED <<cfDefaults, cfDir, cfEnv, cfProfile, cfRead>>

\* ConfigLoader::load_with_profile
load_with_profile(profile) == Built("load", profile, load_toml(profile))

\* ConfigLoader::load
load == load_with_profile(from_env)

\* ConfigLoader::from_defaults
from_defaults == Built("from_defaults", from_env, cfDefaults)

\* ConfigLoader::load_with_defaults: any error of the files leaves the defaults alone
load_with_defaults ==
    LET file == load_toml(from_env)
    IN  Built("load_with_defaults", from_env,
              IF file.t = "error" THEN cfDefaults ELSE deep_merge(cfDefaults, file))

\* merge_env_overrides: one variable.  A section that is not a table is left as it is.
merge_env_override ==
    \E var \in cfTodo :
        LET section == to_lowercase(var.section)
            tbl     == IF section \in DOMAIN cfRoot.v THEN cfRoot.v[section] ELSE NoTable
        IN  /\ cfTodo' = cfTodo \ {var}
            /\ cfRoot' = IF ~var.prefixed \/ var.field = "" \/ ~IsTable(tbl) THEN cfRoot
                         ELSE Set(cfRoot, section,
                                  Set(tbl, to_lowercase(var.field), parse_env_value(var.val)))
            /\ UNCHANGED <<cfDefaults, cfDir, cfEnv, cfProfile, cfCall, cfActive, cfRead>>

\* extract_section into a struct with one integer field a
extract_section(root, section) ==
    LET found == section \in DOMAIN root.v
        val   == root.v[section]
        typed == IsTable(val) /\ "a" \in DOMAIN val.v /\ val.v["a"].t = "int"
    IN  [ok |-> found /\ typed, section |-> section,
         value |-> IF found /\ typed THEN val.v["a"] ELSE NoTable]

\* ConfigLoader::scope
scope ==
    /\ cfCall \notin {"none", "failed"} /\ cfTodo = {} /\ cfRead.section = ""
    /\ \E s \in {"db", "log"} : cfRead' = extract_section(cfRoot, s)
    /\ UNCHANGED <<cfDefaults, cfDir, cfEnv, cfProfile, cfCall, cfTodo, cfRoot, cfActive>>

CfNext ==
    \/ load \/ load_with_profile("prod") \/ from_defaults \/ load_with_defaults
    \/ merge_env_override \/ scope

----------------------------------------------------------------------------

\* the documents that count for the constructor, lowest first
Layers ==
    LET overlay == IF cfActive \in DOMAIN cfDir /\ cfDir[cfActive] # Missing
                   THEN <<cfDir[cfActive]>> ELSE <<>>
        files   == <<cfDir["base"]>> \o overlay
    IN  CASE cfCall = "load"          -> files
          [] cfCall = "from_defaults" -> <<cfDefaults>>
          [] OTHER -> IF \A i \in DOMAIN files : IsTable(files[i])
                      THEN <<cfDefaults>> \o files ELSE <<cfDefaults>>

\* The values s.k may have.  The highest layer that mentions s decides whether it is a
\* table; then the highest table to give k counts, or a variable.  (The two files are
\* merged first, so defaults show through a base scalar that the overlay makes a table.)
Visible(s, k) ==
    LET says     == {i \in DOMAIN Layers : s \in DOMAIN Layers[i].v}
        top      == CHOOSE i \in says : \A j \in says : j <= i
        givers   == {i \in says : IsTable(Layers[i].v[s]) /\ k \in DOMAIN Layers[i].v[s].v}
        override == {parse_env_value(var.val) : var \in
                       {w \in cfEnv : w.prefixed /\ to_lowercase(w.section) = s
                                      /\ w.field # "" /\ to_lowercase(w.field) = k}}
    IN  IF says # {} /\ ~IsTable(Layers[top].v[s]) THEN {}
        ELSE IF override # {} THEN override
        ELSE {Layers[i].v[s].v[k] : i \in {j \in givers : \A l \in givers : l <= j}}

\* What scope() hands a module: the integer the highest-priority layer gives the field
\* (environment over profile file over base file over defaults), and an error exactly when
\* it gives none, or two variables that differ only in case disagree -- whatever mix of
\* files, tables, scalars and variables there is.
ScopedIsHighest ==
    cfRead.section # "" =>
        LET given == Visible(cfRead.section, "a")
        IN  IF cfRead.ok THEN cfRead.value \in given
            ELSE given = {} \/ \E x \in given : x.t # "int"
=============================================================================
