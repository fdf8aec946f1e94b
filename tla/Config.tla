-------------------------------- MODULE Config --------------------------------
(***************************************************************************)
(* The configuration of a plugin (linux/libpipelight/configloader.c) and   *)
(* how it reaches pluginloader.exe: loadConfig reads a file and the        *)
(* environment, startWineProcess (basicplugin.c) turns the result into a   *)
(* command line, and main (windows/pluginloader/pluginloader.c) reads it.  *)
(*                                                                         *)
(* A file is a sequence of lines.  A line is a record with a kind; what an *)
(* assignment gives is a sequence of pieces, literal text or a variable.   *)
(* Keys are in lower case, as loadConfig compares them.                    *)
(***************************************************************************)
EXTENDS Integers, Sequences, SequencesExt, FiniteSetsExt

Text(t) == [var |-> FALSE, is |-> t]
Var(n)  == [var |-> TRUE, is |-> n]

BeginLine         == [kind |-> "begin"]
EndLine           == [kind |-> "end"]
\* A line without '#' in front, or with a second one: nothing is read from it.
IgnoredLine       == [kind |-> "ignored"]
Define(name, v)   == [kind |-> "define", key |-> name, value |-> v]
Assign(key, v)    == [kind |-> "assign", key |-> key, value |-> v]
\* key = arg=v, for the keys that collect pairs; arg is "" where the second
\* '=' is missing.
Pair(key, arg, v) == [kind |-> "pair", key |-> key, arg |-> arg, value |-> v]

Piece == [var : BOOLEAN, is : STRING]
Line ==
    [kind : {"begin", "end", "ignored"}]
    \cup [kind : {"define", "assign"}, key : STRING, value : Seq(Piece)]
    \cup [kind : {"pair"}, key : STRING, arg : STRING, value : Seq(Piece)]

\* struct PluginConfig, by the names of the keys.  The fake MIME types, a
\* vector, are pairs as well: a type and what it stands for.
TextKeys == {"winepath", "winearch", "wineprefix", "winedlloverrides", "dllpath", "dllname",
             "regkey", "pluginloaderpath", "gccruntimedlls", "fakeversion", "executejavascript"}
SwitchKeys == {"embed", "windowlessmode", "linuxwindowlessmode", "eventasynccall", "operadetection",
               "experimental-forcesetwindow", "experimental-windowclasshook",
               "experimental-strictdrawordering"}
PairKeys == {"overwritearg", "windowlessoverwritearg", "replacejavascript", "fakemimetype"}
CheckKeys == {"silverlightgraphicdrivercheck", "graphicdrivercheck"}

NoPairs == [a \in {} |-> ""]

\* pairs[a] = value, for a map.
Put(pairs, a, value) == [x \in DOMAIN pairs \cup {a} |-> IF x = a THEN value ELSE pairs[x]]

\* The defaults of loadConfig.
DefaultOf(key) ==
    IF key \in PairKeys THEN NoPairs
    ELSE IF key \in SwitchKeys \cup CheckKeys THEN key \in {"embed", "operadetection"}
    ELSE IF key = "winepath" THEN "wine" ELSE IF key = "winearch" THEN "win32"
    ELSE IF key = "winedlloverrides" THEN "mscoree" ELSE ""

DefaultConfig ==
    [key \in TextKeys \cup SwitchKeys \cup PairKeys \cup {"silverlightgraphicdrivercheck"} |-> DefaultOf(key)]

-----------------------------------------------------------------------------
\* replaceVariables: an unknown variable is a failed assertion.
KnownVariables(vars, v) == \A n \in DOMAIN v : v[n].var => v[n].is \in DOMAIN vars

ReplaceVariables(vars, v) ==
    FoldLeft(LAMBDA out, p : out \o (IF p.var THEN vars[p.is] ELSE p.is), "", v)

\* value.find_first_of(letters) != npos: any of the letters will do.
HasOneOf(value, letters) ==
    \E i \in 1 .. Len(value), j \in 1 .. Len(letters) : SubSeq(value, i, i) = SubSeq(letters, j, j)

On(value) == value \in {"true", "yes"}

TurnsCheckOn(value) == On(value) \/ HasOneOf(value, "true") \/ HasOneOf(value, "hw-accel-default")

WithPair(pairs, arg, value) == IF arg = "" THEN pairs ELSE Put(pairs, arg, value)

\* What one key does to the configuration.
Setting(config, line, value, isFile) ==
    LET key == line.key
    IN  IF key = "winepath"
        THEN [config EXCEPT ![key] = IF value \in isFile THEN value ELSE value \o "/bin/wine"]
        ELSE IF key = "executejavascript" THEN [config EXCEPT ![key] = @ \o value \o "\n"]
        ELSE IF key \in TextKeys THEN [config EXCEPT ![key] = value]
        ELSE IF key \in SwitchKeys THEN [config EXCEPT ![key] = On(value)]
        ELSE IF key \in CheckKeys
        THEN [config EXCEPT !["silverlightgraphicdrivercheck"] = TurnsCheckOn(value)]
        ELSE IF key \in PairKeys
        THEN [config EXCEPT ![key] = WithPair(@, line.arg, value)]
        ELSE config

\* One turn of the loop over the lines.
ReadLine(s, line, isFile) ==
    IF s.aborted \/ line.kind = "ignored" THEN s
    ELSE IF line.kind \in {"begin", "end"} THEN [s EXCEPT !.section = line.kind = "begin"]
    ELSE IF ~s.section THEN s
    ELSE IF ~KnownVariables(s.vars, line.value) THEN [s EXCEPT !.aborted = TRUE]
    ELSE LET value == ReplaceVariables(s.vars, line.value)
         IN  IF line.kind = "define" THEN [s EXCEPT !.vars = Put(@, line.key, value)]
             ELSE [s EXCEPT !.config = Setting(@, line, value, isFile)]

\* The loop.
ReadLines(first, lines, isFile) ==
    LET state[n \in 0 .. Len(lines)] ==
            IF n = 0 THEN first ELSE ReadLine(state[n - 1], lines[n], isFile)
    IN  state[Len(lines)]

\* openConfig: the first of the five places that has a readable file.  places
\* is the sequence of files, <<>> where there is none.
OpenConfig(places) ==
    LET found == {n \in DOMAIN places : places[n] # <<>>}
    IN  IF found = {} THEN <<>> ELSE places[Min(found)]

-----------------------------------------------------------------------------
(***************************************************************************)
(* env is the environment: home (whether there is a home directory), and   *)
(* embed, windowless and gpu, the numbers in PIPELIGHT_EMBED,              *)
(* PIPELIGHT_WINDOWLESSMODE and PIPELIGHT_GPUACCELERATION, -1 where a      *)
(* variable is not set, and wine, the text of PIPELIGHT_WINE.              *)
(***************************************************************************)
\* config.linuxWindowlessMode implies windowlessMode.
Implied(config) ==
    [config EXCEPT !["windowlessmode"] = @ \/ config["linuxwindowlessmode"]]

HasNecessaryKeys(config) ==
    /\ config["winepath"] # "" /\ config["pluginloaderpath"] # "" /\ config["wineprefix"] # ""
    /\ (config["dllpath"] # "" /\ config["dllname"] # "") \/ config["regkey"] # ""

\* Mutant of EnvironmentModes: the second switch is forgotten.
EnvironmentModesForgetful(config, env) ==
    [config EXCEPT !["embed"] = IF env.embed >= 0 THEN env.embed >= 1 ELSE @,
                   !["windowlessmode"] = IF env.windowless >= 0 THEN env.windowless >= 1 ELSE @,
                   !["winepath"] = IF env.wine # "" THEN env.wine ELSE @]

EnvironmentModes(config, env) ==
    [config EXCEPT !["embed"] = IF env.embed >= 0 THEN env.embed >= 1 ELSE @,
                   !["windowlessmode"] = IF env.windowless >= 0 THEN env.windowless >= 1 ELSE @,
                   !["linuxwindowlessmode"] = IF env.windowless >= 0 THEN env.windowless >= 2 ELSE @,
                   !["winepath"] = IF env.wine # "" THEN env.wine ELSE @]

Acceleration == "enableGPUAcceleration"

\* Only where the check is on: the environment, or else an argument in the
\* file, decides and the driver is not asked.
EnvironmentGpu(config, env) ==
    IF ~config["silverlightgraphicdrivercheck"] THEN config
    ELSE IF env.gpu >= 0
    THEN [config EXCEPT
             !["overwritearg"] = WithPair(@, Acceleration, IF env.gpu >= 1 THEN "true" ELSE "false"),
             !["experimental-strictdrawordering"] = env.gpu >= 2,
             !["silverlightgraphicdrivercheck"] = FALSE]
    ELSE [config EXCEPT !["silverlightgraphicdrivercheck"] = Acceleration \notin DOMAIN config["overwritearg"]]

\* The variables loadConfig starts with.
InitialVariables(env) ==
    [v \in {"wineuser", "share"} \cup (IF env.home THEN {"home"} ELSE {}) |-> "/" \o v]

\* loadConfig: the configuration, or why there is none.
LoadConfig(places, env, isFile) ==
    LET file == OpenConfig(places)
        read == ReadLines([section |-> FALSE, aborted |-> FALSE, vars |-> InitialVariables(env),
                           config |-> DefaultConfig], file, isFile)
        config == Implied(read.config)
    IN  IF file = <<>> THEN [result |-> "missing"]
        ELSE IF read.aborted THEN [result |-> "aborted"]
        ELSE IF ~HasNecessaryKeys(config) THEN [result |-> "incomplete"]
        ELSE [result |-> "loaded", config |-> EnvironmentGpu(EnvironmentModes(config, env), env)]

-----------------------------------------------------------------------------
(***************************************************************************)
(* The command line.                                                       *)
(***************************************************************************)
Flags == {"--embed", "--windowless", "--linuxwindowless", "--forcesetwindow", "--windowclasshook",
          "--strictdrawordering"}
KeyOfFlag(flag) ==
    CASE flag = "--embed"              -> "embed"
      [] flag = "--windowless"         -> "windowlessmode"
      [] flag = "--linuxwindowless"    -> "linuxwindowlessmode"
      [] flag = "--forcesetwindow"     -> "experimental-forcesetwindow"
      [] flag = "--windowclasshook"    -> "experimental-windowclasshook"
      [] flag = "--strictdrawordering" -> "experimental-strictdrawordering"

Option(name, value) == IF value # "" THEN <<name, value>> ELSE <<>>

\* startWineProcess, after the path of wine and of pluginloader.exe.
CommandLine(pluginName, config) ==
    <<"--pluginname", pluginName>>
    \o Option("--dllpath", config["dllpath"]) \o Option("--dllname", config["dllname"])
    \o Option("--regkey", config["regkey"])
    \o SetToSeq({flag \in Flags : config[KeyOfFlag(flag)]})

\* The loop over argv in main: an option takes the argument that follows it.
ReadArgument(s, arg) ==
    IF s.option # "" THEN [s EXCEPT !.option = "", !.values = Put(@, s.option, arg)]
    ELSE IF arg \in {"--pluginname", "--dllpath", "--dllname", "--regkey"} THEN [s EXCEPT !.option = arg]
    ELSE [s EXCEPT !.flags = @ \cup ({arg} \cap Flags)]

ReadFrom(first, argv) ==
    LET state[n \in 0 .. Len(argv)] == IF n = 0 THEN first ELSE ReadArgument(state[n - 1], argv[n])
    IN  state[Len(argv)]

ReadArguments(argv) == ReadFrom([option |-> "", values |-> NoPairs, flags |-> {}], argv)

ValueOf(args, option) == IF option \in DOMAIN args.values THEN args.values[option] ELSE ""

\* main: both names from the command line, or both from the registry, which
\* maps a key to <<directory, file>>, or to <<>> where it has nothing usable.
PluginFile(args, registry) ==
    LET path == ValueOf(args, "--dllpath")
        name == ValueOf(args, "--dllname")
        key  == ValueOf(args, "--regkey")
    IN  IF path # "" /\ name # "" THEN [result |-> "found", file |-> <<path, name>>]
        ELSE IF key = "" THEN [result |-> "incomplete"]
        ELSE IF key \notin DOMAIN registry \/ registry[key] = <<>> THEN [result |-> "unregistered"]
        ELSE [result |-> "found", file |-> registry[key]]
=============================================================================
