-------------------------------- MODULE Attach --------------------------------
(***************************************************************************)
(* attach (linux/libpipelight/basicplugin.c): what happens when a browser  *)
(* loads the library.  Several browser processes do it, at any time: each  *)
(* loads its configuration, starts a pluginloader.exe, and shows the       *)
(* browser the texts of the plugin, or those a former process left in the  *)
(* file of PluginInfo.  A process may be killed at every step.             *)
(***************************************************************************)
EXTENDS Config, PluginInfo

CONSTANTS
    Process,
    Places,      \* the sets of configuration files there may be
    Environment, \* the environments a process may be started in
    Files,       \* paths that are regular files
    Registry,    \* Software\MozillaPlugins, of the user or else of the machine
    MaxVersion,  \* bound: versions of the plugin that get installed
    MaxStarts    \* bound: browser processes started in all

ASSUME BoundsAssumption == MaxVersion \in Nat \ {0} /\ MaxStarts \in Nat
\* The texts of every version are among Texts, so the buffers hold them.
ASSUME VersionAssumption ==
    \A v \in 1 .. MaxVersion : {<<v>>, <<v, 8, 8>>, <<7>>, <<9>>} \subseteq Texts
ASSUME PlacesAssumption == Places \subseteq Seq(Seq(Line))
ASSUME EnvironmentAssumption ==
    Environment \subseteq [home : BOOLEAN, embed : Int, windowless : Int, gpu : Int, wine : STRING]

VARIABLES
    proc,       \* proc[p]: the state of process p
    cache,      \* the bytes of plugininfo-..., or NoFile
    machine,    \* places: configuration files; version: of the plugin; driver:
                \* what the graphics driver is: "listed", "strict" or "other"
    history     \* starts: processes started; known: what any of them has saved;
                \* interrupted: a save has been cut off and none completed since

vars == <<proc, cache, machine, history>>

Gone == [pc |-> "gone"]

\* The four texts are empty until attach sets them.
NoInfo == [mime |-> <<>>, name |-> <<>>, description |-> <<>>, version |-> <<>>]

\* What is shown when nothing is known: the name of the plugin, and an error.
ErrorInfo == [mime |-> <<0>>, name |-> <<0>>, description |-> <<0>>, version |-> <<0>>]

\* The answer to FUNCTION_GET_PLUGIN_INFO as attach stores it: a fake version
\* replaces two texts, fake MIME types are appended to the first.
InfoOf(version, config) ==
    LET shown == IF config["fakeversion"] # "" THEN <<9>> ELSE <<version>>
    IN  [mime        |-> <<version>> \o (IF DOMAIN config["fakemimetype"] = {} THEN <<>> ELSE <<8, 8>>),
         name        |-> <<7>>,
         description |-> shown,
         version     |-> shown]

Init ==
    /\ proc = [p \in Process |-> Gone]
    /\ cache = NoFile
    /\ machine \in [places : Places, version : {1}, driver : {"listed", "strict", "other"}]
    /\ history = [starts |-> 0, known |-> {}, interrupted |-> FALSE]

At(p, pc) == proc[p].pc = pc

\* Fields are added to a record, or replaced in it.
Extended(record, fields) ==
    [x \in DOMAIN record \cup DOMAIN fields |-> IF x \in DOMAIN fields THEN fields[x] ELSE record[x]]

Goto(p, pc) == proc' = [proc EXCEPT ![p].pc = pc]

Saving(p) == At(p, "save")

-----------------------------------------------------------------------------
\* Bound: MaxStarts.
Start(p) ==
    /\ At(p, "gone")
    /\ history.starts < MaxStarts
    /\ \E env \in Environment : proc' = [proc EXCEPT ![p] = [pc |-> "load", env |-> env]]
    /\ history' = [history EXCEPT !.starts = @ + 1]
    /\ UNCHANGED <<cache, machine>>

\* loadConfig.  Without a configuration attach returns and shows no texts; the
\* failed assertion in replaceVariables ends the process.
Load(p) ==
    /\ At(p, "load")
    /\ LET loaded == LoadConfig(machine.places, proc[p].env, Files)
       IN  proc' = [proc EXCEPT ![p] =
              IF loaded.result = "loaded"
              THEN [pc |-> "fork", env |-> @.env, config |-> loaded.config]
              ELSE IF loaded.result = "aborted" THEN Gone
              ELSE [pc |-> "done", env |-> @.env, info |-> NoInfo, initOkay |-> FALSE]]
    /\ UNCHANGED <<cache, machine, history>>

Loader(argv, config) ==
    LET args == ReadArguments(argv)
    IN  [args |-> args, strict |-> "--strictdrawordering" \in args.flags,
         file |-> PluginFile(args, Registry)]

\* startWineProcess: pipes or fork fail, or there is a new process.
StartWine(p) ==
    /\ At(p, "fork")
    /\ LET config == proc[p].config
       IN  \/ proc' = [proc EXCEPT ![p] = [pc |-> "done", env |-> @.env, info |-> NoInfo,
                                           initOkay |-> FALSE]]
           \/ proc' = [proc EXCEPT ![p] = [pc |-> "init", env |-> @.env, config |-> config,
                                           loader |-> Loader(CommandLine("p", config), config)]]
    /\ UNCHANGED <<cache, machine, history>>

\* pluginInitOkay succeeds only if main has found the plugin's file, and
\* initDLL has loaded it, and the texts in it, in the version there is.
InitOkay(p) ==
    /\ At(p, "init")
    /\ proc[p].loader.file.result = "found"
    /\ proc' = [proc EXCEPT ![p].pc = "driver",
                            ![p].loader = Extended(@, [version |-> machine.version])]
    /\ UNCHANGED <<cache, machine, history>>

\* wine is missing, initDLL fails, the version differs, or 60 s have passed.
InitFails(p) ==
    /\ At(p, "init")
    /\ Goto(p, "cached")
    /\ UNCHANGED <<cache, machine, history>>

\* Mutant of CheckDriver: the result is taken for the opposite.
CheckDriverInverted(p) ==
    /\ At(p, "driver")
    /\ proc' = [proc EXCEPT ![p].pc = "info",
                            ![p].config["overwritearg"] =
                                IF machine.driver = "other" THEN @ ELSE WithPair(@, Acceleration, "false")]
    /\ UNCHANGED <<cache, machine, history>>

\* SILVERLIGHT_IS_GRAPHIC_DRIVER_SUPPORTED: some drivers are good enough only
\* with strict drawing, which pluginloader.exe then turns on.
CheckDriver(p) ==
    /\ At(p, "driver")
    /\ proc' = IF ~proc[p].config["silverlightgraphicdrivercheck"]
               THEN [proc EXCEPT ![p].pc = "info"]
               ELSE [proc EXCEPT ![p].pc = "info",
                        ![p].loader.strict = @ \/ machine.driver = "strict",
                        ![p].config["overwritearg"] =
                            IF machine.driver # "other" THEN @ ELSE WithPair(@, Acceleration, "false")]
    /\ UNCHANGED <<cache, machine, history>>

\* FUNCTION_GET_PLUGIN_INFO, and fopen in savePluginInformation, which empties
\* the file.  Without a home directory, or if fopen fails, nothing is saved.
GetInfo(p) ==
    /\ At(p, "info")
    /\ LET info == InfoOf(proc[p].loader.version, proc[p].config)
       IN  \/ /\ proc[p].env.home
              /\ proc' = [proc EXCEPT ![p] = Extended(@, [pc |-> "save", info |-> info])]
              /\ cache' = <<>>
              /\ history' = [history EXCEPT !.known = @ \cup {info}]
           \/ /\ proc' = [proc EXCEPT ![p] = Extended(@, [pc |-> "done", info |-> info, initOkay |-> TRUE])]
              /\ UNCHANGED <<cache, history>>
    /\ UNCHANGED machine

SaveAs(p, bytes) ==
    /\ Saving(p)
    /\ proc' = [proc EXCEPT ![p] = Extended(@, [pc |-> "done", initOkay |-> TRUE])]
    /\ cache' = WriteOver(cache, bytes)
    /\ history' = [history EXCEPT !.interrupted = FALSE]
    /\ UNCHANGED machine

\* Mutant of Save: the version is forgotten.
SaveThree(p) ==
    LET info == proc[p].info
    IN  SaveAs(p, WithLength(info.mime) \o WithLength(info.name) \o WithLength(info.description))

\* fclose.
Save(p) == SaveAs(p, Written(proc[p].info))

\* fclose fails, on a full disk; nobody looks at its result.
SaveFails(p) ==
    /\ Saving(p)
    /\ proc' = [proc EXCEPT ![p] = Extended(@, [pc |-> "done", initOkay |-> TRUE])]
    /\ history' = [history EXCEPT !.interrupted = TRUE]
    /\ UNCHANGED <<cache, machine>>

Failed(p, info) ==
    proc' = [proc EXCEPT ![p] = Extended(@, [pc |-> "done", info |-> info, initOkay |-> FALSE])]

\* Mutant of LoadInfo: what loadPluginInformation returns is not looked at.
\* The buffers behind the point where reading stopped are still empty.
LoadInfoUnchecked(p) ==
    /\ At(p, "cached")
    /\ IF cache # NoFile /\ Readable(cache) THEN Failed(p, Read(cache))
       ELSE IF cache # NoFile /\ HasText(cache)
            THEN Failed(p, [NoInfo EXCEPT !.mime = FirstText(cache)])
       ELSE Failed(p, NoInfo)
    /\ UNCHANGED <<cache, machine, history>>

\* loadPluginInformation, and the error texts if it fails; these replace all
\* four, also those that have been read.
LoadInfo(p) ==
    /\ At(p, "cached")
    /\ Failed(p, IF proc[p].env.home /\ cache # NoFile /\ Readable(cache) THEN Read(cache) ELSE ErrorInfo)
    /\ UNCHANGED <<cache, machine, history>>

\* The browser ends, or is killed.
Kill(p) ==
    /\ ~At(p, "gone")
    /\ proc' = [proc EXCEPT ![p] = Gone]
    /\ history' = [history EXCEPT !.interrupted = @ \/ Saving(p)]
    /\ UNCHANGED <<cache, machine>>

\* Bound: MaxVersion.
InstallVersion ==
    /\ machine.version < MaxVersion
    /\ machine' = [machine EXCEPT !.version = @ + 1]
    /\ UNCHANGED <<proc, cache, history>>

Next ==
    \/ \E p \in Process :
          \/ Start(p) \/ Load(p) \/ StartWine(p) \/ InitOkay(p) \/ InitFails(p) \/ CheckDriver(p)
          \/ GetInfo(p) \/ Save(p) \/ SaveFails(p) \/ LoadInfo(p) \/ Kill(p)
    \/ InstallVersion

Spec == Init /\ [][Next]_vars

-----------------------------------------------------------------------------
\* The texts a browser is shown belong together: all four come from this
\* process's own plugin or from one process that saved them, or they are the
\* error texts, or nothing was started; whatever other processes do to the
\* file meanwhile, in whatever order they are killed (savePluginInformation
\* and loadPluginInformation take no lock).
InfoIsGenuine ==
    \A p \in Process : At(p, "done") =>
        IF proc[p].initOkay
        THEN proc[p].info \in {InfoOf(v, proc[p].config) : v \in 1 .. machine.version}
        ELSE IF proc[p].info = NoInfo THEN "loader" \notin DOMAIN proc[p]
        ELSE proc[p].info \in history.known \cup {ErrorInfo}

\* The file holds what one process saved, once nobody is saving and no save
\* has been cut off since; also after saves that overlapped.
CacheIsWhole ==
    \/ cache = NoFile
    \/ history.interrupted
    \/ \E p \in Process : Saving(p)
    \/ Readable(cache) /\ Read(cache) \in history.known

\* Both sides have the same idea of the plugin and the modes: the flags
\* pluginloader.exe has read are those of the configuration;
\* linuxWindowlessMode never comes without windowlessMode (pluginloader.c and
\* nppfunctions.c rely on it); a configuration loadConfig accepts is enough for
\* main, which loads the file it names, or the registered one.
SidesAgree ==
    \A p \in Process : "loader" \in DOMAIN proc[p] =>
        LET config == proc[p].config
            loader == proc[p].loader
        IN  /\ loader.args.flags = {flag \in Flags : config[KeyOfFlag(flag)]}
            /\ "--linuxwindowless" \in loader.args.flags => "--windowless" \in loader.args.flags
            /\ loader.file.result # "incomplete"
            /\ config["dllpath"] # "" /\ config["dllname"] # "" =>
                  loader.file = [result |-> "found", file |-> <<config["dllpath"], config["dllname"]>>]

AskedFor(p) == proc[p].env.gpu >= 0

\* The driver decides, unless the user has: on a driver that is not listed a
\* plugin for which the driver is to be checked does not use the hardware, and
\* on one that needs strict drawing it gets that; a number in
\* PIPELIGHT_GPUACCELERATION or an argument in the file overrules both.
AccelerationFitsDriver ==
    \A p \in Process : At(p, "info") =>
        LET config == proc[p].config
            given  == LoadConfig(machine.places, [proc[p].env EXCEPT !.gpu = -1], Files).config
            wanted == config["overwritearg"]
            accelerates == Acceleration \notin DOMAIN wanted \/ wanted[Acceleration] # "false"
        IN  IF config["silverlightgraphicdrivercheck"]
            THEN /\ accelerates => machine.driver # "other"
                 /\ accelerates /\ machine.driver = "strict" => proc[p].loader.strict
            ELSE IF given["silverlightgraphicdrivercheck"]
            THEN AskedFor(p) /\ (accelerates <=> proc[p].env.gpu >= 1)
                             /\ (proc[p].loader.strict <=> proc[p].env.gpu >= 2)
            ELSE Acceleration \in DOMAIN given["overwritearg"] /\ ~AskedFor(p) =>
                     wanted[Acceleration] = given["overwritearg"][Acceleration]
=============================================================================
