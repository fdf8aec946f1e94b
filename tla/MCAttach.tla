------------------------------- MODULE MCAttach -------------------------------
\* Attach with five configuration files, among them the lines that matter of
\* share/configs/pipelight-silverlight5.1 and pipelight-flash, and five
\* environments.
EXTENDS Attach

Needed ==
    <<BeginLine, Assign("winepath", <<Var("share"), Text("/wine")>>),
      Assign("wineprefix", <<Var("home"), Text("/.wine-pipelight")>>),
      Assign("pluginloaderpath", <<Var("share"), Text("/pluginloader.exe")>>)>>

Silverlight ==
    Needed \o <<Assign("dllpath", <<Text("c:/Silverlight")>>), Assign("dllname", <<Text("npctrl.dll")>>),
                IgnoredLine, Assign("silverlightgraphicdrivercheck", <<Text("true")>>),
                Assign("experimental-windowclasshook", <<Text("true")>>), EndLine>>

\* With a fake version, and with acceleration asked for in the file.
OldSilverlight ==
    Needed \o <<Define("dir", <<Text("c:/Silverlight")>>), Assign("dllpath", <<Var("dir")>>),
                Assign("dllname", <<Text("npctrl.dll")>>), Assign("fakeversion", <<Text("5.1")>>),
                Pair("overwritearg", Acceleration, <<Text("true")>>),
                Assign("graphicdrivercheck", <<Text("/bin/false")>>), EndLine>>

Flash ==
    Needed \o <<Assign("regkey", <<Text("@adobe.com/FlashPlayer")>>),
                Assign("linuxwindowlessmode", <<Text("yes")>>),
                Assign("experimental-strictdrawordering", <<Text("true")>>),
                Pair("fakemimetype", "application/x-fake", <<Text("application/x-flash")>>), EndLine>>

\* The directory is given, but the name is left to the registry.
Unregistered ==
    Needed \o <<Assign("dllpath", <<Text("c:/Unity")>>), Assign("regkey", <<Text("@unity3d.com")>>),
                Assign("embed", <<Text("no")>>)>>

\* Nothing in it is between the two marks that matter.
Outside == <<Assign("winepath", <<Var("nowhere")>>), BeginLine, EndLine>>

MCPlaces == {<<<<>>, <<>>, f, <<>>, Silverlight>> : f \in {<<>>, OldSilverlight, Flash, Unregistered, Outside}}

Env(home, embed, windowless, gpu, wine) ==
    [home |-> home, embed |-> embed, windowless |-> windowless, gpu |-> gpu, wine |-> wine]

MCEnvironment ==
    {Env(TRUE, -1, -1, -1, ""), Env(TRUE, 0, 1, 0, ""), Env(TRUE, 1, 0, 1, "wine-staging"),
     Env(TRUE, -1, 2, 2, ""), Env(FALSE, -1, -1, -1, "")}

MCRegistry == ("@adobe.com/FlashPlayer" :> <<"c:/Flash", "NPSWF32.dll">>) @@ ("@unity3d.com" :> <<>>)

MCTexts == {<<>>, <<0>>, <<1>>, <<2>>, <<7>>, <<9>>, <<1, 8, 8>>, <<2, 8, 8>>}
=============================================================================
