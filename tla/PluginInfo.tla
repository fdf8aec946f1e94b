------------------------------ MODULE PluginInfo ------------------------------
(***************************************************************************)
(* The file ~/.cache/pipelight/plugininfo-<plugin>: savePluginInformation  *)
(* writes the four texts the browser asks a plugin for, each behind its    *)
(* length, and loadPluginInformation reads them when a later start of      *)
(* pluginloader.exe fails (linux/libpipelight/configloader.c).  Every      *)
(* browser process with the plugin does that with the same file.           *)
(*                                                                         *)
(* The texts are smaller than the four buffers of class Context, 3428      *)
(* bytes together, so stdio holds the whole file in one buffer: nothing is *)
(* written before fclose, and then all at once; one read gets it all.      *)
(***************************************************************************)
EXTENDS Integers, Sequences

CONSTANTS
    Texts,     \* the texts: sequences of numbers
    NoFile,
    MaxText    \* sizeof the buffers: a text is shorter

ASSUME TextAssumption == /\ MaxText \in Nat
                         /\ Texts \subseteq Seq(Nat)
                         /\ \A t \in Texts : Len(t) < MaxText

ASSUME NoFileAssumption == NoFile \notin Seq(Nat)

Info == [mime : Texts, name : Texts, description : Texts, version : Texts]

WithLength(text) == <<Len(text)>> \o text

\* What savePluginInformation has written when fclose returns.
Written(info) == WithLength(info.mime) \o WithLength(info.name)
                 \o WithLength(info.description) \o WithLength(info.version)

\* A write at the start of a file that has grown longer in the meantime
\* leaves the rest of it.
WriteOver(file, bytes) ==
    IF Len(file) > Len(bytes) THEN bytes \o SubSeq(file, Len(bytes) + 1, Len(file)) ELSE bytes

\* fread_check of a length and of the text behind it.
HasText(file) == Len(file) > 0 /\ file[1] < MaxText /\ file[1] < Len(file)
FirstText(file) == SubSeq(file, 2, file[1] + 1)
AfterText(file) == SubSeq(file, file[1] + 2, Len(file))

\* The four texts one after another; each may be missing or cut off.
Readable(file) ==
    /\ HasText(file)
    /\ HasText(AfterText(file))
    /\ HasText(AfterText(AfterText(file)))
    /\ HasText(AfterText(AfterText(AfterText(file))))

Read(file) ==
    [mime        |-> FirstText(file),
     name        |-> FirstText(AfterText(file)),
     description |-> FirstText(AfterText(AfterText(file))),
     version     |-> FirstText(AfterText(AfterText(AfterText(file))))]
=============================================================================
