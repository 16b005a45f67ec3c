----------------------------- MODULE CommandLine -----------------------------
(***************************************************************************)
(* What main makes of its arguments (application/CLI.cpp). An argument is  *)
(* known by what is before its first '=' and, if there is one, by what is  *)
(* behind it; several letters after one '-' are as many names.             *)
(*                                                                         *)
(* The lookups ignore case. By then every name is one of Supported, as it  *)
(* is written there, and none of these differ in case only.                *)
(***************************************************************************)
EXTENDS Naturals, SequencesExt

CONSTANTS
    Supported,      \* the names of command_infos
    TutorialPath,   \* the tutorial's file, next to the program
    TutorialConfig  \* what is in it

Absent == <<>>

Arg(name, value) == [letters |-> <<>>, name |-> name, value |-> value]

(* -ab stands for -a -b.                                                   *)
copyArgsAndExpandSingleDashCombinedArgs(args) ==
    FlattenSeq([i \in DOMAIN args |->
        IF args[i].letters = <<>> THEN <<args[i]>>
        ELSE [k \in DOMAIN args[i].letters |-> Arg(args[i].letters[k], Absent)]])

reportUnsupportedCommands(args) == \E i \in DOMAIN args : args[i].name \notin Supported

hasArg(name, args) == \E i \in DOMAIN args : args[i].name = name

(* That of the first of the name, even if it has none and another does.    *)
argValueAfterEqualsSign(name, args) ==
    LET i == SelectInSeq(args, LAMBDA a : a.name = name)
    IN  IF i = 0 THEN Absent ELSE args[i].value

(* The tutorial's configuration takes the place of those given with a '='. *)
commandRunTutorial(args) ==
    LET Replaced(a) == \/ a.name = "--config" /\ a.value # Absent
                       \/ a.name = "--run-tutorial"
        kept == FlattenSeq([i \in DOMAIN args |->
                    IF Replaced(args[i]) THEN <<>> ELSE <<args[i]>>])
    IN  Append(kept, Arg("--config", <<TutorialPath>>))

(* A file that is there is kept, as the user may have changed it. In files *)
(* is what can be read; writable are the paths that can be written.        *)
FilesWithTutorial(files, writable) ==
    IF TutorialPath \notin writable THEN files
    ELSE [path \in DOMAIN files \cup {TutorialPath} |->
             IF path \in DOMAIN files THEN files[path] ELSE TutorialConfig]
=============================================================================
