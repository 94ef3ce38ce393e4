----------------------------- MODULE MCDaemondo -----------------------------
(***************************************************************************)
(* daemondo with the options the startup items of ports give it            *)
(* (port1.0/portstartupitem_run.tcl): an executable, with or without a pid *)
(* file, or a script that starts, stops and restarts.                      *)
(***************************************************************************)
EXTENDS Daemondo

Options(style, script, file) ==
    [style |-> style, stop |-> script, restart |-> script, file |-> file]

Detaching ==
    {Options("fileauto", FALSE, TRUE), Options("fileclean", FALSE, TRUE)}
Executables ==
    {Options("exec", FALSE, FALSE), Options("exec", FALSE, TRUE)} \cup Detaching
Scripts ==
    {Options("none", TRUE, FALSE), Options("exec", TRUE, TRUE),
     Options("fileauto", TRUE, TRUE), Options("fileclean", TRUE, TRUE)}

\* A stop command without a restart command is left to the caller.
StopOnly ==
    {[style |-> style, stop |-> TRUE, restart |-> FALSE, file |-> TRUE] :
        style \in {"none", "exec"}}
MCConfigs == Executables \cup Scripts \cup StopOnly
=============================================================================
