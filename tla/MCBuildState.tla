---------------------------- MODULE MCBuildState ----------------------------
(* Instances of BuildState for TLC: three commands, two targets.             *)
EXTENDS BuildState, TLC

TwoTargets == <<"extract", "destroot">>
Plus == {{}, {"+x"}}
PlusXY == {{}, {"+x"}, {"+y"}}

\* Commands follow one another; the Portfile is edited between them.
OneByOne == [alone |-> TRUE, begun |-> FALSE, edits |-> "between", cut |-> FALSE,
             mode |-> "archive",
             goals |-> {"build", "install", "clean"}, variants |-> Plus, opts |-> {}]
\* The same with -o and -f.
Forced == [OneByOne EXCEPT !.opts = {"o", "f"}, !.goals = {"build", "clean"}]
\* Commands run side by side in a build that was begun before.
SideBySide == [alone |-> FALSE, begun |-> TRUE, edits |-> "never", cut |-> FALSE,
               mode |-> "archive",
               goals |-> {"build"}, variants |-> {{"+x"}, {"+y"}}, opts |-> {}]
\* Commands follow one another and keep port images as directories.
Directory == [OneByOne EXCEPT !.mode = "directory", !.edits = "never"]
Orderly == {OneByOne, Forced, SideBySide, Directory}
=============================================================================
