------------------------------ MODULE Sandbox ------------------------------
(***************************************************************************)
(* The sandbox of trace mode as data: paths, the file map and what is      *)
(* looked up in it (src/src/darwintracelib1.0/darwintrace.c, and the file  *)
(* map's making in src/src/pextlib1.0/tracelib.c).                         *)
(*                                                                         *)
(* A normalised path is the sequence of its components, a raw one the      *)
(* sequence of what lies between its slashes. The file map is a sequence   *)
(* of entries [path, command], searched from the front.                    *)
(***************************************************************************)
EXTENDS Naturals, Sequences, SequencesExt

CONSTANTS
    Up,           \* the component ".."
    Here,         \* the component "." and the empty one
    Dirs,         \* normalised paths that are directories
    Files,        \* normalised paths that are files
    Links,        \* Links[p] = [absolute, to]: the symbolic links
    MaxLinks      \* links followed for one path, 9 in the code

Commands == {"allow", "ask", "deny"}
IsLink(p) == p \in DOMAIN Links
Exists(p) == p \in Dirs \cup Files \cup DOMAIN Links

Parent(path) == IF path = <<>> THEN <<>> ELSE Front(path)

PathAppend(path, component) ==
    CASE component = Here -> path
      [] component = Up -> Parent(path)
      [] OTHER -> Append(path, component)

Tokenize(path, raw) == FoldLeft(PathAppend, path, raw)

\* An absolute link starts afresh, a relative one where the link is.
TokenizeSymlink(path) ==
    Tokenize(IF Links[path].absolute THEN <<>> ELSE Parent(path), Links[path].to)

\* The entries whose path the path lies under, component by component.
Matching(map, path) == {i \in 1..Len(map) : IsPrefix(map[i].path, path)}

\* What the first of them says; a path no entry covers is denied.
Command(map, path) ==
    LET hits == Matching(map, path)
    IN  IF path = <<>> THEN "allow"
        ELSE IF hits = {} THEN "deny"
        ELSE map[CHOOSE i \in hits : \A j \in hits : i <= j].command

=============================================================================
