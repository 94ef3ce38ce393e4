----------------------------- MODULE PathNames -----------------------------
(***************************************************************************)
(* The names in a filemap (pextlib1.0/filemap.c) and how they are compared. *)
(* Names are sequences of bytes; a path is the sequence of its parts, whose *)
(* last part is empty when the path ends with a slash.                     *)
(***************************************************************************)
EXTENDS Integers, Sequences, FiniteSetsExt

\* What get finds on a path without a value.
NoValue == "none"

(* A subnode is compared with a part without regard to case, over the      *)
(* length of the part; then the key must end there.  That last byte is a   *)
(* char, which is signed.                                                  *)
Byte(name, i) == IF i <= Len(name) THEN name[i] ELSE 0
Fold(byte) == IF byte \in 65..90 THEN byte + 32 ELSE byte
FoldName(name) == [i \in DOMAIN name |-> Fold(name[i])]
SignedChar(byte) == IF byte >= 128 THEN byte - 256 ELSE byte

Compare(key, part) ==
    LET differs == {i \in DOMAIN part : Fold(Byte(key, i)) # Fold(part[i])}
    IN  IF differs # {}
        THEN Fold(Byte(key, Min(differs))) - Fold(part[Min(differs)])
        ELSE SignedChar(Byte(key, Len(part) + 1))

\* Paths that differ in case only are the same.
Norm(path) == [i \in DOMAIN path |-> FoldName(path[i])]
=============================================================================
