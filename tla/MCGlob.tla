------------------------------- MODULE MCGlob -------------------------------
(***************************************************************************)
(* All strings of up to four characters over two letters, against all       *)
(* patterns of up to four parts ("a**b" has the parts a, empty, b) whose    *)
(* parts have at most two characters.                                       *)
(***************************************************************************)
EXTENDS Glob

MCChars == {"a", "b"}
Words(n) == UNION {[1 .. k -> MCChars] : k \in 0 .. n}
MCPatterns == (UNION {[1 .. k -> Words(2)] : k \in 1 .. 3}) \cup [1 .. 4 -> Words(1)]
MCSubjects == Words(4)

=============================================================================
