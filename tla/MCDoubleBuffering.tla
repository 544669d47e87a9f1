------------------------- MODULE MCDoubleBuffering -------------------------
(* Instances of DoubleBuffering for TLC.                                   *)
EXTENDS DoubleBuffering

(* File a is two whole chunks of 2, b one chunk and a half, c is empty, d  *)
(* is three and a half chunks; "gone" is a name that cannot be opened.     *)
MCFiles == {"a", "b", "c", "d", "gone"}
MCFileLen == [f \in MCFiles |-> CASE f = "a" -> 4 [] f = "b" -> 3 [] f = "d" -> 7 [] OTHER -> 0]

(* Lists of two names that open, one per reader.                           *)
ShortLists == {<<"b", "c">>, <<"c", "b">>}

(* Lists for three readers: the last file the longest, the shortest, even  *)
(* and odd numbers of chunks, a file twice.                                *)
TripleLists == {<<"d", "c", "a">>, <<"c", "d", "b">>, <<"a", "b", "d">>,
                <<"d", "d", "c">>, <<"a", "d", "d">>, <<"b", "a", "b">>}

(* Too few names, too many names, a missing file.                          *)
OddLists == {<<"b">>, <<"b", "c", "a">>, <<"b", "gone">>, <<"gone", "c">>}

(* What a caller may pass, right or not.                                   *)
CallerLists == ShortLists \cup OddLists

(* The file of one of two readers is missing.                              *)
MissingLists == {<<"a", "gone">>, <<"gone", "b">>, <<"b", "a">>}
=============================================================================
