----------------------------- MODULE MCFrontend ----------------------------
(* Instances of Frontend: four files in one directory, one below it.       *)
EXTENDS Frontend

LOCAL INSTANCE SequencesExt

MCComponent == {"r", "s", ".", "..", "a", "b", "c", "d", "sub", "gone"}

In(f) == <<"r", f>>
Sub == <<"r", "s", "sub">>
MCFile == {In(f) : f \in {"a", "b", "c", "d"}} \union {Sub}
MCRoot == In("b")

Directory == {<<>>, <<"r">>, <<"r", "s">>}

\* How the OS resolves a spelling: every prefix must be a directory, "." is
\* the directory itself and ".." its parent; NoEntry stands for ENOENT.
NoEntry == <<"gone">>
Resolve(dir, c) ==
  IF dir \notin Directory THEN NoEntry
  ELSE IF c = "." THEN dir
  ELSE IF c = ".." THEN (IF dir = <<>> THEN dir ELSE Front(dir))
  ELSE Append(dir, c)
MCDenotes(p) ==
  LET at[i \in 0..Len(p)] == IF i = 0 THEN <<>> ELSE Resolve(at[i - 1], p[i])
  IN  at[Len(p)]

\* The order of the keys, which are strings with "/" between the components.
Alphabet == <<"..", ".", "a", "b", "c", "d", "gone", "r", "s", "sub">>
Rank(c) == CHOOSE i \in DOMAIN Alphabet : Alphabet[i] = c
MCBefore(p, q) ==
  \E i \in DOMAIN q :
    /\ \A j \in 1..(i - 1) : j \in DOMAIN p /\ p[j] = q[j]
    /\ i \in DOMAIN p => Rank(p[i]) < Rank(q[i])

Named(path) == [type |-> "File", path |-> path]
Module == [type |-> "Module", path |-> <<>>]

UpTo(S, n) == UNION {[1..k -> S] : k \in 0..n}

\* The imports that a, b (the root), c, d and sub hold.
Disk(a, b, c, d, sub) ==
  [f \in MCFile |-> CASE f = In("a") -> a [] f = In("b") -> b [] f = In("c") -> c
                      [] f = In("d") -> d [] f = Sub -> sub]

\* The imports that a file of directory /r or of directory /r/s may hold,
\* without "." components: plain, missing, nested, and upwards ones.
PlainInR == {Named(<<"a">>), Named(<<"b">>), Named(<<"s", "sub">>), Named(<<"gone">>), Module}
PlainInS == {Named(<<"..", "a">>), Named(<<"sub">>), Module}

\* All contents with up to two imports in the root and one in a and sub, and,
\* for failed imports that are tried again, three in the root and two in a.
PlainDisks ==
  {Disk(a, b, <<>>, <<>>, sub) :
     a \in UpTo(PlainInR, 1), b \in UpTo(PlainInR, 2), sub \in UpTo(PlainInS, 1)}
  \union
  {Disk(a, b, <<>>, <<>>, <<>>) :
     a \in UpTo({Named(<<"s", "sub">>), Named(<<"b">>)}, 2),
     b \in UpTo({Named(<<"a">>), Named(<<"gone">>), Named(<<"s", "sub">>)}, 3)}

\* Imports spelled with "." and "..": the same file under several keys.
DottedInR == {Named(<<".", "a">>), Named(<<"s", "..", "b">>)}
DottedDisks ==
  {Disk(a, b, <<>>, <<>>, sub) :
     a \in UpTo(DottedInR, 1), b \in UpTo(DottedInR \union {Named(<<"s", "sub">>)}, 2),
     sub \in UpTo({Named(<<"..", "a">>)}, 1)}

\* Unit graphs: import lists in alphabetical order, at most two long.
Lists(S) == {<<>>} \union {<<Named(<<f>>)>> : f \in S}
            \union {<<Named(<<f>>), Named(<<g>>)>> :
                      <<f, g>> \in {p \in S \X S : Rank(p[1]) < Rank(p[2])}}
GraphDisks ==
  {Disk(a, b, c, d, <<>>) :
     a \in Lists({"b", "c", "d"}), b \in Lists({"a", "c", "d"}),
     c \in Lists({"a", "b", "d"}), d \in Lists({"d"})}

MCDisks == PlainDisks \union DottedDisks \union GraphDisks
MCFlaky == {MCRoot, Sub}
=============================================================================
