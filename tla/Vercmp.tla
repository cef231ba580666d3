------------------------------- MODULE Vercmp -------------------------------
(***************************************************************************)
(* The comparison of versions: pextlib1.0/vercomp.c, the command vercmp,   *)
(* and its copy in cregistry/vercomp.c, the collation VERSION of the       *)
(* registry's tables.  A version is the tuple of its bytes.                *)
(***************************************************************************)
EXTENDS Integers, Sequences, SequencesExt, FiniteSetsExt

Digits == 48..57
Letters == (65..90) \cup (97..122)
Alnum == Digits \cup Letters

\* The bytes of s before the first that is not in class, and those after.
Span(s, class) ==
  LET first == SelectInSeq(s, LAMBDA x : x \notin class)
  IN IF first = 0 THEN Len(s) ELSE first - 1
While(s, class) == SubSeq(s, 1, Span(s, class))
After(s, class) == SubSeq(s, Span(s, class) + 1, Len(s))

Skip(s) == After(s, 0..127 \ Alnum)
StartsWith(s, class) == s # <<>> /\ s[1] \in class

\* Two segments of one kind: what the loop returns, or 0 to go on.  Where one
\* ends first they are taken for equal.
Lexicographic(s, t) ==
  LET differ == {i \in DOMAIN s \cap DOMAIN t : s[i] # t[i]}
  IN IF differ = {} THEN 0 ELSE s[Min(differ)] - t[Min(differ)]

\* Mutant: the longer number is newer, whatever zeros it begins with.
NumericWithZeros(s, t) ==
  IF Len(s) # Len(t) THEN (IF Len(s) > Len(t) THEN 1 ELSE -1) ELSE Lexicographic(s, t)

Numeric(s, t) ==
  LET m == After(s, {48})
      n == After(t, {48})
  IN IF Len(m) # Len(n) THEN (IF Len(m) > Len(n) THEN 1 ELSE -1) ELSE Lexicographic(m, n)

RECURSIVE Loop(_, _)
Loop(a, b) ==
  LET s == Skip(a)
      t == Skip(b)
      class == IF StartsWith(s, Letters) THEN Letters ELSE Digits
      segment == IF class = Letters THEN Lexicographic(While(s, class), While(t, class))
                 ELSE Numeric(While(s, class), While(t, class))
  IN CASE a = <<>> /\ b = <<>> -> 0
       [] a # <<>> /\ b = <<>> -> 1
       [] a = <<>> /\ b # <<>> -> -1
       [] OTHER -> CASE StartsWith(s, Digits) /\ ~StartsWith(t, Digits) -> 1
                     [] StartsWith(s, Letters) /\ StartsWith(t, Digits) -> -1
                     [] OTHER -> IF segment # 0 THEN segment
                                 ELSE Loop(After(s, class), After(t, class))

vercmp(a, b) == IF a = b THEN 0 ELSE Loop(a, b)

-----------------------------------------------------------------------------
VARIABLES compared, result
vars == <<compared, result>>

Init == compared = <<<<>>, <<>>>> /\ result = 0

VercompCmd(a, b) == compared' = <<a, b>> /\ result' = vercmp(a, b)

EndsInSeparator(s) == s # <<>> /\ Last(s) \notin Alnum

\* The copy in cregistry looks for the end of A at the end of B, and at the
\* byte past the end of either: with a separator at an end it may return
\* anything.
sql_version(a, b) ==
  /\ compared' = <<a, b>>
  /\ IF a # b /\ (EndsInSeparator(a) \/ EndsInSeparator(b)) THEN result' \in {-1, 0, 1}
     ELSE result' = vercmp(a, b)

Next(versions) == \E a, b \in versions : VercompCmd(a, b) \/ sql_version(a, b)

-----------------------------------------------------------------------------
(* What a version means *)

\* The numbers and letters of a version of numbers and single letters, with
\* at most one separator between two.
RECURSIVE Components(_)
Components(s) ==
  CASE s = <<>> -> <<>>
    [] StartsWith(s, Letters) -> <<[letter |-> TRUE, n |-> s[1]]>> \o Components(Tail(s))
    [] StartsWith(s, Digits) ->
         <<[letter |-> FALSE, n |-> FoldLeft(LAMBDA n, d : 10 * n + d - 48, 0, While(s, Digits))]>>
           \o Components(After(s, Digits))
    [] OTHER -> Components(Tail(s))

Plain(s) ==
  /\ s # <<>> => s[1] \in Alnum /\ Last(s) \in Alnum
  /\ \A i \in 1..(Len(s) - 1) : s[i] \in Digits \/ s[i + 1] \in Digits

\* Numbers are newer than letters; what goes on is newer than what ends.
Newer(x, y) ==
  \/ \E i \in DOMAIN x \cap DOMAIN y :
       /\ \A j \in 1..(i - 1) : x[j] = y[j]
       /\ \/ ~x[i].letter /\ y[i].letter
          \/ x[i].letter = y[i].letter /\ x[i].n > y[i].n
  \/ Len(x) > Len(y) /\ SubSeq(x, 1, Len(y)) = y

\* For versions of numbers and single letters both comparisons answer by the
\* order of what the components stand for, from the left: a total order, as
\* sorting, `outdated' and the UNIQUE constraint of the registry's ports need
\* (vercmp of both files).  It is none when words have several letters, or a
\* separator ends a version.
VersionsOrdered ==
  LET a == Components(compared[1])
      b == Components(compared[2])
  IN Plain(compared[1]) /\ Plain(compared[2]) =>
       /\ result > 0 <=> Newer(a, b)
       /\ result < 0 <=> Newer(b, a)
=============================================================================
