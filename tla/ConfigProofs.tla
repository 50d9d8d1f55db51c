---------------------------- MODULE ConfigProofs ----------------------------
(***************************************************************************)
(* The properties of Config for every file: whatever the lines are, and    *)
(* however many of them there are.  The induction is over the lines: two   *)
(* files that have the same lines up to a place are in the same state      *)
(* there, and from states with the same section, name and configuration    *)
(* the same lines lead to such states.                                     *)
(***************************************************************************)
EXTENDS Config, WellFoundedInduction, TLAPS

------------------------------------------------------------------------------
(* Sequences *)

(* The library's theorems on sequences that are needed here, each of them  *)
(* one step for the provers.  Every obligation carries all the theorems of *)
(* its context: a proof of this length is checked sooner without the whole *)
(* library.                                                                *)

(* A sequence is a function on the positions up to its length.             *)
LEMMA LengthIs ==
    ASSUME NEW S, NEW s \in Seq(S)
    PROVE  Len(s) \in Nat /\ s \in [1..Len(s) -> S] /\ DOMAIN s = 1..Len(s)
  OBVIOUS

(* What a sequence has at a position is an element.                        *)
LEMMA ElementIn ==
    ASSUME NEW S, NEW s \in Seq(S), NEW n \in 1..Len(s)
    PROVE  s[n] \in S
  OBVIOUS

(* The empty sequence is the one whose length is 0.                        *)
LEMMA NothingIs ==
    ASSUME NEW S
    PROVE  /\ <<>> \in Seq(S) /\ Len(<<>>) = 0
           /\ \A s \in Seq(S) : s # <<>> => Len(s) \in Nat \ {0}
  OBVIOUS

(* Two sequences of one length with the same elements are equal.           *)
LEMMA SameSequence ==
    ASSUME NEW S, NEW s \in Seq(S), NEW t \in Seq(S),
           Len(s) = Len(t), \A i \in 1..Len(s) : s[i] = t[i]
    PROVE  s = t
  OBVIOUS

(* A sequence with one element replaced.                                   *)
LEMMA ReplacedIs ==
    ASSUME NEW S, NEW s \in Seq(S), NEW i \in 1..Len(s), NEW e \in S
    PROVE  /\ [s EXCEPT ![i] = e] \in Seq(S)
           /\ Len([s EXCEPT ![i] = e]) = Len(s)
           /\ \A j \in 1..Len(s) : [s EXCEPT ![i] = e][j] = IF j = i THEN e ELSE s[j]
  OBVIOUS

(* One sequence after another.                                             *)
LEMMA JoinIs ==
    ASSUME NEW S, NEW s \in Seq(S), NEW t \in Seq(S)
    PROVE  /\ s \o t \in Seq(S)
           /\ Len(s \o t) = Len(s) + Len(t)
           /\ \A i \in 1..(Len(s) + Len(t)) :
                (s \o t)[i] = IF i <= Len(s) THEN s[i] ELSE t[i - Len(s)]
  OBVIOUS

(* The part of a sequence from one position to another.                    *)
LEMMA PartIs ==
    ASSUME NEW S, NEW s, NEW m \in Int, NEW n \in Int, \A i \in m..n : s[i] \in S
    PROVE  /\ SubSeq(s, m, n) \in Seq(S)
           /\ Len(SubSeq(s, m, n)) = IF m <= n THEN n - m + 1 ELSE 0
           /\ \A i \in 1..(n - m + 1) : SubSeq(s, m, n)[i] = s[m + i - 1]
  OBVIOUS

(* The part up to a position before its first is empty.                    *)
LEMMA NoPart ==
    ASSUME NEW s, NEW m \in Int, NEW n \in Int, n < m
    PROVE  SubSeq(s, m, n) = <<>>
  OBVIOUS

(* The part that is all of a sequence.                                     *)
LEMMA WholeIs ==
    ASSUME NEW S, NEW s \in Seq(S)
    PROVE  SubSeq(s, 1, Len(s)) = s
  OBVIOUS

(* The first element and the others.                                       *)
LEMMA HeadTailAre ==
    ASSUME NEW S, NEW s \in Seq(S), s # <<>>
    PROVE  /\ Head(s) \in S
           /\ Tail(s) \in Seq(S) /\ Len(Tail(s)) = Len(s) - 1
           /\ \A i \in 1..Len(Tail(s)) : Tail(s)[i] = s[i + 1]
  OBVIOUS

------------------------------------------------------------------------------
(* Numbers *)

(* Every non-empty set of naturals has a least element.                    *)
LEMMA Least ==
    ASSUME NEW S, S \subseteq Nat, S # {}
    PROVE  \E m \in S : \A k \in S : m <= k
  <1>1. PICK m \in S : \A k \in S : ~(<<k, m>> \in OpToRel(<, Nat))
    BY Zenon, WFMin, NatLessThanWellFounded
  <1>2. \A k \in S : ~(k < m)
    BY Zenon, <1>1 DEF OpToRel
  <1> QED
    BY <1>2

(* Induction over the naturals, for a set.                                 *)
LEMMA NatInductive ==
    ASSUME NEW S, 0 \in S, \A n \in Nat : n \in S => n + 1 \in S
    PROVE  Nat \subseteq S
  <1> SUFFICES ASSUME Nat \ S # {}
               PROVE  FALSE
    OBVIOUS
  <1>1. PICK m \in Nat \ S : \A k \in Nat \ S : m <= k
    <2> DEFINE T == Nat \ S
    <2>1. T \subseteq Nat /\ T # {}
      OBVIOUS
    <2> HIDE DEF T
    <2>2. \E m \in T : \A k \in T : m <= k
      BY Zenon, <2>1, Least
    <2> QED
      BY <2>2 DEF T
  <1>2. m # 0 /\ m - 1 \in Nat
    BY <1>1
  <1>3. m - 1 \in S
    BY <1>1, <1>2
  <1> QED
    BY <1>1, <1>2, <1>3

(* Lowest of a set of naturals is its least element.                          *)
LEMMA LowestIs ==
    ASSUME NEW S, S \subseteq Nat, S # {}
    PROVE  Lowest(S) \in S /\ \A k \in S : Lowest(S) <= k
  <1>1. \E m \in S : \A k \in S : m <= k
    BY Zenon, Least
  <1> QED
    BY Zenon, <1>1 DEF Lowest

(* Highest of a bounded set of naturals is its greatest element.               *)
LEMMA HighestIs ==
    ASSUME NEW S, S \subseteq Nat, S # {}, NEW b \in Nat, \A k \in S : k <= b
    PROVE  Highest(S) \in S /\ \A k \in S : k <= Highest(S)
  <1> DEFINE T == {c \in Nat : \A k \in S : k <= c}
  <1>1. T \subseteq Nat /\ T # {}
    OBVIOUS
  <1>2. PICK c \in T : \A d \in T : c <= d
    <2> HIDE DEF T
    <2> QED
      BY Zenon, <1>1, Least
  <1>3. c \in S
    <2> SUFFICES ASSUME c \notin S PROVE FALSE
      OBVIOUS
    <2>1. \A k \in S : k < c
      <3>1. \A k \in S : k \in Nat /\ k <= c /\ k # c
        OBVIOUS
      <3>2. c \in Nat
        OBVIOUS
      <3> QED
        BY <3>1, <3>2
    <2>2. c - 1 \in T
      <3>1. PICK k \in S : k < c
        BY Zenon, <2>1
      <3>2. c - 1 \in Nat
        BY <3>1
      <3> QED
        BY <2>1, <3>2
    <2> QED
      BY <1>2, <2>2
  <1>4. \E m \in S : \A k \in S : m >= k
    BY <1>3
  <1>5. Highest(S) \in S /\ \A k \in S : Highest(S) >= k
    BY Zenon, <1>4 DEF Highest
  <1> QED
    BY <1>5

------------------------------------------------------------------------------
(* Lines *)

(* A line, as in the file.  The provers do not know that "=" is a string.  *)
Lexeme == STRING \cup {"="}
Line == Seq(Lexeme)

(* The first k lexemes of a line.                                          *)
LEMMA PrefixIs ==
    ASSUME NEW s \in Line, NEW k \in 0..Len(s)
    PROVE  /\ SubSeq(s, 1, k) \in Line
           /\ Len(SubSeq(s, 1, k)) = k
           /\ \A i \in 1..k : SubSeq(s, 1, k)[i] = s[i]
  <1>1. Len(s) \in Nat /\ \A i \in 1..k : s[i] \in Lexeme
    BY LengthIs, ElementIn DEF Line
  <1> QED
    BY <1>1, PartIs DEF Line

(* The lexemes of a line from the j-th on.                                 *)
LEMMA SuffixIs ==
    ASSUME NEW s \in Line, NEW j \in 1..(Len(s) + 1)
    PROVE  /\ SubSeq(s, j, Len(s)) \in Line
           /\ Len(SubSeq(s, j, Len(s))) = Len(s) - j + 1
           /\ \A i \in 1..(Len(s) - j + 1) : SubSeq(s, j, Len(s))[i] = s[j + i - 1]
  <1>1. Len(s) \in Nat /\ \A i \in j..Len(s) : s[i] \in Lexeme
    BY LengthIs, ElementIn DEF Line
  <1> QED
    BY <1>1, PartIs DEF Line

(* Two lines with the same lexemes are equal.                              *)
LEMMA SameLine ==
    ASSUME NEW s \in Line, NEW t \in Line, Len(s) = Len(t), \A i \in 1..Len(s) : s[i] = t[i]
    PROVE  s = t
  BY SameSequence DEF Line

(* The lexemes that are not blank stand inside the line.                   *)
LEMMA FilledIn ==
    ASSUME NEW s \in Line
    PROVE  Len(s) \in Nat /\ Filled(s) \subseteq Nat /\ \A k \in Filled(s) : k <= Len(s)
  BY LengthIs DEF Line, Filled

(* ini_rstrip leaves a start of the line that does not end with a blank,   *)
(* and takes only blanks away.                                             *)
LEMMA RstripHas ==
    ASSUME NEW s \in Line
    PROVE  \E k \in 0..Len(s) : /\ ini_rstrip(s) = SubSeq(s, 1, k)
                                /\ k = 0 \/ s[k] # Blank
                                /\ \A i \in (k + 1)..Len(s) : s[i] = Blank
  <1> DEFINE S == Filled(s) \cup {0}
  <1>0. Len(s) \in Nat
    BY FilledIn
  <1>1. S \subseteq Nat /\ S # {} /\ \A k \in S : k <= Len(s)
    BY FilledIn
  <1>2. Highest(S) \in S /\ \A k \in S : k <= Highest(S)
    <2> HIDE DEF S
    <2> QED BY Zenon, <1>0, <1>1, HighestIs
  <1>3. Highest(S) \in 0..Len(s)
    BY <1>0, <1>1, <1>2
  <1>4. Highest(S) = 0 \/ s[Highest(S)] # Blank
    BY <1>2 DEF Filled
  <1>5. \A i \in (Highest(S) + 1)..Len(s) : s[i] = Blank
    <2> SUFFICES ASSUME NEW i \in (Highest(S) + 1)..Len(s), s[i] # Blank
                 PROVE  FALSE
      OBVIOUS
    <2>1. i \in S
      BY <1>0, <1>3 DEF Filled
    <2> HIDE DEF S
    <2> QED
      BY <1>0, <1>2, <1>3, <2>1
  <1>6. ini_rstrip(s) = SubSeq(s, 1, Highest(S))
    BY DEF ini_rstrip
  <1> HIDE DEF S
  <1> QED
    BY Zenon, <1>3, <1>4, <1>5, <1>6

(* Nothing but ini_rstrip's result is such a start.                        *)
LEMMA RstripIs ==
    ASSUME NEW s \in Line, NEW k \in 0..Len(s), k = 0 \/ s[k] # Blank,
           \A i \in (k + 1)..Len(s) : s[i] = Blank
    PROVE  ini_rstrip(s) = SubSeq(s, 1, k)
  <1>0. Len(s) \in Nat
    BY FilledIn
  <1>1. PICK m \in 0..Len(s) : /\ ini_rstrip(s) = SubSeq(s, 1, m)
                               /\ m = 0 \/ s[m] # Blank
                               /\ \A i \in (m + 1)..Len(s) : s[i] = Blank
    BY RstripHas
  <1>2. ~(m < k) /\ ~(k < m)
    BY <1>0, <1>1
  <1> QED
    BY <1>0, <1>1, <1>2

(* ini_lskip leaves the line from its first lexeme that is not blank.      *)
LEMMA LskipIs ==
    ASSUME NEW s \in Line, NEW j \in 1..Len(s), s[j] # Blank, \A i \in 1..(j - 1) : s[i] = Blank
    PROVE  ini_lskip(s) = SubSeq(s, j, Len(s))
  <1>0. Len(s) \in Nat /\ Filled(s) \subseteq Nat
    BY FilledIn
  <1>1. j \in Filled(s)
    BY DEF Filled
  <1>2. Lowest(Filled(s)) \in Filled(s) /\ Lowest(Filled(s)) <= j
    BY <1>0, <1>1, LowestIs
  <1>3. ~(Lowest(Filled(s)) < j)
    BY <1>0, <1>2 DEF Filled
  <1>4. Lowest(Filled(s)) = j
    BY <1>0, <1>2, <1>3
  <1> QED
    BY <1>1, <1>4 DEF ini_lskip

(* ini_lskip leaves nothing of blanks.                                     *)
LEMMA LskipBlank ==
    ASSUME NEW s \in Line, \A i \in 1..Len(s) : s[i] = Blank
    PROVE  ini_lskip(s) = <<>>
  BY DEF ini_lskip, Filled

(* Where ini_lskip's result starts, unless the line is blank.              *)
LEMMA LskipHas ==
    ASSUME NEW s \in Line, \E i \in 1..Len(s) : s[i] # Blank
    PROVE  \E j \in 1..Len(s) : /\ ini_lskip(s) = SubSeq(s, j, Len(s))
                                /\ s[j] # Blank
                                /\ \A i \in 1..(j - 1) : s[i] = Blank
  <1>0. Len(s) \in Nat /\ Filled(s) \subseteq Nat /\ Filled(s) # {}
    BY FilledIn DEF Filled
  <1>1. Lowest(Filled(s)) \in Filled(s) /\ \A k \in Filled(s) : Lowest(Filled(s)) <= k
    BY <1>0, LowestIs
  <1> DEFINE j == Lowest(Filled(s))
  <1>2. j \in 1..Len(s) /\ s[j] # Blank
    BY <1>1 DEF Filled
  <1>3. \A i \in 1..(j - 1) : s[i] = Blank
    <2> SUFFICES ASSUME NEW i \in 1..(j - 1), s[i] # Blank
                 PROVE  FALSE
      OBVIOUS
    <2>1. i \in Filled(s)
      BY <1>0, <1>2 DEF Filled
    <2> QED
      BY <1>0, <1>1, <1>2, <2>1
  <1>4. ini_lskip(s) = SubSeq(s, j, Len(s))
    BY Zenon, <1>0 DEF ini_lskip
  <1> HIDE DEF j
  <1> QED
    BY <1>2, <1>3, <1>4

(* A character that ends ini_find_chars_or_comment.                        *)
Stop(s, chars, i) == s[i] \in chars \/ (i > 1 /\ s[i - 1] = Blank /\ s[i] = Semicolon)

(* ini_find_chars_or_comment stops at the first character that ends it.    *)
LEMMA FindHas ==
    ASSUME NEW s \in Line, NEW chars
    PROVE  LET e == ini_find_chars_or_comment(s, chars)
           IN  /\ e \in 1..(Len(s) + 1)
               /\ \A i \in 1..(e - 1) : ~Stop(s, chars, i)
               /\ e <= Len(s) => Stop(s, chars, e)
  <1> DEFINE S == {i \in 1..Len(s) : \/ s[i] \in chars
                                     \/ i > 1 /\ s[i - 1] = Blank /\ s[i] = Semicolon}
                     \cup {Len(s) + 1}
             e == ini_find_chars_or_comment(s, chars)
  <1>0. Len(s) \in Nat
    BY FilledIn
  <1>1. S \subseteq Nat /\ S # {} /\ e = Lowest(S)
    BY <1>0 DEF ini_find_chars_or_comment
  <1>2. e \in S /\ \A k \in S : e <= k
    <2> HIDE DEF S, e
    <2> QED BY Zenon, <1>1, LowestIs
  <1>3. e \in 1..(Len(s) + 1)
    BY <1>0, <1>2
  <1>4. \A i \in 1..(e - 1) : ~Stop(s, chars, i)
    <2> SUFFICES ASSUME NEW i \in 1..(e - 1), Stop(s, chars, i)
                 PROVE  FALSE
      OBVIOUS
    <2> HIDE DEF e
    <2>1. i \in S
      BY <1>0, <1>3 DEF Stop
    <2> QED
      BY <1>0, <1>2, <1>3, <2>1
  <1>5. e <= Len(s) => Stop(s, chars, e)
    <2> HIDE DEF e
    <2> QED BY <1>0, <1>2 DEF Stop
  <1> QED
    BY <1>3, <1>4, <1>5

(* Nothing but ini_find_chars_or_comment's result is such a place.         *)
LEMMA FindIs ==
    ASSUME NEW s \in Line, NEW chars, NEW e \in 1..(Len(s) + 1),
           \A i \in 1..(e - 1) : ~Stop(s, chars, i), e <= Len(s) => Stop(s, chars, e)
    PROVE  ini_find_chars_or_comment(s, chars) = e
  <1>0. Len(s) \in Nat
    BY FilledIn
  <1> DEFINE f == ini_find_chars_or_comment(s, chars)
  <1>1. /\ f \in 1..(Len(s) + 1)
        /\ \A i \in 1..(f - 1) : ~Stop(s, chars, i)
        /\ f <= Len(s) => Stop(s, chars, f)
    BY FindHas
  <1> HIDE DEF f
  <1>2. ~(f < e) /\ ~(e < f)
    BY <1>0, <1>1
  <1>3. f = e
    BY <1>0, <1>1, <1>2
  <1> QED
    BY <1>3 DEF f

(* The lexemes before a place.                                             *)
LEMMA BeforeIs ==
    ASSUME NEW s \in Line, NEW e \in 1..(Len(s) + 1)
    PROVE  /\ Before(s, e) \in Line
           /\ Len(Before(s, e)) = e - 1
           /\ \A i \in 1..(e - 1) : Before(s, e)[i] = s[i]
  <1>1. Len(s) \in Nat
    BY FilledIn
  <1>2. e - 1 \in 0..Len(s)
    BY <1>1
  <1> QED
    BY <1>2, PrefixIs DEF Before

(* The lexemes after a place.                                              *)
LEMMA AfterIs ==
    ASSUME NEW s \in Line, NEW e \in 0..Len(s)
    PROVE  /\ After(s, e) \in Line
           /\ Len(After(s, e)) = Len(s) - e
           /\ \A i \in 1..(Len(s) - e) : After(s, e)[i] = s[e + i]
  <1>1. Len(s) \in Nat
    BY FilledIn
  <1> DEFINE j == e + 1
  <1>2. j \in 1..(Len(s) + 1) /\ Len(s) - j + 1 = Len(s) - e
    BY <1>1
  <1>3. \A i \in 1..(Len(s) - e) : j + i - 1 = e + i
    BY <1>1
  <1>4. After(s, e) = SubSeq(s, j, Len(s))
    BY DEF After
  <1> HIDE DEF j
  <1>5. /\ After(s, e) \in Line /\ Len(After(s, e)) = Len(s) - e
        /\ \A i \in 1..(Len(s) - e) : After(s, e)[i] = s[j + i - 1]
    BY <1>2, <1>4, SuffixIs
  <1> QED
    BY <1>3, <1>5

(* The empty line is the one whose length is 0.                            *)
LEMMA EmptyLine ==
    /\ <<>> \in Line /\ Len(<<>>) = 0
    /\ \A s \in Line : s # <<>> <=> Len(s) \in Nat \ {0}
  <1>1. <<>> \in Line /\ Len(<<>>) = 0
    BY NothingIs DEF Line
  <1>2. \A s \in Line : s # <<>> => Len(s) \in Nat \ {0}
    BY NothingIs DEF Line
  <1> QED
    BY <1>1, <1>2

(* ini_rstrip and ini_lskip give lines.                                    *)
LEMMA StrippedTypes ==
    ASSUME NEW s \in Line
    PROVE  ini_rstrip(s) \in Line /\ ini_lskip(s) \in Line
  <1>0. Len(s) \in Nat
    BY FilledIn
  <1>1. ini_rstrip(s) \in Line
    BY Zenon, RstripHas, PrefixIs
  <1>2. CASE \A i \in 1..Len(s) : s[i] = Blank
    BY <1>1, <1>2, LskipBlank, EmptyLine
  <1>3. CASE \E i \in 1..Len(s) : s[i] # Blank
    <2>1. PICK j \in 1..Len(s) : ini_lskip(s) = SubSeq(s, j, Len(s))
      BY <1>3, LskipHas
    <2>2. j \in 1..(Len(s) + 1)
      BY <1>0
    <2> QED
      BY <1>1, <2>1, <2>2, SuffixIs
  <1> QED
    BY <1>2, <1>3

(* A line that does not start with a blank only loses the blanks at its end. *)
LEMMA StrippedPrefix ==
    ASSUME NEW s \in Line, s # <<>>, s[1] # Blank
    PROVE  \E k \in 1..Len(s) : /\ Stripped(s) = SubSeq(s, 1, k)
                                /\ s[k] # Blank
                                /\ \A i \in (k + 1)..Len(s) : s[i] = Blank
  <1>0. Len(s) \in Nat \ {0} /\ 1 \in 1..Len(s)
    BY EmptyLine
  <1>1. ini_lskip(s) = SubSeq(s, 1, Len(s))
    BY <1>0, LskipIs
  <1>2. ini_lskip(s) = s
    BY <1>1, WholeIs DEF Line
  <1>3. PICK k \in 0..Len(s) : /\ ini_rstrip(s) = SubSeq(s, 1, k)
                               /\ k = 0 \/ s[k] # Blank
                               /\ \A i \in (k + 1)..Len(s) : s[i] = Blank
    BY RstripHas
  <1>4. k # 0
    BY <1>0, <1>3
  <1>5. k \in 1..Len(s)
    BY <1>0, <1>4
  <1>6. Stripped(s) = SubSeq(s, 1, k)
    <2>1. ini_rstrip(s) = SubSeq(s, 1, k)
      BY <1>3
    <2>2. Stripped(s) = ini_rstrip(s)
      BY <1>2 DEF Stripped
    <2> QED
      BY <2>1, <2>2
  <1>7. s[k] # Blank /\ \A i \in (k + 1)..Len(s) : s[i] = Blank
    BY <1>3, <1>4
  <1> QED
    BY <1>5, <1>6, <1>7

(* A stripped line is empty, or has no blank at either end.                *)
LEMMA StrippedIs ==
    ASSUME NEW s \in Line
    PROVE  /\ Stripped(s) \in Line
           /\ Stripped(s) # <<>> => /\ Stripped(s)[1] # Blank
                                    /\ Stripped(s)[Len(Stripped(s))] # Blank
  <1>0. Len(s) \in Nat
    BY FilledIn
  <1>1. Stripped(s) \in Line
    BY StrippedTypes DEF Stripped
  <1>2. CASE \A i \in 1..Len(s) : s[i] = Blank
    <2>1. ini_lskip(s) = <<>>
      BY <1>2, LskipBlank
    <2>2. PICK k \in 0..Len(<<>>) : ini_rstrip(<<>>) = SubSeq(<<>>, 1, k)
      BY EmptyLine, RstripHas
    <2>3. Len(Stripped(s)) = 0
      BY <2>1, <2>2, EmptyLine, PrefixIs DEF Stripped
    <2> QED
      BY <1>1, <2>3, EmptyLine
  <1>3. CASE \E i \in 1..Len(s) : s[i] # Blank
    <2>1. PICK j \in 1..Len(s) : ini_lskip(s) = SubSeq(s, j, Len(s)) /\ s[j] # Blank
      BY <1>3, LskipHas
    <2> DEFINE t == SubSeq(s, j, Len(s))
    <2>2. j \in 1..(Len(s) + 1) /\ 1 \in 1..(Len(s) - j + 1) /\ j + 1 - 1 = j
      BY <1>0
    <2>3. t \in Line /\ Len(t) = Len(s) - j + 1 /\ t[1] = s[j]
      BY <2>2, SuffixIs
    <2> HIDE DEF t
    <2>4. t # <<>> /\ t[1] # Blank
      BY <1>0, <2>1, <2>2, <2>3, EmptyLine
    <2>5. PICK k \in 1..Len(t) : Stripped(t) = SubSeq(t, 1, k) /\ t[k] # Blank
      BY <2>3, <2>4, StrippedPrefix
    <2>6. /\ Len(Stripped(t)) = k /\ k \in 0..Len(t) /\ k \in 1..k /\ 1 \in 1..k
          /\ Stripped(t)[k] = t[k] /\ Stripped(t)[1] = t[1]
      <3>1. k \in 0..Len(t) /\ k \in 1..k /\ 1 \in 1..k
        BY <2>3, FilledIn
      <3> QED
        BY <2>3, <2>5, <3>1, PrefixIs
    <2>7. Stripped(s) = Stripped(t)
      <3>1. ini_lskip(t) = SubSeq(t, 1, Len(t))
        BY <2>3, <2>4, LskipIs, EmptyLine
      <3>2. ini_lskip(t) = t
        BY <2>3, <3>1, WholeIs DEF Line
      <3> QED
        BY <2>1, <3>2 DEF Stripped, t
    <2> QED
      BY <1>1, <2>4, <2>5, <2>6, <2>7
  <1> QED
    BY <1>2, <1>3

(* What is stripped already stays as it is.                                *)
LEMMA StrippedAgain ==
    ASSUME NEW s \in Line, s # <<>>, s[1] # Blank, s[Len(s)] # Blank
    PROVE  Stripped(s) = s /\ ini_rstrip(s) = s /\ ini_lskip(s) = s
  <1>0. Len(s) \in Nat \ {0} /\ 1 \in 1..Len(s) /\ Len(s) \in 0..Len(s)
    BY EmptyLine
  <1>1. ini_lskip(s) = SubSeq(s, 1, Len(s))
    BY <1>0, LskipIs
  <1>2. ini_rstrip(s) = SubSeq(s, 1, Len(s))
    BY <1>0, RstripIs
  <1>3. SubSeq(s, 1, Len(s)) = s
    BY WholeIs DEF Line
  <1> QED
    BY Zenon, <1>1, <1>2, <1>3 DEF Stripped

(* The parts of a line name[=:]value are lines.                            *)
LEMMA FindTypes ==
    ASSUME NEW s \in Line
    PROVE  /\ SignAt(s) \in 1..(Len(s) + 1)
           /\ NameOf(s) \in Line
           /\ Uncommented(s) \in Line
           /\ HasSign(s) => ValueOf(s) \in Line
  <1>0. Len(s) \in Nat
    BY FilledIn
  <1>1. SignAt(s) \in 1..(Len(s) + 1)
    BY FindHas DEF SignAt
  <1>2. NameOf(s) \in Line
    BY <1>1, BeforeIs, StrippedTypes DEF NameOf
  <1>3. \A t \in Line : Uncommented(t) \in Line
    BY FindHas, BeforeIs DEF Uncommented
  <1>4. HasSign(s) => ValueOf(s) \in Line
    <2> SUFFICES ASSUME HasSign(s) PROVE ValueOf(s) \in Line
      OBVIOUS
    <2>1. SignAt(s) \in 0..Len(s)
      BY <1>0, <1>1 DEF HasSign
    <2>2. After(s, SignAt(s)) \in Line
      BY <2>1, AfterIs
    <2> QED
      BY <1>3, <2>2, StrippedTypes DEF ValueOf
  <1> QED
    BY <1>1, <1>2, <1>3, <1>4

(* fgets leaves the line in the buffer, or as much of it as fits.          *)
LEMMA BufferIs ==
    ASSUME NEW line \in Line
    PROVE  /\ Buffer(line) \in Line
           /\ ~TooLong(line) => Buffer(line) = line
           /\ TooLong(line) /\ INI_MAX_LINE > 0 => Buffer(line) = SubSeq(line, 1, INI_MAX_LINE - 1)
  <1>0. Len(line) \in Nat /\ INI_MAX_LINE \in Nat
    BY FilledIn, ConfigAssumption
  <1>1. CASE ~TooLong(line)
    <2>1. Lowest({Len(line), INI_MAX_LINE - 1}) = Len(line)
      BY <1>0, <1>1 DEF Lowest, TooLong
    <2>2. SubSeq(line, 1, Len(line)) = line
      BY WholeIs DEF Line
    <2> QED
      BY Zenon, <1>1, <2>1, <2>2 DEF Buffer
  <1>2. CASE TooLong(line) /\ INI_MAX_LINE > 0
    <2>1. Lowest({Len(line), INI_MAX_LINE - 1}) = INI_MAX_LINE - 1
      BY <1>0, <1>2 DEF Lowest, TooLong
    <2>2. INI_MAX_LINE - 1 \in 0..Len(line)
      BY <1>0, <1>2 DEF TooLong
    <2> QED
      BY Zenon, <1>2, <2>1, <2>2, PrefixIs DEF Buffer
  <1>3. CASE TooLong(line) /\ ~(INI_MAX_LINE > 0)
    <2>1. Lowest({Len(line), INI_MAX_LINE - 1}) = 0 - 1
      BY <1>0, <1>3 DEF Lowest, TooLong
    <2>2. SubSeq(line, 1, 0 - 1) = <<>>
      BY NoPart
    <2> QED
      BY Zenon, <1>3, <2>1, <2>2, EmptyLine DEF Buffer
  <1> QED
    BY <1>1, <1>2, <1>3

(* What is parsed of a line is a line without a blank at its start; the    *)
(* byte order mark makes a difference in the first line only.              *)
LEMMA TextTypes ==
    ASSUME NEW n, NEW buffer \in Line
    PROVE  /\ Text(n, buffer) \in Line
           /\ n # 1 => Text(n, buffer) = Stripped(buffer)
           /\ Text(n, buffer) # <<>> => Text(n, buffer)[1] # Blank
  <1>1. CASE n = 1 /\ buffer # <<>> /\ buffer[1] = "BOM"
    <2>1. Tail(buffer) \in Line
      BY <1>1, HeadTailAre DEF Line
    <2>2. Text(n, buffer) = Stripped(Tail(buffer))
      BY <1>1 DEF Text, Stripped
    <2> QED
      BY <1>1, <2>1, <2>2, StrippedIs
  <1>2. CASE ~(n = 1 /\ buffer # <<>> /\ buffer[1] = "BOM")
    <2>1. Text(n, buffer) = Stripped(buffer)
      BY <1>2 DEF Text, Stripped
    <2> QED
      BY <2>1, StrippedIs
  <1> QED
    BY <1>1, <1>2

------------------------------------------------------------------------------
(* The state of the parser *)

(* The state of the parser before the first line.                          *)
StartState ==
    [section |-> <<>>, prev_name |-> <<>>, lineno |-> 0, error |-> 0, cfg |-> Defaults]

(* The state after a line is what ParseLine makes of the state before it.  *)
LEMMA ParserSteps ==
    ASSUME NEW lines, Len(lines) \in Nat
    PROVE  /\ Parser(lines)[0] = StartState
           /\ \A n \in 1..Len(lines) : Parser(lines)[n] = ParseLine(Parser(lines)[n - 1], lines[n])
  <1> DEFINE E(g, n) == IF n = 0 THEN StartState ELSE ParseLine(g[n - 1], lines[n])
             G(m) == \E g : g = [n \in 0..m |-> E(g, n)]
             S == {m \in Nat : G(m)}
  <1>1. 0 \in S
    <2>1. [n \in 0..0 |-> StartState] = [n \in 0..0 |-> E([k \in 0..0 |-> StartState], n)]
      OBVIOUS
    <2> QED
      BY Zenon, <2>1
  <1>2. ASSUME NEW m \in Nat, m \in S
        PROVE  m + 1 \in S
    <2>1. PICK g : g = [n \in 0..m |-> E(g, n)]
      BY <1>2
    <2> DEFINE h == [n \in 0..(m + 1) |-> IF n = m + 1 THEN ParseLine(g[m], lines[m + 1]) ELSE g[n]]
    <2>2. \A n \in 0..(m + 1) : h[n] = E(h, n)
      <3> TAKE n \in 0..(m + 1)
      <3>1. CASE n = m + 1
        <4>1. h[n - 1] = g[m]
          BY <3>1
        <4> QED
          BY <3>1, <4>1
      <3>2. CASE n # m + 1
        <4>1. h[n] = g[n] /\ n \in 0..m
          BY <3>2
        <4>2. g[n] = E(g, n)
          BY <2>1, <4>1
        <4>3. n # 0 => n - 1 \in 0..(m + 1) /\ n - 1 # m + 1 /\ h[n - 1] = g[n - 1]
          BY <3>2
        <4> QED
          BY <4>1, <4>2, <4>3
      <3> QED
        BY <3>1, <3>2
    <2>3. h = [n \in 0..(m + 1) |-> E(h, n)]
      <3>1. h = [n \in 0..(m + 1) |-> h[n]]
        OBVIOUS
      <3> HIDE DEF h, E
      <3> QED
        BY <2>2, <3>1
    <2>4. G(m + 1)
      <3> HIDE DEF h
      <3> QED BY <2>3
    <2> QED
      BY <2>4
  <1>3. G(Len(lines))
    <2> HIDE DEF S
    <2>1. Nat \subseteq S
      BY <1>1, <1>2, NatInductive
    <2> QED
      BY <2>1 DEF S
  <1>4. Parser(lines) = [n \in 0..Len(lines) |-> E(Parser(lines), n)]
    <2>1. Parser(lines) = CHOOSE g : g = [n \in 0..Len(lines) |-> E(g, n)]
      BY DEF Parser, StartState
    <2> QED
      BY <1>3, <2>1
  <1>5. \A n \in 0..Len(lines) : Parser(lines)[n] = E(Parser(lines), n)
    <2> HIDE DEF E
    <2> QED BY <1>4
  <1> QED
    BY <1>5

(* A state of the parser, as far as the proofs need it.                    *)
IsState(p) ==
    /\ DOMAIN p = {"section", "prev_name", "lineno", "error", "cfg"}
    /\ DOMAIN p.cfg = {"port", "seed_nodes"}
    /\ p.section \in Line /\ p.prev_name \in Line /\ p.lineno \in Nat

(* The parts of the state that decide what the rest of the file means.     *)
Same(p, q) == p.section = q.section /\ p.prev_name = q.prev_name /\ p.cfg = q.cfg

(* A line in error changes nothing but the error.                          *)
LEMMA FailIs ==
    ASSUME NEW p, IsState(p)
    PROVE  IsState(Fail(p)) /\ Same(Fail(p), p) /\ Fail(p).lineno = p.lineno
  BY DEF IsState, Same, Fail

(* The handler sets the port or the seeds, and leaves the other alone.     *)
LEMMA HandlerIs ==
    ASSUME NEW cfg, DOMAIN cfg = {"port", "seed_nodes"}, NEW name, NEW value
    PROVE  /\ DOMAIN handler(cfg, name, value) = {"port", "seed_nodes"}
           /\ handler(cfg, name, value).port =
                  IF name = <<"PORT">> THEN atoi(value) ELSE cfg.port
           /\ handler(cfg, name, value).seed_nodes =
                  IF name = <<"PORT">> THEN cfg.seed_nodes ELSE seed_nodes(value)
  BY DEF handler

(* CallHandler changes at most the configuration and the error.            *)
LEMMA CallHandlerIs ==
    ASSUME NEW p, IsState(p), NEW name, NEW value
    PROVE  LET r == CallHandler(p, name, value)
           IN  /\ IsState(r) /\ r.section = p.section /\ r.prev_name = p.prev_name
               /\ r.lineno = p.lineno
               /\ r.cfg = IF Known(p.section, name) THEN handler(p.cfg, name, value) ELSE p.cfg
  <1>1. CASE Known(p.section, name)
    <2>1. DOMAIN handler(p.cfg, name, value) = {"port", "seed_nodes"}
      BY HandlerIs DEF IsState
    <2> DEFINE c == handler(p.cfg, name, value)
    <2>2. CallHandler(p, name, value) = [p EXCEPT !.cfg = c]
      BY <1>1 DEF CallHandler
    <2> HIDE DEF c
    <2>3. [p EXCEPT !.cfg = c].cfg = c
      BY DEF IsState
    <2>4. IsState([p EXCEPT !.cfg = c])
      BY <2>1 DEF IsState, c
    <2> QED
      BY <1>1, <2>1, <2>2, <2>3, <2>4 DEF IsState, c
  <1>2. CASE ~Known(p.section, name)
    <2>1. CallHandler(p, name, value) = Fail(p)
      BY <1>2 DEF CallHandler
    <2> QED
      BY <1>2, <2>1, FailIs DEF Same
  <1> QED
    BY <1>1, <1>2

(* The end of a section's name, in the text after the bracket.             *)
Bracket(text) == ini_find_chars_or_comment(Tail(text), {"]"})
Closed(text) == Bracket(text) <= Len(Tail(text)) /\ Tail(text)[Bracket(text)] = "]"

(* What Section does to the state: a bracket that is closed sets the       *)
(* section and forgets the name, one that is not changes nothing.          *)
LEMMA SectionIs ==
    ASSUME NEW p, IsState(p), NEW text \in Line, text # <<>>
    PROVE  LET r == Section(p, text)
           IN  /\ IsState(r) /\ r.lineno = p.lineno /\ r.cfg = p.cfg
               /\ r.section = IF Closed(text) THEN Before(Tail(text), Bracket(text))
                                              ELSE p.section
               /\ r.prev_name = IF Closed(text) THEN <<>> ELSE p.prev_name
  <1>0. Tail(text) \in Line
    BY HeadTailAre DEF Line
  <1>1. CASE Closed(text)
    <2> DEFINE name == Before(Tail(text), Bracket(text))
    <2>1. name \in Line
      BY <1>0, FindHas, BeforeIs DEF Bracket
    <2>2. Section(p, text) = [p EXCEPT !.section = name, !.prev_name = <<>>]
      BY <1>1 DEF Section, Closed, Bracket
    <2> HIDE DEF name
    <2>3. IsState([p EXCEPT !.section = name, !.prev_name = <<>>])
      BY <2>1, EmptyLine DEF IsState
    <2> QED
      BY <1>1, <2>2, <2>3 DEF IsState, name
  <1>2. CASE ~Closed(text)
    <2>1. Section(p, text) = Fail(p)
      BY Zenon, <1>2 DEF Section, Closed, Bracket
    <2> QED
      BY <1>2, <2>1, FailIs DEF Same
  <1> QED
    BY <1>1, <1>2

(* What Pair does to the state: a line without a sign changes nothing.     *)
LEMMA PairIs ==
    ASSUME NEW p, IsState(p), NEW text \in Line
    PROVE  LET r == Pair(p, text)
           IN  /\ IsState(r) /\ r.lineno = p.lineno /\ r.section = p.section
               /\ r.prev_name = IF HasSign(text) THEN NameOf(text) ELSE p.prev_name
               /\ r.cfg = IF HasSign(text) /\ Known(p.section, NameOf(text))
                          THEN handler(p.cfg, NameOf(text), ValueOf(text)) ELSE p.cfg
  <1>1. CASE HasSign(text)
    <2> DEFINE name == NameOf(text)
               q == [p EXCEPT !.prev_name = name]
    <2>1. name \in Line
      BY FindTypes
    <2> HIDE DEF name
    <2>2. /\ IsState(q) /\ q.prev_name = name /\ q.section = p.section
          /\ q.lineno = p.lineno /\ q.cfg = p.cfg
      BY <2>1 DEF IsState
    <2>3. Pair(p, text) = CallHandler(q, name, ValueOf(text))
      BY <1>1 DEF Pair, name
    <2> HIDE DEF q
    <2> QED
      BY <1>1, <2>2, <2>3, CallHandlerIs DEF name
  <1>2. CASE ~HasSign(text)
    <2>1. Pair(p, text) = Fail(p)
      BY <1>2 DEF Pair
    <2> QED
      BY <1>2, <2>1, FailIs DEF Same
  <1> QED
    BY <1>1, <1>2

(* Which of its cases ParseText takes.                                     *)
Ignored(text) == text = <<>> \/ text[1] \in {Semicolon, "#"}
Continues(p, indented) == p.prev_name # <<>> /\ indented

(* Each of the cases of ParseText.                                         *)
LEMMA ParseTextCases ==
    ASSUME NEW p, NEW indented, NEW text
    PROVE  /\ Ignored(text) => ParseText(p, indented, text) = p
           /\ ~Ignored(text) /\ Continues(p, indented) =>
                  ParseText(p, indented, text) = Continue(p, text)
           /\ ~Ignored(text) /\ ~Continues(p, indented) /\ text[1] = "[" =>
                  ParseText(p, indented, text) = Section(p, text)
           /\ ~Ignored(text) /\ ~Continues(p, indented) /\ text[1] # "[" =>
                  ParseText(p, indented, text) = Pair(p, text)
  BY DEF ParseText, Ignored, Continues

(* ParseText looks at nothing but the section, the name and cfg.           *)
LEMMA ParseTextIs ==
    ASSUME NEW p, IsState(p), NEW indented, NEW text \in Line
    PROVE  /\ IsState(ParseText(p, indented, text))
           /\ ParseText(p, indented, text).lineno = p.lineno
           /\ \A q : IsState(q) /\ Same(p, q) =>
                  Same(ParseText(p, indented, text), ParseText(q, indented, text))
  <1>1. CASE Ignored(text)
    BY <1>1, ParseTextCases
  <1>2. CASE ~Ignored(text) /\ Continues(p, indented)
    <2>1. /\ IsState(Continue(p, text)) /\ Continue(p, text).lineno = p.lineno
      BY CallHandlerIs DEF Continue
    <2>2. ASSUME NEW q, IsState(q), Same(p, q)
          PROVE  Same(Continue(p, text), Continue(q, text)) /\ Continues(q, indented)
      <3>1. Continues(q, indented)
        BY <1>2, <2>2 DEF Continues, Same
      <3> DEFINE v == ini_rstrip(Uncommented(text))
      <3>2. /\ Continue(p, text) = CallHandler(p, p.prev_name, v)
            /\ Continue(q, text) = CallHandler(q, p.prev_name, v)
        BY <2>2 DEF Continue, Same
      <3> HIDE DEF v
      <3> QED
        BY <2>2, <3>1, <3>2, CallHandlerIs DEF Same
    <2> QED
      BY <1>2, <2>1, <2>2, ParseTextCases
  <1>3. CASE ~Ignored(text) /\ ~Continues(p, indented) /\ text[1] = "["
    <2>0. text # <<>>
      BY <1>3 DEF Ignored
    <2>1. /\ IsState(Section(p, text)) /\ Section(p, text).lineno = p.lineno
      BY <2>0, SectionIs
    <2>2. ASSUME NEW q, IsState(q), Same(p, q)
          PROVE  Same(Section(p, text), Section(q, text)) /\ ~Continues(q, indented)
      <3>1. ~Continues(q, indented)
        BY <1>3, <2>2 DEF Continues, Same
      <3> QED
        BY <2>0, <2>2, <3>1, SectionIs DEF Same
    <2> QED
      BY <1>3, <2>1, <2>2, ParseTextCases
  <1>4. CASE ~Ignored(text) /\ ~Continues(p, indented) /\ text[1] # "["
    <2>1. /\ IsState(Pair(p, text)) /\ Pair(p, text).lineno = p.lineno
      BY PairIs
    <2>2. ASSUME NEW q, IsState(q), Same(p, q)
          PROVE  Same(Pair(p, text), Pair(q, text)) /\ ~Continues(q, indented)
      <3>1. ~Continues(q, indented)
        BY <1>4, <2>2 DEF Continues, Same
      <3> QED
        BY <2>2, <3>1, PairIs DEF Same
    <2> QED
      BY <1>4, <2>1, <2>2, ParseTextCases
  <1> QED
    BY <1>1, <1>2, <1>3, <1>4

(* ParseLine counts the line and does to the rest of the state what        *)
(* ParseText does.                                                         *)
LEMMA ParseLineIs ==
    ASSUME NEW p, IsState(p), NEW line \in Line
    PROVE  /\ IsState(ParseLine(p, line))
           /\ ParseLine(p, line).lineno = p.lineno + 1
           /\ Same(ParseLine(p, line),
                   ParseText(p, Indented(Buffer(line)), Text(p.lineno + 1, Buffer(line))))
  <1> DEFINE a == [p EXCEPT !.lineno = p.lineno + 1]
             q == IF TooLong(line) THEN Fail(a) ELSE a
             ind == Indented(Buffer(line))
             text == Text(p.lineno + 1, Buffer(line))
  <1>1. IsState(a) /\ Same(a, p) /\ a.lineno = p.lineno + 1
    BY DEF IsState, Same
  <1>2. IsState(q) /\ Same(q, p) /\ q.lineno = p.lineno + 1
    <2> HIDE DEF a
    <2> QED BY <1>1, FailIs DEF Same
  <1>3. text \in Line
    BY BufferIs, TextTypes
  <1>4. ParseLine(p, line) = ParseText(q, Indented(Buffer(line)), Text(q.lineno, Buffer(line)))
    BY DEF ParseLine
  <1>5. ParseLine(p, line) = ParseText(q, ind, text)
    <2> HIDE DEF q
    <2> QED BY <1>2, <1>4
  <1> HIDE DEF q, ind, text
  <1>6. Same(ParseLine(p, line), ParseText(p, ind, text))
    BY <1>2, <1>3, <1>5, ParseTextIs
  <1> QED
    BY <1>2, <1>3, <1>5, <1>6, ParseTextIs DEF ind, text

(* After n lines the state is a state, and its line number is n.           *)
LEMMA ParserStates ==
    ASSUME NEW lines \in Seq(Line)
    PROVE  \A n \in 0..Len(lines) : IsState(Parser(lines)[n]) /\ Parser(lines)[n].lineno = n
  <1> DEFINE P(n) == IsState(Parser(lines)[n]) /\ Parser(lines)[n].lineno = n
             S == {n \in Nat : n <= Len(lines) => P(n)}
  <1>0. Len(lines) \in Nat /\ \A n \in 1..Len(lines) : lines[n] \in Line
    BY LengthIs, ElementIn
  <1>1. 0 \in S
    BY <1>0, ParserSteps, EmptyLine DEF StartState, IsState, Defaults
  <1>2. ASSUME NEW n \in Nat, n \in S
        PROVE  n + 1 \in S
    <2> SUFFICES ASSUME n + 1 <= Len(lines)
                 PROVE  P(n + 1)
      OBVIOUS
    <2>1. n + 1 \in 1..Len(lines) /\ n <= Len(lines) /\ (n + 1) - 1 = n
      BY <1>0
    <2>2. P(n)
      BY <1>2, <2>1
    <2>3. Parser(lines)[n + 1] = ParseLine(Parser(lines)[n], lines[n + 1])
      BY <1>0, <2>1, ParserSteps
    <2> QED
      BY <1>0, <2>1, <2>2, <2>3, ParseLineIs
  <1>3. Nat \subseteq S
    <2> HIDE DEF S
    <2> QED BY <1>1, <1>2, NatInductive
  <1> QED
    BY <1>0, <1>3

(* Files that start with the same lines are in the same state after them.  *)
LEMMA SameStart ==
    ASSUME NEW f \in Seq(Line), NEW g \in Seq(Line), NEW m \in Nat, m <= Len(f), m <= Len(g),
           \A n \in 1..m : f[n] = g[n]
    PROVE  \A n \in 0..m : Parser(f)[n] = Parser(g)[n]
  <1> DEFINE S == {n \in Nat : n <= m => Parser(f)[n] = Parser(g)[n]}
  <1>0. Len(f) \in Nat /\ Len(g) \in Nat
    BY LengthIs
  <1>1. 0 \in S
    BY <1>0, ParserSteps
  <1>2. ASSUME NEW n \in Nat, n \in S
        PROVE  n + 1 \in S
    <2> SUFFICES ASSUME n + 1 <= m
                 PROVE  Parser(f)[n + 1] = Parser(g)[n + 1]
      OBVIOUS
    <2>1. /\ n + 1 \in 1..Len(f) /\ n + 1 \in 1..Len(g) /\ n + 1 \in 1..m
          /\ n <= m /\ (n + 1) - 1 = n
      BY <1>0
    <2>2. Parser(f)[n] = Parser(g)[n]
      BY <1>2, <2>1
    <2>3. Parser(f)[n + 1] = ParseLine(Parser(f)[n], f[n + 1])
      BY <1>0, <2>1, ParserSteps
    <2>4. Parser(g)[n + 1] = ParseLine(Parser(g)[n], g[n + 1])
      BY <1>0, <2>1, ParserSteps
    <2> QED
      BY <2>1, <2>2, <2>3, <2>4
  <1>3. Nat \subseteq S
    <2> HIDE DEF S
    <2> QED BY <1>1, <1>2, NatInductive
  <1> QED
    BY <1>3

(* ini_parse_stream of the first lines is the state after them.            *)
LEMMA StateBefore ==
    ASSUME NEW f \in Seq(Line), NEW m \in 0..Len(f)
    PROVE  SubSeq(f, 1, m) \in Seq(Line) /\ ini_parse_stream(SubSeq(f, 1, m)) = Parser(f)[m]
  <1>0. Len(f) \in Nat /\ m \in Nat /\ m <= Len(f) /\ \A n \in 1..m : f[n] \in Line
    BY LengthIs, ElementIn
  <1> DEFINE g == SubSeq(f, 1, m)
  <1>1. g \in Seq(Line) /\ Len(g) = m /\ \A n \in 1..m : g[n] = f[n]
    BY <1>0, PartIs
  <1> HIDE DEF g
  <1>2. \A n \in 0..m : Parser(f)[n] = Parser(g)[n]
    BY <1>0, <1>1, SameStart
  <1>3. ini_parse_stream(g) = Parser(f)[m]
    BY <1>0, <1>1, <1>2 DEF ini_parse_stream
  <1> QED
    BY <1>1, <1>3 DEF g

(* Lines after the first mean the same in states that are the same.        *)
LEMMA SameLineAfter ==
    ASSUME NEW p, NEW q, IsState(p), IsState(q), Same(p, q), p.lineno # 0, q.lineno # 0,
           NEW line \in Line
    PROVE  Same(ParseLine(p, line), ParseLine(q, line))
  <1> DEFINE ind == Indented(Buffer(line))
             text == Stripped(Buffer(line))
  <1>1. p.lineno + 1 # 1 /\ q.lineno + 1 # 1
    BY DEF IsState
  <1>2. text \in Line
    BY BufferIs, StrippedIs
  <1>3. Text(p.lineno + 1, Buffer(line)) = text /\ Text(q.lineno + 1, Buffer(line)) = text
    BY <1>1, BufferIs, TextTypes
  <1>4. Same(ParseLine(p, line), ParseText(p, ind, text))
    BY <1>3, ParseLineIs
  <1>5. Same(ParseLine(q, line), ParseText(q, ind, text))
    BY <1>3, ParseLineIs
  <1> HIDE DEF ind, text
  <1>6. Same(ParseText(p, ind, text), ParseText(q, ind, text))
    BY <1>2, ParseTextIs
  <1> QED
    BY <1>4, <1>5, <1>6 DEF Same

(* Files that end with the same lines, after states that are the same.     *)
LEMMA SameEnd ==
    ASSUME NEW f \in Seq(Line), NEW g \in Seq(Line), NEW a \in 1..Len(f), NEW b \in 1..Len(g),
           Len(f) - a = Len(g) - b, Same(Parser(f)[a], Parser(g)[b]),
           \A n \in 1..(Len(f) - a) : f[a + n] = g[b + n]
    PROVE  process_args(f) = process_args(g)
  <1> DEFINE S == {n \in Nat : n <= Len(f) - a => Same(Parser(f)[a + n], Parser(g)[b + n])}
  <1>0. Len(f) \in Nat /\ Len(g) \in Nat /\ a \in Nat /\ b \in Nat
    BY LengthIs
  <1>1. 0 \in S
    <2>1. a + 0 = a /\ b + 0 = b
      BY <1>0
    <2> QED BY <2>1
  <1>2. ASSUME NEW n \in Nat, n \in S
        PROVE  n + 1 \in S
    <2> SUFFICES ASSUME n + 1 <= Len(f) - a
                 PROVE  Same(Parser(f)[a + (n + 1)], Parser(g)[b + (n + 1)])
      OBVIOUS
    <2>1. /\ a + (n + 1) \in 1..Len(f) /\ b + (n + 1) \in 1..Len(g)
          /\ a + n \in 0..Len(f) /\ b + n \in 0..Len(g) /\ a + n # 0 /\ b + n # 0
          /\ n <= Len(f) - a /\ n + 1 \in 1..(Len(f) - a)
          /\ (a + (n + 1)) - 1 = a + n /\ (b + (n + 1)) - 1 = b + n
      BY <1>0
    <2> DEFINE p == Parser(f)[a + n]
               q == Parser(g)[b + n]
               line == f[a + (n + 1)]
    <2>2. Same(p, q)
      BY <1>2, <2>1
    <2>3. IsState(p) /\ IsState(q) /\ p.lineno # 0 /\ q.lineno # 0
      BY <2>1, ParserStates
    <2>4. line \in Line /\ g[b + (n + 1)] = line
      BY Zenon, <2>1, ElementIn
    <2>5. Parser(f)[a + (n + 1)] = ParseLine(p, line)
      BY <1>0, <2>1, ParserSteps
    <2>6. Parser(g)[b + (n + 1)] = ParseLine(q, line)
      BY <1>0, <2>1, <2>4, ParserSteps
    <2> HIDE DEF p, q, line
    <2> QED
      BY <2>2, <2>3, <2>4, <2>5, <2>6, SameLineAfter
  <1>3. Nat \subseteq S
    <2> HIDE DEF S
    <2> QED BY Zenon, <1>1, <1>2, NatInductive
  <1> DEFINE n == Len(f) - a
  <1>4. n \in Nat /\ n <= Len(f) - a /\ a + n = Len(f) /\ b + n = Len(g)
    BY <1>0
  <1> HIDE DEF n
  <1>5. Same(Parser(f)[a + n], Parser(g)[b + n])
    BY <1>3, <1>4
  <1> QED
    BY Zenon, <1>4, <1>5 DEF process_args, ini_parse_stream, Same

------------------------------------------------------------------------------
(* Skipped lines *)

(* A line that is a comment, a section that is not closed, or that has no  *)
(* sign.                                                                   *)
Skipped(line) ==
    \/ Comment(line)
    \/ line[1] = "[" /\ ~SectionText(Stripped(line))
    \/ line[1] \notin {Blank, "["} /\ Places(line, {"=", ":"}) = {}

(* The lexemes that the parser looks for are different ones.               *)
LEMMA Characters ==
    /\ Blank # Semicolon /\ Blank # "#" /\ Blank # "[" /\ Blank # "]" /\ Blank # "="
    /\ Blank # ":" /\ Semicolon # "[" /\ Semicolon # "=" /\ Semicolon # "]" /\ Semicolon # ":"
  <1>1. Blank # Semicolon /\ Blank # "#" /\ Blank # "[" /\ Blank # "]" /\ Blank # "="
    BY DEF Blank, Semicolon
  <1>2. /\ Blank # ":" /\ Semicolon # "[" /\ Semicolon # "=" /\ Semicolon # "]"
        /\ Semicolon # ":"
    BY DEF Blank, Semicolon
  <1> QED
    BY <1>1, <1>2

(* SectionText says of a text what Section finds out.                      *)
LEMMA SectionTextIs ==
    ASSUME NEW text \in Line, text # <<>>, text[1] = "["
    PROVE  SectionText(text) <=> Closed(text)
  <1> DEFINE t == Tail(text)
             e == Bracket(text)
  <1>0. Len(text) \in Nat /\ t \in Line /\ Len(t) = Len(text) - 1 /\ Len(text) # 0
        /\ \A i \in 1..Len(t) : t[i] = text[i + 1]
    BY HeadTailAre, LengthIs, EmptyLine DEF Line
  <1> HIDE DEF t
  <1>1. /\ e \in 1..(Len(t) + 1)
        /\ \A i \in 1..(e - 1) : ~Stop(t, {"]"}, i)
        /\ e <= Len(t) => Stop(t, {"]"}, e)
    BY Zenon, <1>0, FindHas DEF Bracket, t
  <1> HIDE DEF e
  <1>2. Closed(text) <=> (e <= Len(t) /\ t[e] = "]")
    BY DEF Closed, e, t
  <1>3. ASSUME Closed(text)
        PROVE  SectionText(text)
    <2>1. e + 1 \in 2..Len(text) /\ text[e + 1] = "]"
      BY <1>0, <1>1, <1>2, <1>3
    <2>2. \A j \in 3..(e + 1) : ~(text[j - 1] = Blank /\ text[j] = Semicolon)
      <3> TAKE j \in 3..(e + 1)
      <3>1. CASE j = e + 1
        BY <2>1, <3>1, Characters
      <3>2. CASE j # e + 1
        <4>1. j - 1 \in 1..(e - 1) /\ j - 2 \in 1..Len(t) /\ j - 1 \in 1..Len(t) /\ j - 1 > 1
              /\ (j - 1) - 1 = j - 2 /\ (j - 1) + 1 = j /\ (j - 2) + 1 = j - 1
          BY <1>0, <1>1, <3>2
        <4>2. ~(t[j - 2] = Blank /\ t[j - 1] = Semicolon)
          BY <1>1, <4>1 DEF Stop
        <4> QED
          BY <1>0, <4>1, <4>2
      <3> QED
        BY <3>1, <3>2
    <2> QED
      BY <2>1, <2>2 DEF SectionText
  <1>4. ASSUME SectionText(text)
        PROVE  Closed(text)
    <2>1. PICK k \in 2..Len(text) :
              /\ text[k] = "]"
              /\ \A j \in 3..k : ~(text[j - 1] = Blank /\ text[j] = Semicolon)
      BY <1>4 DEF SectionText
    <2>2. k - 1 \in 1..Len(t) /\ t[k - 1] = "]"
      BY <1>0, <2>1
    <2>3. Stop(t, {"]"}, k - 1)
      BY <2>2 DEF Stop
    <2>4. e <= k - 1 /\ e <= Len(t) /\ e \in 1..Len(t)
      BY <1>0, <1>1, <2>2, <2>3
    <2>5. Stop(t, {"]"}, e)
      BY <1>1, <2>4
    <2>6. ~(e > 1 /\ t[e - 1] = Blank /\ t[e] = Semicolon)
      <3> SUFFICES ASSUME e > 1, t[e - 1] = Blank, t[e] = Semicolon
                   PROVE  FALSE
        OBVIOUS
      <3>1. e + 1 \in 3..k /\ e - 1 \in 1..Len(t) /\ (e - 1) + 1 = e /\ (e + 1) - 1 = e
        BY <1>0, <2>4
      <3>2. text[e] = Blank /\ text[e + 1] = Semicolon
        BY <1>0, <2>4, <3>1
      <3> QED
        BY <2>1, <3>1, <3>2
    <2> QED
      BY <1>2, <2>4, <2>5, <2>6 DEF Stop
  <1> QED
    BY <1>3, <1>4

(* A skipped line changes nothing but the line number and the error.       *)
LEMMA SkippedIs ==
    ASSUME NEW p, IsState(p), p.lineno # 0, NEW line \in Line, ~TooLong(line), Skipped(line)
    PROVE  Same(ParseLine(p, line), p)
  <1> DEFINE text == Stripped(line)
             ind == Indented(line)
  <1>0. Len(line) \in Nat /\ p.lineno + 1 # 1
    BY FilledIn DEF IsState
  <1>1. Same(ParseLine(p, line), ParseText(p, ind, text)) /\ text \in Line
    <2>1. Buffer(line) = line
      BY BufferIs
    <2>2. Text(p.lineno + 1, line) = text /\ text \in Line
      BY <1>0, TextTypes, StrippedIs
    <2> QED
      BY <2>1, <2>2, ParseLineIs
  <1>2. Ignored(text) <=> Comment(line)
    BY DEF Ignored, Comment
  <1>3. CASE Comment(line)
    BY <1>1, <1>2, <1>3, ParseTextCases
  <1>4. CASE ~Comment(line)
    <2>0. text # <<>>
      BY <1>2, <1>4 DEF Ignored
    <2>1. line # <<>> /\ line[1] # Blank
      <3>1. line # <<>>
        <4> SUFFICES ASSUME line = <<>> PROVE FALSE
          OBVIOUS
        <4>1. \A i \in 1..Len(line) : line[i] = Blank
          BY EmptyLine
        <4>2. ini_lskip(line) = <<>>
          BY <4>1, LskipBlank
        <4>3. ini_rstrip(<<>>) = <<>>
          <5>1. PICK k \in 0..Len(<<>>) : ini_rstrip(<<>>) = SubSeq(<<>>, 1, k)
            BY EmptyLine, RstripHas
          <5>2. ini_rstrip(<<>>) \in Line /\ Len(ini_rstrip(<<>>)) = 0
            BY <5>1, EmptyLine, PrefixIs
          <5> QED BY <5>2, EmptyLine
        <4> QED
          BY <2>0, <4>2, <4>3 DEF Stripped
      <3>2. line[1] # Blank
        BY <1>4, Characters DEF Skipped
      <3> QED BY <3>1, <3>2
    <2>2. PICK k \in 1..Len(line) : text = SubSeq(line, 1, k) /\ line[k] # Blank
      BY <2>1, StrippedPrefix
    <2>3. k \in 0..Len(line) /\ Len(text) = k /\ \A i \in 1..k : text[i] = line[i]
      <3>1. k \in 0..Len(line)
        BY <1>0
      <3> QED BY <2>2, <3>1, PrefixIs
    <2>4. text[1] = line[1] /\ ~Ignored(text) /\ ~Continues(p, ind)
      <3>1. text[1] = line[1]
        BY <1>0, <2>3
      <3>2. ~ind
        BY <2>1 DEF Indented
      <3> QED
        BY <1>2, <1>4, <3>1, <3>2 DEF Continues
    <2> HIDE DEF text, ind
    <2>5. CASE line[1] = "["
      <3>1. ~SectionText(text)
        BY <1>4, <2>5 DEF Skipped, text
      <3>2. ~Closed(text)
        BY <1>1, <2>0, <2>4, <2>5, <3>1, SectionTextIs
      <3>3. ParseText(p, ind, text) = Section(p, text)
        BY <2>4, <2>5, ParseTextCases
      <3>4. Same(Section(p, text), p)
        BY <1>1, <2>0, <3>2, SectionIs DEF Same
      <3> QED
        BY <1>1, <3>3, <3>4 DEF Same
    <2>6. CASE line[1] # "["
      <3>1. Places(line, {"=", ":"}) = {}
        BY <1>4, <2>6 DEF Skipped
      <3>2. \A i \in 1..k : text[i] \notin {"=", ":"}
        BY <1>0, <2>3, <3>1 DEF Places
      <3>3. ~HasSign(text)
        <4>1. SignAt(text) \in 1..(Len(text) + 1)
          BY <1>1, FindTypes
        <4> QED
          BY <1>0, <2>3, <3>2, <4>1 DEF HasSign
      <3>4. ParseText(p, ind, text) = Pair(p, text)
        BY <2>4, <2>6, ParseTextCases
      <3>5. Same(Pair(p, text), p)
        BY <1>1, <3>3, PairIs DEF Same
      <3> QED
        BY <1>1, <3>4, <3>5 DEF Same
    <2> QED
      BY <2>5, <2>6
  <1> QED
    BY <1>3, <1>4

(* The lines of a file without its n-th.                                   *)
LEMMA WithoutLine ==
    ASSUME NEW f \in Seq(Line), NEW n \in 1..Len(f)
    PROVE  /\ Before(f, n) \o After(f, n) \in Seq(Line)
           /\ Len(Before(f, n) \o After(f, n)) = Len(f) - 1
           /\ \A i \in 1..(n - 1) : (Before(f, n) \o After(f, n))[i] = f[i]
           /\ \A i \in n..(Len(f) - 1) : (Before(f, n) \o After(f, n))[i] = f[i + 1]
  <1> DEFINE a == SubSeq(f, 1, n - 1)
             b == SubSeq(f, n + 1, Len(f))
  <1>0. Len(f) \in Nat /\ \A i \in 1..Len(f) : f[i] \in Line
    BY LengthIs, ElementIn
  <1>1. a \in Seq(Line) /\ Len(a) = n - 1 /\ \A i \in 1..(n - 1) : a[i] = f[i]
    <2>1. n - 1 \in Int /\ 1 \in Int /\ \A i \in 1..(n - 1) : f[i] \in Line
      BY <1>0
    <2>2. /\ a \in Seq(Line) /\ Len(a) = IF 1 <= n - 1 THEN n - 1 - 1 + 1 ELSE 0
          /\ \A i \in 1..(n - 1 - 1 + 1) : a[i] = f[1 + i - 1]
      BY <2>1, PartIs
    <2> QED
      BY <1>0, <2>2
  <1>2. b \in Seq(Line) /\ Len(b) = Len(f) - n /\ \A i \in 1..(Len(f) - n) : b[i] = f[n + i]
    <2>1. n + 1 \in Int /\ Len(f) \in Int /\ \A i \in (n + 1)..Len(f) : f[i] \in Line
      BY <1>0
    <2>2. /\ b \in Seq(Line) /\ Len(b) = IF n + 1 <= Len(f) THEN Len(f) - (n + 1) + 1 ELSE 0
          /\ \A i \in 1..(Len(f) - (n + 1) + 1) : b[i] = f[(n + 1) + i - 1]
      BY <2>1, PartIs
    <2> QED
      BY <1>0, <2>2
  <1>3. Before(f, n) \o After(f, n) = a \o b
    BY DEF Before, After
  <1> HIDE DEF a, b
  <1>4. /\ a \o b \in Seq(Line) /\ Len(a \o b) = Len(a) + Len(b)
        /\ \A i \in 1..(Len(a) + Len(b)) : (a \o b)[i] = IF i <= Len(a) THEN a[i] ELSE b[i - Len(a)]
    BY Zenon, <1>1, <1>2, JoinIs
  <1>5. \A i \in 1..(n - 1) : (a \o b)[i] = f[i]
    BY <1>0, <1>1, <1>2, <1>4
  <1>6. \A i \in n..(Len(f) - 1) : (a \o b)[i] = f[i + 1]
    <2> TAKE i \in n..(Len(f) - 1)
    <2>1. /\ i \in 1..(Len(a) + Len(b)) /\ ~(i <= Len(a)) /\ i - Len(a) \in 1..(Len(f) - n)
          /\ n + (i - Len(a)) = i + 1
      BY <1>0, <1>1, <1>2
    <2> QED
      BY Zenon, <1>2, <1>4, <2>1
  <1>7. Len(a \o b) = Len(f) - 1
    BY <1>0, <1>1, <1>2, <1>4
  <1> QED
    BY <1>3, <1>4, <1>5, <1>6, <1>7

(* SkippedLines: a line that is skipped can be left out. process_args      *)
(* gives the same configuration without it, for every file.                *)
THEOREM SkippedLinesHold ==
    ASSUME file \in Seq(Line)
    PROVE  SkippedLines
  <1> SUFFICES ASSUME NEW n \in Lines \ {1}, ~TooLong(file[n]), Skipped(file[n])
               PROVE  process_args(file) = process_args(Before(file, n) \o After(file, n))
    BY DEF SkippedLines, Skipped
  <1> DEFINE g == Before(file, n) \o After(file, n)
             p == Parser(file)[n - 1]
  <1>0. /\ Len(file) \in Nat /\ n \in 1..Len(file) /\ n # 1 /\ n - 1 \in 1..(Len(file) - 1)
        /\ n - 1 \in 0..Len(file) /\ n - 1 \in Nat
    BY LengthIs DEF Lines
  <1>1. file[n] \in Line
    BY <1>0, ElementIn
  <1>2. /\ g \in Seq(Line) /\ Len(g) = Len(file) - 1
        /\ \A i \in 1..(n - 1) : g[i] = file[i]
        /\ \A i \in n..(Len(file) - 1) : g[i] = file[i + 1]
    BY Zenon, <1>0, WithoutLine
  <1> HIDE DEF g
  <1>3. IsState(p) /\ p.lineno # 0
    BY <1>0, ParserStates
  <1>4. Same(Parser(file)[n], p)
    <2>1. Parser(file)[n] = ParseLine(p, file[n])
      BY <1>0, ParserSteps
    <2> HIDE DEF p
    <2> QED BY <1>1, <1>3, <2>1, SkippedIs
  <1>5. Parser(g)[n - 1] = p
    <2>1. n - 1 <= Len(file) /\ n - 1 <= Len(g) /\ n - 1 \in 0..(n - 1)
      BY <1>0, <1>2
    <2> QED BY <1>0, <1>2, <2>1, SameStart
  <1> DEFINE m == n - 1
  <1>6. m \in 1..Len(g) /\ Len(file) - n = Len(g) - m
    BY <1>0, <1>2
  <1>7. \A i \in 1..(Len(file) - n) : file[n + i] = g[m + i]
    <2> TAKE i \in 1..(Len(file) - n)
    <2>1. m + i \in n..(Len(file) - 1) /\ (m + i) + 1 = n + i
      BY <1>0
    <2> HIDE DEF m
    <2> QED BY <1>2, <2>1
  <1>8. Same(Parser(file)[n], Parser(g)[m])
    BY <1>4, <1>5
  <1> HIDE DEF m
  <1>9. process_args(file) = process_args(g)
    BY Zenon, <1>0, <1>2, <1>6, <1>7, <1>8, SameEnd
  <1> QED
    BY <1>9 DEF g

------------------------------------------------------------------------------
(* Continuations *)

(* What stands between a name and its value.                               *)
Signs == {"=", ":"}

(* What a name looks like that a line has set.                             *)
GoodName(name) ==
    name # <<>> => /\ name[1] \notin {Blank, Semicolon, "#", "["}
                   /\ name[Len(name)] # Blank
                   /\ \A i \in 1..Len(name) : ~Stop(name, Signs, i)

(* The name of a setting is such a name.                                   *)
LEMMA NameGood ==
    ASSUME NEW text \in Line, text # <<>>, text[1] \notin {Blank, Semicolon, "#", "["}
    PROVE  GoodName(NameOf(text))
  <1> DEFINE e == SignAt(text)
             b == Before(text, e)
  <1>0. Len(text) \in Nat
    BY FilledIn
  <1>1. e \in 1..(Len(text) + 1) /\ \A i \in 1..(e - 1) : ~Stop(text, Signs, i)
    BY FindHas DEF SignAt, Signs
  <1>2. b \in Line /\ Len(b) = e - 1 /\ \A i \in 1..(e - 1) : b[i] = text[i]
    BY <1>1, BeforeIs
  <1>3. NameOf(text) = ini_rstrip(b)
    BY DEF NameOf
  <1> HIDE DEF e, b
  <1>4. PICK k \in 0..Len(b) : ini_rstrip(b) = SubSeq(b, 1, k) /\ (k = 0 \/ b[k] # Blank)
    BY <1>2, RstripHas
  <1> DEFINE name == SubSeq(b, 1, k)
  <1>5. name \in Line /\ Len(name) = k /\ \A i \in 1..k : name[i] = b[i]
    BY <1>2, PrefixIs
  <1> HIDE DEF name
  <1>6. ASSUME name # <<>>
        PROVE  /\ name[1] \notin {Blank, Semicolon, "#", "["}
               /\ name[Len(name)] # Blank
               /\ \A i \in 1..Len(name) : ~Stop(name, Signs, i)
    <2>1. k \in Nat /\ k # 0 /\ k <= e - 1 /\ e \in Nat
      BY <1>0, <1>1, <1>2, <1>5, <1>6, EmptyLine
    <2>2. name[1] = text[1]
      BY <1>2, <1>5, <2>1
    <2>3. name[Len(name)] # Blank
      BY <1>4, <1>5, <2>1
    <2>4. \A i \in 1..k : ~Stop(name, Signs, i)
      <3> TAKE i \in 1..k
      <3>1. i \in 1..(e - 1) /\ (i > 1 => i - 1 \in 1..(e - 1) /\ i - 1 \in 1..k)
        BY <2>1
      <3>2. name[i] = text[i] /\ (i > 1 => name[i - 1] = text[i - 1])
        BY <1>2, <1>5, <3>1
      <3> QED
        BY <1>1, <3>1, <3>2 DEF Stop
    <2> QED
      BY <1>5, <2>2, <2>3, <2>4
  <1> QED
    BY <1>3, <1>4, <1>6 DEF GoodName, name

(* The previous name of every state is such a name, or empty.              *)
LEMMA NamesGood ==
    ASSUME NEW lines \in Seq(Line)
    PROVE  \A n \in 0..Len(lines) : GoodName(Parser(lines)[n].prev_name)
  <1> DEFINE S == {n \in Nat : n <= Len(lines) => GoodName(Parser(lines)[n].prev_name)}
  <1>0. Len(lines) \in Nat /\ \A n \in 1..Len(lines) : lines[n] \in Line
    BY LengthIs, ElementIn
  <1>1. 0 \in S
    BY <1>0, ParserSteps DEF StartState, GoodName
  <1>2. ASSUME NEW n \in Nat, n \in S
        PROVE  n + 1 \in S
    <2> SUFFICES ASSUME n + 1 <= Len(lines)
                 PROVE  GoodName(Parser(lines)[n + 1].prev_name)
      OBVIOUS
    <2> DEFINE p == Parser(lines)[n]
               line == lines[n + 1]
               ind == Indented(Buffer(line))
               text == Text(p.lineno + 1, Buffer(line))
               r == ParseText(p, ind, text)
    <2>1. n + 1 \in 1..Len(lines) /\ n \in 0..Len(lines) /\ n <= Len(lines) /\ (n + 1) - 1 = n
      BY <1>0
    <2>2. GoodName(p.prev_name) /\ IsState(p) /\ line \in Line
      BY <1>0, <1>2, <2>1, ParserStates
    <2>3. Parser(lines)[n + 1] = ParseLine(p, line)
      BY <1>0, <2>1, ParserSteps
    <2> HIDE DEF p, line
    <2>4. Parser(lines)[n + 1].prev_name = r.prev_name
      BY <2>2, <2>3, ParseLineIs DEF Same
    <2>5. text \in Line /\ (text # <<>> => text[1] # Blank)
      BY <2>2, BufferIs, TextTypes
    <2> HIDE DEF ind, text
    <2>6. GoodName(r.prev_name)
      <3>1. CASE Ignored(text)
        BY <2>2, <3>1, ParseTextCases
      <3>2. CASE ~Ignored(text) /\ Continues(p, ind)
        BY <2>2, <3>2, ParseTextCases, CallHandlerIs DEF Continue
      <3>3. CASE ~Ignored(text) /\ ~Continues(p, ind) /\ text[1] = "["
        <4>1. text # <<>>
          BY <3>3 DEF Ignored
        <4>2. GoodName(<<>>)
          BY DEF GoodName
        <4> QED
          BY <2>2, <2>5, <3>3, <4>1, <4>2, ParseTextCases, SectionIs
      <3>4. CASE ~Ignored(text) /\ ~Continues(p, ind) /\ text[1] # "["
        <4>1. text # <<>> /\ text[1] \notin {Blank, Semicolon, "#", "["}
          BY <2>5, <3>4 DEF Ignored
        <4>2. GoodName(NameOf(text))
          BY <2>5, <4>1, NameGood
        <4>3. r = Pair(p, text)
          BY <3>4, ParseTextCases
        <4>4. Pair(p, text).prev_name = IF HasSign(text) THEN NameOf(text) ELSE p.prev_name
          BY <2>2, <2>5, PairIs
        <4> HIDE DEF r
        <4> QED
          BY <2>2, <4>2, <4>3, <4>4
      <3> QED
        BY <3>1, <3>2, <3>3, <3>4
    <2> QED
      BY <2>4, <2>6
  <1>3. Nat \subseteq S
    <2> HIDE DEF S
    <2> QED BY <1>1, <1>2, NatInductive
  <1> QED
    BY <1>0, <1>3

(* A value with a comment after it starts where the text starts.           *)
LEMMA UncommentedIs ==
    ASSUME NEW t \in Line, t # <<>>, t[1] # Blank
    PROVE  ini_lskip(Uncommented(t)) = Uncommented(t)
  <1> DEFINE c == ini_find_chars_or_comment(t, {})
             u == Uncommented(t)
  <1>0. Len(t) \in Nat /\ Len(t) # 0
    BY EmptyLine
  <1>1. c \in 1..(Len(t) + 1) /\ (c <= Len(t) => Stop(t, {}, c))
    BY FindHas
  <1>2. c # 1
    BY <1>0, <1>1 DEF Stop
  <1>3. u \in Line /\ Len(u) = c - 1 /\ \A i \in 1..(c - 1) : u[i] = t[i]
    BY Zenon, <1>1, BeforeIs DEF Uncommented
  <1> HIDE DEF c, u
  <1>4. 1 \in 1..Len(u) /\ u[1] # Blank /\ \A i \in 1..(1 - 1) : u[i] = Blank
    BY <1>0, <1>1, <1>2, <1>3
  <1>5. ini_lskip(u) = SubSeq(u, 1, Len(u))
    BY <1>3, <1>4, LskipIs
  <1>6. SubSeq(u, 1, Len(u)) = u
    BY <1>3, WholeIs DEF Line
  <1> QED
    BY <1>5, <1>6 DEF u

(* The line name=text, lexeme by lexeme.                                   *)
Setting(line, name, t) ==
    /\ line \in Line /\ Len(line) = Len(name) + 1 + Len(t)
    /\ line[Len(name) + 1] = "="
    /\ \A i \in 1..Len(name) : line[i] = name[i]
    /\ \A i \in 1..Len(t) : line[Len(name) + 1 + i] = t[i]

(* The line "=".                                                           *)
LEMMA SignLine == <<"=">> \in Line /\ Len(<<"=">>) = 1 /\ <<"=">>[1] = "="
  <1>1. "=" \in Lexeme
    BY DEF Lexeme
  <1>2. \A S : \A c \in S : <<c>> \in Seq(S) /\ Len(<<c>>) = 1 /\ <<c>>[1] = c
    OBVIOUS
  <1> QED BY <1>1, <1>2 DEF Line

(* A name, the sign and a text, one after the other.                       *)
LEMMA SettingIs ==
    ASSUME NEW name \in Line, NEW t \in Line
    PROVE  Setting(name \o <<"=">> \o t, name, t)
  <1> DEFINE q == <<"=">>
             a == name \o q
             line == a \o t
  <1>0. Len(name) \in Nat /\ Len(t) \in Nat
    BY FilledIn
  <1>1. q \in Line /\ Len(q) = 1 /\ q[1] = "="
    BY SignLine
  <1> HIDE DEF q
  <1>2. a \in Line /\ Len(a) = Len(name) + 1
        /\ \A i \in 1..(Len(name) + 1) : a[i] = IF i <= Len(name) THEN name[i] ELSE q[i - Len(name)]
    <2>1. /\ name \o q \in Line /\ Len(name \o q) = Len(name) + Len(q)
          /\ \A i \in 1..(Len(name) + Len(q)) :
                 (name \o q)[i] = IF i <= Len(name) THEN name[i] ELSE q[i - Len(name)]
      BY Zenon, <1>1, JoinIs DEF Line
    <2> HIDE DEF a
    <2> QED BY <1>1, <2>1 DEF a
  <1>3. a[Len(name) + 1] = "="
    <2>1. /\ Len(name) + 1 \in 1..(Len(name) + 1) /\ ~(Len(name) + 1 <= Len(name))
          /\ (Len(name) + 1) - Len(name) = 1
      BY <1>0
    <2> HIDE DEF a
    <2> QED BY <1>1, <1>2, <2>1
  <1> HIDE DEF a
  <1>4. line \in Line /\ Len(line) = Len(a) + Len(t)
        /\ \A i \in 1..(Len(a) + Len(t)) : line[i] = IF i <= Len(a) THEN a[i] ELSE t[i - Len(a)]
    <2>0. a \in Line
      BY <1>2
    <2>1. /\ a \o t \in Line /\ Len(a \o t) = Len(a) + Len(t)
          /\ \A i \in 1..(Len(a) + Len(t)) :
                 (a \o t)[i] = IF i <= Len(a) THEN a[i] ELSE t[i - Len(a)]
      BY <2>0, JoinIs DEF Line
    <2> QED BY <2>1
  <1> HIDE DEF line
  <1>5. line[Len(name) + 1] = "=" /\ \A i \in 1..Len(name) : line[i] = name[i]
    BY <1>0, <1>2, <1>3, <1>4
  <1>6. \A i \in 1..Len(t) : line[Len(name) + 1 + i] = t[i]
    <2> TAKE i \in 1..Len(t)
    <2> DEFINE k == Len(name) + 1 + i
    <2>1. k \in 1..(Len(a) + Len(t)) /\ ~(k <= Len(a)) /\ k - Len(a) = i
      BY <1>0, <1>2
    <2> HIDE DEF k
    <2>2. line[k] = t[i]
      BY <1>4, <2>1
    <2> QED BY <2>2 DEF k
  <1>7. Setting(line, name, t)
    BY <1>2, <1>4, <1>5, <1>6 DEF Setting
  <1> QED
    BY <1>7 DEF line, a, q

(* name=text is parsed into that name and what is left of the text.        *)
LEMMA RepeatedIs ==
    ASSUME NEW name \in Line, name # <<>>, GoodName(name),
           NEW t \in Line, t # <<>>, t[1] # Blank, t[Len(t)] # Blank,
           NEW line, Setting(line, name, t)
    PROVE  /\ line \in Line /\ line # <<>> /\ line[1] = name[1] /\ Stripped(line) = line
           /\ HasSign(line) /\ NameOf(line) = name
           /\ ValueOf(line) = ini_rstrip(Uncommented(t))
  <1> DEFINE e == Len(name) + 1
  <1>0. /\ Len(name) \in Nat /\ Len(name) # 0 /\ Len(t) \in Nat /\ Len(t) # 0
        /\ name[1] \notin {Blank, Semicolon, "#", "["} /\ name[Len(name)] # Blank
        /\ \A i \in 1..Len(name) : ~Stop(name, Signs, i)
    BY EmptyLine DEF GoodName
  <1>2. /\ line \in Line /\ Len(line) = e + Len(t) /\ line[e] = "="
        /\ \A i \in 1..Len(name) : line[i] = name[i]
        /\ \A i \in 1..Len(t) : line[e + i] = t[i]
    BY DEF Setting
  <1>3. line # <<>> /\ line[1] = name[1] /\ line[1] # Blank /\ line[Len(line)] # Blank
    <2>1. line # <<>>
      BY <1>0, <1>2, EmptyLine
    <2>2. line[1] = name[1]
      BY <1>0, <1>2
    <2>3. line[Len(line)] = t[Len(t)]
      BY <1>0, <1>2
    <2> QED BY <1>0, <2>1, <2>2, <2>3
  <1>4. Stripped(line) = line
    BY Zenon, <1>2, <1>3, StrippedAgain
  <1>5. SignAt(line) = e
    <2>1. e \in 1..(Len(line) + 1)
      BY <1>0, <1>2
    <2>2. Stop(line, Signs, e)
      BY <1>2 DEF Stop, Signs
    <2>3. \A i \in 1..(e - 1) : ~Stop(line, Signs, i)
      <3> TAKE i \in 1..(e - 1)
      <3>1. i \in 1..Len(name) /\ (i > 1 => i - 1 \in 1..Len(name))
        BY <1>0
      <3>2. line[i] = name[i] /\ (i > 1 => line[i - 1] = name[i - 1])
        BY Zenon, <1>2, <3>1
      <3> QED
        BY <1>0, <3>1, <3>2 DEF Stop
    <2> HIDE DEF e
    <2> QED
      BY <1>2, <2>1, <2>2, <2>3, FindIs DEF SignAt, Signs
  <1>6. HasSign(line)
    BY <1>0, <1>2, <1>5 DEF HasSign
  <1>7. Before(line, e) = name
    <2>1. e \in 1..(Len(line) + 1) /\ e - 1 = Len(name)
      BY <1>0, <1>2
    <2> HIDE DEF e
    <2>2. /\ Before(line, e) \in Line /\ Len(Before(line, e)) = e - 1
          /\ \A i \in 1..(e - 1) : Before(line, e)[i] = line[i]
      BY Zenon, <1>2, <2>1, BeforeIs
    <2> DEFINE b == Before(line, e)
    <2> HIDE DEF b
    <2>3. b \in Line /\ Len(b) = Len(name) /\ \A i \in 1..Len(b) : b[i] = name[i]
      BY <1>2, <2>1, <2>2 DEF b
    <2>4. b = name
      BY <2>3, SameLine
    <2> QED
      BY <2>4 DEF b
  <1>8. NameOf(line) = name
    <2>1. NameOf(line) = ini_rstrip(name)
      BY <1>5, <1>7 DEF NameOf
    <2>2. name[1] # Blank
      BY <1>0
    <2>3. ini_rstrip(name) = name
      BY <1>0, <2>2, StrippedAgain
    <2> QED BY <2>1, <2>3
  <1>9. After(line, e) = t
    <2>1. e \in 0..Len(line) /\ Len(line) - e = Len(t)
      BY <1>0, <1>2
    <2> HIDE DEF e
    <2>2. /\ After(line, e) \in Line /\ Len(After(line, e)) = Len(line) - e
          /\ \A i \in 1..(Len(line) - e) : After(line, e)[i] = line[e + i]
      BY Zenon, <1>2, <2>1, AfterIs
    <2> DEFINE b == After(line, e)
    <2> HIDE DEF b
    <2>3. b \in Line /\ Len(b) = Len(t) /\ \A i \in 1..Len(b) : b[i] = t[i]
      BY <1>2, <2>1, <2>2 DEF b
    <2>4. b = t
      BY <2>3, SameLine
    <2> QED
      BY <2>4 DEF b
  <1>10. ValueOf(line) = ini_rstrip(Uncommented(t))
    <2>1. ValueOf(line) = ini_rstrip(ini_lskip(Uncommented(t)))
      BY <1>5, <1>9 DEF ValueOf
    <2>2. ini_lskip(Uncommented(t)) = Uncommented(t)
      BY UncommentedIs
    <2> QED BY <2>1, <2>2
  <1> QED
    BY <1>2, <1>3, <1>4, <1>6, <1>8, <1>10

(* In the same state both lines call the handler with the same arguments.  *)
LEMMA ContinuedIs ==
    ASSUME NEW p, IsState(p), p.lineno # 0, p.prev_name # <<>>, GoodName(p.prev_name),
           NEW line \in Line, Indented(line), ~Comment(line), ~TooLong(line),
           NEW repeated, Setting(repeated, p.prev_name, Stripped(line)), ~TooLong(repeated)
    PROVE  repeated \in Line /\ Same(ParseLine(p, line), ParseLine(p, repeated))
  <1> DEFINE t == Stripped(line)
             name == p.prev_name
             value == ini_rstrip(Uncommented(t))
             cfg == IF Known(p.section, name) THEN handler(p.cfg, name, value) ELSE p.cfg
  <1>0. name \in Line /\ p.lineno + 1 # 1
    BY DEF IsState
  <1>1. t \in Line /\ t # <<>> /\ t[1] # Blank /\ t[Len(t)] # Blank /\ ~Ignored(t)
    BY StrippedIs DEF Comment, Ignored
  <1>2. /\ repeated \in Line /\ repeated # <<>> /\ repeated[1] = name[1]
        /\ Stripped(repeated) = repeated
        /\ HasSign(repeated) /\ NameOf(repeated) = name /\ ValueOf(repeated) = value
    <2> HIDE DEF t, name
    <2>1. Setting(repeated, name, t)
      BY DEF t, name
    <2>2. name # <<>> /\ GoodName(name)
      BY DEF name
    <2> QED
      BY <1>0, <1>1, <2>1, <2>2, RepeatedIs
  <1>3. ParseText(p, Indented(line), t) = CallHandler(p, name, value)
    <2>1. Continues(p, Indented(line))
      BY DEF Continues
    <2>2. ParseText(p, Indented(line), t) = Continue(p, t)
      BY Zenon, <1>1, <2>1, ParseTextCases
    <2> QED BY Zenon, <2>2 DEF Continue
  <1>4. Same(ParseLine(p, line), ParseText(p, Indented(line), t))
    <2>1. Buffer(line) = line /\ Text(p.lineno + 1, line) = t
      BY <1>0, BufferIs, TextTypes
    <2> QED BY Zenon, <2>1, ParseLineIs
  <1>5. Same(ParseLine(p, repeated), ParseText(p, Indented(repeated), repeated))
    <2>1. Buffer(repeated) = repeated
      BY <1>2, BufferIs
    <2>2. Text(p.lineno + 1, repeated) = Stripped(repeated)
      BY <1>0, <1>2, TextTypes
    <2> QED BY <1>2, <2>1, <2>2, ParseLineIs
  <1>6. ParseText(p, Indented(repeated), repeated) = Pair(p, repeated)
    <2>1. repeated[1] \notin {Blank, Semicolon, "#", "["}
      BY <1>2 DEF GoodName
    <2>2. ~Indented(repeated) /\ ~Ignored(repeated) /\ repeated[1] # "["
      BY <1>2, <2>1 DEF Indented, Ignored
    <2>3. ~Continues(p, Indented(repeated))
      BY <2>2 DEF Continues
    <2> QED BY <2>2, <2>3, ParseTextCases
  <1> HIDE DEF t, value
  <1>7. LET r == CallHandler(p, name, value)
        IN  r.section = p.section /\ r.prev_name = name /\ r.cfg = cfg
    BY CallHandlerIs
  <1>8. LET r == Pair(p, repeated)
        IN  r.section = p.section /\ r.prev_name = name /\ r.cfg = cfg
    <2>1. LET r == Pair(p, repeated)
          IN  /\ r.section = p.section
              /\ r.prev_name = NameOf(repeated)
              /\ r.cfg = IF Known(p.section, NameOf(repeated))
                         THEN handler(p.cfg, NameOf(repeated), ValueOf(repeated)) ELSE p.cfg
      BY <1>2, PairIs
    <2> QED BY <1>2, <2>1
  <1>9. Same(CallHandler(p, name, value), Pair(p, repeated))
    <2> HIDE DEF cfg
    <2> QED BY <1>7, <1>8 DEF Same
  <1> QED
    BY <1>2, <1>3, <1>4, <1>5, <1>6, <1>9 DEF Same

(* ContinuationRepeats: an indented line has the effect of name=value with *)
(* the name of the line before it, for every file.                         *)
THEOREM ContinuationRepeatsHolds ==
    ASSUME file \in Seq(Line)
    PROVE  ContinuationRepeats
  <1> SUFFICES ASSUME NEW n \in Lines,
                      NEW name, name = ini_parse_stream(Before(file, n)).prev_name,
                      NEW repeated, Setting(repeated, name, Stripped(file[n])),
                      name # <<>>, Indented(file[n]), ~Comment(file[n]),
                      ~TooLong(file[n]), ~TooLong(repeated)
               PROVE  process_args(file) = process_args([file EXCEPT ![n] = repeated])
    <2>1. \A n \in Lines :
              /\ file[n] \in Line
              /\ ini_parse_stream(Before(file, n)).prev_name \in Line
      <3> TAKE n \in Lines
      <3>1. Len(file) \in Nat /\ n \in 1..Len(file) /\ n - 1 \in 0..Len(file)
        BY LengthIs DEF Lines
      <3>2. ini_parse_stream(Before(file, n)) = Parser(file)[n - 1]
        BY <3>1, StateBefore DEF Before
      <3> QED
        BY <3>1, <3>2, ElementIn, ParserStates DEF IsState
    <2> QED
      BY Zenon, <2>1, SettingIs, StrippedIs DEF ContinuationRepeats
  <1> DEFINE p == Parser(file)[n - 1]
             g == [file EXCEPT ![n] = repeated]
  <1>0. Len(file) \in Nat /\ n \in 1..Len(file) /\ n - 1 \in 0..Len(file) /\ file[n] \in Line
    BY LengthIs, ElementIn DEF Lines
  <1>1. name = p.prev_name
    BY <1>0, StateBefore DEF Before
  <1>2. n # 1
    <2> SUFFICES ASSUME n = 1 PROVE FALSE
      OBVIOUS
    <2>1. p = StartState
      BY <1>0, ParserSteps
    <2> QED BY <1>1, <2>1 DEF StartState
  <1>3. IsState(p) /\ p.lineno = n - 1 /\ GoodName(p.prev_name)
    BY <1>0, ParserStates, NamesGood
  <1>4. p.lineno # 0
    BY <1>0, <1>2, <1>3
  <1>5. Parser(file)[n] = ParseLine(p, file[n])
    BY <1>0, ParserSteps
  <1>6. repeated \in Line /\ Same(ParseLine(p, file[n]), ParseLine(p, repeated))
    <2> HIDE DEF p
    <2> QED BY <1>0, <1>1, <1>3, <1>4, ContinuedIs
  <1>7. /\ g \in Seq(Line) /\ Len(g) = Len(file) /\ g[n] = repeated
        /\ \A i \in 1..Len(file) : i # n => g[i] = file[i]
    <2>2. /\ Len(g) = Len(file) /\ g \in Seq(Line)
          /\ \A i \in 1..Len(file) : g[i] = IF i = n THEN repeated ELSE file[i]
      BY <1>0, <1>6, ReplacedIs
    <2> HIDE DEF g
    <2> QED BY <1>0, <2>2
  <1> HIDE DEF g
  <1>8. Parser(g)[n - 1] = p
    <2> DEFINE m == n - 1
    <2>1. m \in Nat /\ m <= Len(file) /\ m <= Len(g) /\ m \in 0..m
          /\ \A i \in 1..m : file[i] = g[i]
      BY <1>0, <1>7
    <2> HIDE DEF m
    <2>2. Parser(file)[m] = Parser(g)[m]
      BY <1>7, <2>1, SameStart
    <2> QED BY <2>2 DEF m
  <1>9. Parser(g)[n] = ParseLine(p, repeated)
    BY <1>0, <1>7, <1>8, ParserSteps
  <1>10. Same(Parser(file)[n], Parser(g)[n])
    BY <1>5, <1>6, <1>9
  <1>11. \A i \in 1..(Len(file) - n) : file[n + i] = g[n + i]
    BY <1>0, <1>7
  <1>12. n \in 1..Len(g) /\ Len(file) - n = Len(g) - n
    BY <1>0, <1>7
  <1> QED
    BY Zenon, <1>0, <1>7, <1>10, <1>11, <1>12, SameEnd DEF g

------------------------------------------------------------------------------
(* Settings *)

(* The line that starts the section the code reads.                        *)
Header == <<"[", "SERVER", "]">>

(* A line of one or of three lexemes, written out.                         *)
LEMMA Singles ==
    /\ \A s \in Line : Len(s) = 1 => s = <<s[1]>>
    /\ \A s \in Line : Len(s) = 3 => s = <<s[1], s[2], s[3]>>
    /\ \A c : Len(<<c>>) = 1 /\ <<c>>[1] = c
  <1>1. ASSUME NEW s \in Line, Len(s) = 1
        PROVE  s = <<s[1]>>
    <2>1. s[1] \in Lexeme
      BY <1>1, ElementIn DEF Line
    <2> DEFINE t == <<s[1]>>
    <2>2. t \in Line /\ Len(t) = 1 /\ t[1] = s[1]
      BY <2>1 DEF Line
    <2> HIDE DEF t
    <2>3. s = t
      BY <1>1, <2>2, SameLine
    <2> QED BY <2>3 DEF t
  <1>2. ASSUME NEW s \in Line, Len(s) = 3
        PROVE  s = <<s[1], s[2], s[3]>>
    <2>1. s[1] \in Lexeme /\ s[2] \in Lexeme /\ s[3] \in Lexeme
      BY <1>2, ElementIn DEF Line
    <2> DEFINE t == <<s[1], s[2], s[3]>>
    <2>2. t \in Line /\ Len(t) = 3 /\ t[1] = s[1] /\ t[2] = s[2] /\ t[3] = s[3]
      BY <2>1 DEF Line
    <2> HIDE DEF t
    <2>3. \A i \in 1..3 : i = 1 \/ i = 2 \/ i = 3
      OBVIOUS
    <2>4. \A i \in 1..Len(s) : s[i] = t[i]
      BY <1>2, <2>2, <2>3
    <2>5. s = t
      BY <1>2, <2>2, <2>4, SameLine
    <2> QED BY <2>5 DEF t
  <1>3. \A c : Len(<<c>>) = 1 /\ <<c>>[1] = c
    OBVIOUS
  <1> QED
    BY <1>1, <1>2, <1>3

(* A text starts with the header iff its first three lexemes are those.    *)
LEMMA StartsWithHeader ==
    ASSUME NEW text \in Line
    PROVE  ServerText(text) <=>
               Len(text) >= 3 /\ text[1] = "[" /\ text[2] = "SERVER" /\ text[3] = "]"
  <1> DEFINE h == Header
  <1>0. Len(text) \in Nat
    BY FilledIn
  <1>1. Len(h) = 3 /\ h[1] = "[" /\ h[2] = "SERVER" /\ h[3] = "]"
    BY DEF Header
  <1> DEFINE s == SubSeq(text, 1, 3)
  <1>3. ServerText(text) <=> 3 <= Len(text) /\ h = s
    BY Zenon, <1>0 DEF ServerText, Header
  <1>4. ASSUME 3 <= Len(text)
        PROVE  s \in Line /\ Len(s) = 3 /\ s[1] = text[1] /\ s[2] = text[2] /\ s[3] = text[3]
    <2>1. 3 \in 0..Len(text) /\ 1 \in 1..3 /\ 2 \in 1..3 /\ 3 \in 1..3
      BY <1>0, <1>4
    <2> QED BY <2>1, PrefixIs
  <1> HIDE DEF s
  <1>5. ASSUME 3 <= Len(text), text[1] = "[", text[2] = "SERVER", text[3] = "]"
        PROVE  h = s
    BY <1>4, <1>5, Singles DEF Header
  <1>6. ASSUME 3 <= Len(text), h = s
        PROVE  text[1] = "[" /\ text[2] = "SERVER" /\ text[3] = "]"
    <2> HIDE DEF h
    <2> QED BY <1>1, <1>4, <1>6
  <1> QED
    BY <1>0, <1>3, <1>5, <1>6

(* Section takes SERVER from the header, and from nothing else.            *)
LEMMA HeaderIs ==
    ASSUME NEW text \in Line
    PROVE  ServerText(text) <=>
               SectionText(text) /\ Before(Tail(text), Bracket(text)) = <<"SERVER">>
  <1> DEFINE t == Tail(text)
             e == Bracket(text)
  <1>0. Len(text) \in Nat
    BY FilledIn
  <1>1. ASSUME text # <<>>
        PROVE  /\ t \in Line /\ Len(t) = Len(text) - 1 /\ Len(text) # 0
               /\ \A i \in 1..Len(t) : t[i] = text[i + 1]
    BY <1>1, HeadTailAre, LengthIs, EmptyLine DEF Line
  <1>2. ASSUME ServerText(text)
        PROVE  SectionText(text) /\ Before(t, e) = <<"SERVER">>
    <2>1. Len(text) >= 3 /\ text[1] = "[" /\ text[2] = "SERVER" /\ text[3] = "]"
      BY <1>2, StartsWithHeader
    <2>2. text # <<>>
      BY <1>0, <2>1, EmptyLine
    <2>3. t \in Line /\ Len(t) >= 2 /\ Len(t) \in Nat /\ t[1] = "SERVER" /\ t[2] = "]"
      <3> HIDE DEF t
      <3>1. Len(t) = Len(text) - 1 /\ 1 \in 1..Len(t) /\ 2 \in 1..Len(t)
        BY <1>0, <1>1, <2>1, <2>2
      <3> QED BY <1>0, <1>1, <2>1, <2>2, <3>1
    <2>4. e = 2
      <3>1. Stop(t, {"]"}, 2)
        BY <2>3 DEF Stop
      <3>2. ~Stop(t, {"]"}, 1)
        BY <2>3 DEF Stop
      <3>3. 2 \in 1..(Len(t) + 1) /\ \A i \in 1..(2 - 1) : i = 1
        BY <2>3
      <3> HIDE DEF t
      <3>4. ini_find_chars_or_comment(t, {"]"}) = 2
        BY <2>3, <3>1, <3>2, <3>3, FindIs
      <3> QED BY <3>4 DEF Bracket, t
    <2>5. Closed(text)
      <3> HIDE DEF t
      <3>1. e <= Len(t) /\ t[e] = "]"
        BY <2>3, <2>4
      <3> QED BY Zenon, <3>1 DEF Closed, t
    <2>6. Before(t, 2) = <<"SERVER">>
      <3> HIDE DEF t
      <3>1. 2 \in 1..(Len(t) + 1) /\ 2 - 1 = 1 /\ 1 \in 1..1
        BY <2>3
      <3> DEFINE b == Before(t, 2)
      <3>2. b \in Line /\ Len(b) = 1 /\ b[1] = t[1]
        BY Zenon, <2>3, <3>1, BeforeIs
      <3> HIDE DEF b
      <3>3. b = <<b[1]>>
        BY <3>2, Singles
      <3> QED BY <2>3, <3>2, <3>3 DEF b
    <2> QED
      BY <2>1, <2>2, <2>4, <2>5, <2>6, SectionTextIs
  <1>3. ASSUME SectionText(text), Before(t, e) = <<"SERVER">>
        PROVE  ServerText(text)
    <2>1. text # <<>> /\ text[1] = "["
      BY <1>3 DEF SectionText
    <2>2. Closed(text)
      BY <1>3, <2>1, SectionTextIs
    <2>3. e \in 1..(Len(t) + 1) /\ e <= Len(t) /\ t[e] = "]"
      <3>1. e \in 1..(Len(t) + 1)
        BY Zenon, <1>1, <2>1, FindHas DEF Bracket
      <3> QED BY <2>2, <3>1 DEF Closed
    <2>4. /\ Len(Before(t, e)) = e - 1
          /\ \A i \in 1..(e - 1) : Before(t, e)[i] = t[i]
      BY Zenon, <1>1, <2>1, <2>3, BeforeIs
    <2> HIDE DEF t, e
    <2>5. e - 1 = 1
      BY <1>3, <2>4, Singles
    <2>6. e = 2 /\ Len(t) \in Nat
      BY <1>0, <1>1, <2>1, <2>3, <2>5
    <2>7. Before(t, e)[1] = t[1]
      BY <2>4, <2>5
    <2>8. t[1] = "SERVER"
      BY <1>3, <2>7, Singles
    <2>9. Len(text) >= 3 /\ text[2] = t[1] /\ text[3] = t[2]
      <3>1. 1 \in 1..Len(t) /\ 2 \in 1..Len(t)
        BY <2>3, <2>6
      <3> QED BY <1>0, <1>1, <2>1, <2>3, <2>6, <3>1
    <2> QED
      BY <2>1, <2>3, <2>6, <2>8, <2>9, StartsWithHeader
  <1> QED
    BY <1>2, <1>3

(* The name of a setting is where its text starts.                         *)
LEMMA NameStarts ==
    ASSUME NEW text \in Line, NameOf(text) # <<>>
    PROVE  text # <<>> /\ text[1] = NameOf(text)[1]
  <1> DEFINE e == SignAt(text)
             b == Before(text, e)
  <1>0. Len(text) \in Nat
    BY FilledIn
  <1>1. e \in 1..(Len(text) + 1)
    BY FindTypes
  <1>2. b \in Line /\ Len(b) = e - 1 /\ \A i \in 1..(e - 1) : b[i] = text[i]
    BY <1>1, BeforeIs
  <1>3. NameOf(text) = ini_rstrip(b)
    BY DEF NameOf
  <1> HIDE DEF e, b
  <1>4. PICK k \in 0..Len(b) : ini_rstrip(b) = SubSeq(b, 1, k)
    BY <1>2, RstripHas
  <1> DEFINE name == SubSeq(b, 1, k)
  <1>5. name \in Line /\ Len(name) = k /\ \A i \in 1..k : name[i] = b[i]
    BY <1>2, PrefixIs
  <1>6. NameOf(text) = name
    BY <1>3, <1>4
  <1> HIDE DEF name
  <1>7. k # 0
    BY <1>5, <1>6, EmptyLine
  <1>8. 1 \in 1..k /\ 1 \in 1..(e - 1) /\ Len(text) # 0
    BY <1>0, <1>1, <1>2, <1>4, <1>7
  <1> QED
    BY <1>2, <1>5, <1>6, <1>8, EmptyLine

(* What a line that is not indented does.                                  *)
LEMMA PlainLine ==
    ASSUME NEW p, IsState(p), NEW line \in Line, ~Indented(line), ~TooLong(line),
           NEW text, text = Text(p.lineno + 1, line)
    PROVE  LET r == ParseLine(p, line)
               sets == /\ HasSign(text) /\ ~Ignored(text) /\ text[1] # "["
                       /\ Known(p.section, NameOf(text))
           IN  /\ r.section = IF SectionText(text) THEN Before(Tail(text), Bracket(text))
                                                   ELSE p.section
               /\ r.cfg = IF sets THEN handler(p.cfg, NameOf(text), ValueOf(text)) ELSE p.cfg
  <1> DEFINE ind == Indented(line)
             r == ParseLine(p, line)
             q == ParseText(p, ind, text)
             sets == /\ HasSign(text) /\ ~Ignored(text) /\ text[1] # "["
                     /\ Known(p.section, NameOf(text))
  <1>1. text \in Line
    BY TextTypes
  <1>2. r.section = q.section /\ r.cfg = q.cfg
    <2>1. Buffer(line) = line
      BY BufferIs
    <2> QED
      BY <2>1, ParseLineIs DEF Same
  <1>3. ~Continues(p, ind)
    BY DEF Continues
  <1> HIDE DEF ind, r
  <1>4. CASE Ignored(text)
    <2>1. ~SectionText(text) /\ ~sets
      BY <1>4, Characters DEF Ignored, SectionText
    <2>2. q = p
      BY <1>4, ParseTextCases
    <2> HIDE DEF q, sets
    <2> QED BY <1>2, <2>1, <2>2 DEF r, sets
  <1>5. CASE ~Ignored(text) /\ text[1] = "["
    <2>0. text # <<>>
      BY <1>5 DEF Ignored
    <2>1. q = Section(p, text)
      BY <1>3, <1>5, ParseTextCases
    <2>2. SectionText(text) <=> Closed(text)
      BY <1>1, <1>5, <2>0, SectionTextIs
    <2>3. /\ q.cfg = p.cfg
          /\ q.section = IF Closed(text) THEN Before(Tail(text), Bracket(text)) ELSE p.section
      BY <1>1, <2>0, <2>1, SectionIs
    <2>4. ~sets
      BY <1>5
    <2> HIDE DEF q, sets
    <2> QED BY <1>2, <2>2, <2>3, <2>4 DEF r, sets
  <1>6. CASE ~Ignored(text) /\ text[1] # "["
    <2>1. q = Pair(p, text)
      BY <1>3, <1>6, ParseTextCases
    <2>2. ~SectionText(text)
      BY <1>6 DEF SectionText
    <2>3. /\ q.section = p.section
          /\ q.cfg = IF HasSign(text) /\ Known(p.section, NameOf(text))
                     THEN handler(p.cfg, NameOf(text), ValueOf(text)) ELSE p.cfg
      BY <1>1, <2>1, PairIs
    <2>4. sets <=> HasSign(text) /\ Known(p.section, NameOf(text))
      BY <1>6
    <2> HIDE DEF q, sets
    <2> QED BY <1>2, <2>2, <2>3, <2>4 DEF r, sets
  <1> QED
    BY <1>4, <1>5, <1>6

(* InServer from line to line.                                             *)
LEMMA InServerNext ==
    ASSUME file \in Seq(Line), NEW n \in 1..Len(file)
    PROVE  /\ ~InServer(1)
           /\ InServer(n + 1) <=> IF SectionText(Text(n, file[n]))
                                  THEN ServerText(Text(n, file[n]))
                                  ELSE InServer(n)
  <1> DEFINE P(m) == ServerText(Text(m, file[m]))
             S(m) == SectionText(Text(m, file[m]))
  <1>0. Len(file) \in Nat /\ n \in Nat /\ n - 1 \in Int /\ (n + 1) - 1 = n
    BY LengthIs
  <1>1. \A m \in 1..Len(file) : P(m) => S(m)
    <2> TAKE m \in 1..Len(file)
    <2>1. file[m] \in Line
      BY ElementIn
    <2>2. Text(m, file[m]) \in Line
      BY <2>1, TextTypes
    <2> QED BY <2>2, HeaderIs
  <1>2. \A k : InServer(k) <=>
              \E m \in 1..(k - 1) : P(m) /\ \A j \in (m + 1)..(k - 1) : ~S(j)
    BY DEF InServer
  <1> HIDE DEF P, S
  <1>3. ~InServer(1)
    BY <1>2
  <1>4. InServer(n + 1) <=> \E m \in 1..n : P(m) /\ \A j \in (m + 1)..n : ~S(j)
    BY <1>0, <1>2
  <1>5. CASE S(n)
    <2>1. ASSUME InServer(n + 1) PROVE P(n)
      <3>1. PICK m \in 1..n : P(m) /\ \A j \in (m + 1)..n : ~S(j)
        BY <1>4, <2>1
      <3>2. CASE m = n
        BY <3>1, <3>2
      <3>3. CASE m # n
        <4>1. n \in (m + 1)..n
          BY <1>0, <3>3
        <4> QED BY <1>5, <3>1, <4>1
      <3> QED BY <3>2, <3>3
    <2>2. ASSUME P(n) PROVE InServer(n + 1)
      <3>1. n \in 1..n /\ \A j \in (n + 1)..n : FALSE
        BY <1>0
      <3> QED BY <1>4, <2>2, <3>1
    <2>3. InServer(n + 1) <=> P(n)
      BY <2>1, <2>2
    <2> QED BY <1>3, <1>5, <2>3 DEF P, S
  <1>6. CASE ~S(n)
    <2>1. ASSUME InServer(n + 1) PROVE InServer(n)
      <3>1. PICK m \in 1..n : P(m) /\ \A j \in (m + 1)..n : ~S(j)
        BY <1>4, <2>1
      <3>2. m # n
        BY <1>1, <1>6, <3>1
      <3>3. m \in 1..(n - 1) /\ \A j \in (m + 1)..(n - 1) : j \in (m + 1)..n
        BY <1>0, <3>2
      <3> QED BY <1>2, <3>1, <3>3
    <2>2. ASSUME InServer(n) PROVE InServer(n + 1)
      <3>1. PICK m \in 1..(n - 1) : P(m) /\ \A j \in (m + 1)..(n - 1) : ~S(j)
        BY <1>2, <2>2
      <3>2. m \in 1..n /\ \A j \in (m + 1)..n : j = n \/ j \in (m + 1)..(n - 1)
        BY <1>0
      <3>3. \A j \in (m + 1)..n : ~S(j)
        BY <1>6, <3>1, <3>2
      <3> QED BY <1>4, <3>1, <3>2, <3>3
    <2>3. InServer(n + 1) <=> InServer(n)
      BY <2>1, <2>2
    <2> QED BY <1>3, <1>6, <2>3 DEF P, S
  <1> QED
    BY <1>5, <1>6

(* The lines up to the n-th that set a name.                               *)
SettingsTo(name, n) == {k \in 1..n : Sets(k, name)}

(* The last setting of a name from line to line.                           *)
LEMMA LastOf ==
    ASSUME NEW name, NEW n \in Nat
    PROVE  /\ SettingsTo(name, 0) = {}
           /\ Sets(n + 1, name) => /\ SettingsTo(name, n + 1) # {}
                                   /\ Highest(SettingsTo(name, n + 1)) = n + 1
           /\ ~Sets(n + 1, name) => SettingsTo(name, n + 1) = SettingsTo(name, n)
  <1> DEFINE S == SettingsTo(name, n + 1)
  <1>1. SettingsTo(name, 0) = {}
    BY DEF SettingsTo
  <1>2. ASSUME Sets(n + 1, name)
        PROVE  S # {} /\ Highest(S) = n + 1
    <2>1. n + 1 \in S /\ S \subseteq Nat /\ n + 1 \in Nat /\ \A k \in S : k <= n + 1
      BY <1>2 DEF SettingsTo
    <2> HIDE DEF S
    <2>2. Highest(S) \in S /\ \A k \in S : k <= Highest(S)
      BY Zenon, <2>1, HighestIs
    <2>3. Highest(S) \in Nat /\ Highest(S) <= n + 1 /\ n + 1 <= Highest(S)
      BY Zenon, <2>1, <2>2
    <2> QED BY <2>1, <2>3
  <1>3. ASSUME ~Sets(n + 1, name)
        PROVE  S = SettingsTo(name, n)
    <2>1. \A k : k \in 1..(n + 1) <=> k \in 1..n \/ k = n + 1
      OBVIOUS
    <2> QED BY <1>3, <2>1 DEF SettingsTo
  <1> QED
    BY <1>1, <1>2, <1>3

(* The two names that the handler knows are different, and start a text    *)
(* that ParseText passes to Pair.                                          *)
LEMMA Names ==
    /\ <<"PORT">> # <<"SEEDS">> /\ <<"PORT">> # <<>> /\ <<"SEEDS">> # <<>>
    /\ \A name \in {<<"PORT">>, <<"SEEDS">>} :
           name # <<>> /\ name[1] \notin {Blank, Semicolon, "#", "["}
  <1>1. "PORT" # "SEEDS" /\ "PORT" \notin {Blank, Semicolon} /\ "SEEDS" \notin {Blank, Semicolon}
    BY DEF Blank, Semicolon
  <1>2. "PORT" \notin {"#", "["} /\ "SEEDS" \notin {"#", "["}
    OBVIOUS
  <1>3. <<"PORT">>[1] = "PORT" /\ <<"SEEDS">>[1] = "SEEDS"
    OBVIOUS
  <1>4. Len(<<"PORT">>) = 1 /\ Len(<<"SEEDS">>) = 1 /\ Len(<<>>) = 0
    BY EmptyLine
  <1>5. <<"PORT">> # <<>> /\ <<"SEEDS">> # <<>>
    BY <1>4
  <1> QED
    BY <1>1, <1>2, <1>3, <1>5

(* What line n + 1 does to the configuration.                              *)
LEMMA ConfigNext ==
    ASSUME file \in Seq(Line), NEW n \in Nat, n + 1 \in 1..Len(file),
           ~Indented(file[n + 1]), ~TooLong(file[n + 1]),
           Parser(file)[n].section = <<"SERVER">> <=> InServer(n + 1)
    PROVE  LET p == Parser(file)[n]
               r == Parser(file)[n + 1]
               value == ValueOf(Text(n + 1, file[n + 1]))
           IN  /\ r.section = <<"SERVER">> <=> InServer(n + 2)
               /\ value \in Line \/ ~HasSign(Text(n + 1, file[n + 1]))
               /\ r.cfg.port = IF Sets(n + 1, <<"PORT">>) THEN atoi(value) ELSE p.cfg.port
               /\ r.cfg.seed_nodes = IF Sets(n + 1, <<"SEEDS">>) THEN seed_nodes(value)
                                                                 ELSE p.cfg.seed_nodes
  <1> DEFINE p == Parser(file)[n]
             r == Parser(file)[n + 1]
             line == file[n + 1]
             text == Text(n + 1, line)
             value == ValueOf(text)
             name == NameOf(text)
             sets == HasSign(text) /\ ~Ignored(text) /\ text[1] # "[" /\ Known(p.section, name)
  <1>0. Len(file) \in Nat /\ n \in 0..Len(file) /\ (n + 1) - 1 = n /\ (n + 1) + 1 = n + 2
    BY LengthIs
  <1>1. line \in Line /\ IsState(p) /\ p.lineno = n
    BY <1>0, ElementIn, ParserStates
  <1>2. r = ParseLine(p, line)
    BY <1>0, ParserSteps
  <1>3. text \in Line
    BY <1>1, TextTypes
  <1>4. value \in Line \/ ~HasSign(text)
    BY <1>3, FindTypes
  <1>5. InServer(n + 2) <=> IF SectionText(text) THEN ServerText(text) ELSE InServer(n + 1)
    BY <1>0, InServerNext
  <1>6. \A m : Sets(n + 1, m) <=> InServer(n + 1) /\ HasSign(text) /\ name = m
    BY DEF Sets
  <1>7. p.section = <<"SERVER">> <=> InServer(n + 1)
    OBVIOUS
  <1> HIDE DEF p, r, line
  <1>8. /\ r.section = IF SectionText(text) THEN Before(Tail(text), Bracket(text)) ELSE p.section
        /\ r.cfg = IF sets THEN handler(p.cfg, name, value) ELSE p.cfg
    <2>1. text = Text(p.lineno + 1, line)
      BY <1>1
    <2>2. ~Indented(line) /\ ~TooLong(line)
      BY DEF line
    <2> HIDE DEF text
    <2> QED BY <1>1, <1>2, <2>1, <2>2, PlainLine
  <1> HIDE DEF text, value, name, sets
  <1>9. r.section = <<"SERVER">> <=> InServer(n + 2)
    BY Zenon, <1>3, <1>5, <1>7, <1>8, HeaderIs
  <1>10. sets <=> Sets(n + 1, <<"PORT">>) \/ Sets(n + 1, <<"SEEDS">>)
    <2>1. sets => Sets(n + 1, <<"PORT">>) \/ Sets(n + 1, <<"SEEDS">>)
      BY <1>6, <1>7 DEF sets, Known
    <2>2. ASSUME NEW m \in {<<"PORT">>, <<"SEEDS">>}, Sets(n + 1, m)
          PROVE  sets
      <3>1. name = m /\ HasSign(text) /\ InServer(n + 1)
        BY <1>6, <2>2
      <3>2. name # <<>> /\ name[1] \notin {Blank, Semicolon, "#", "["}
        BY <2>2, <3>1, Names
      <3>3. text # <<>> /\ text[1] = name[1]
        BY <1>3, <3>2, NameStarts DEF name
      <3>4. ~Ignored(text) /\ text[1] # "["
        BY <3>2, <3>3 DEF Ignored
      <3>5. Known(p.section, name)
        BY <1>7, <2>2, <3>1 DEF Known
      <3> QED BY <3>1, <3>4, <3>5 DEF sets
    <2> QED BY <2>1, <2>2
  <1>11. DOMAIN p.cfg = {"port", "seed_nodes"}
    BY <1>1 DEF IsState
  <1>12. /\ handler(p.cfg, name, value).port =
               IF name = <<"PORT">> THEN atoi(value) ELSE p.cfg.port
         /\ handler(p.cfg, name, value).seed_nodes =
               IF name = <<"PORT">> THEN p.cfg.seed_nodes ELSE seed_nodes(value)
    <2> DEFINE c == p.cfg
    <2>1. DOMAIN c = {"port", "seed_nodes"}
      BY <1>11
    <2> HIDE DEF c
    <2>2. /\ handler(c, name, value).port = IF name = <<"PORT">> THEN atoi(value) ELSE c.port
          /\ handler(c, name, value).seed_nodes =
                 IF name = <<"PORT">> THEN c.seed_nodes ELSE seed_nodes(value)
      BY <2>1, HandlerIs
    <2> QED BY <2>2 DEF c
  <1>13. r.cfg.port = IF Sets(n + 1, <<"PORT">>) THEN atoi(value) ELSE p.cfg.port
    <2>1. CASE Sets(n + 1, <<"PORT">>)
      BY <1>6, <1>8, <1>10, <1>12, <2>1
    <2>2. CASE ~Sets(n + 1, <<"PORT">>)
      <3>1. CASE sets
        <4>1. name = <<"SEEDS">>
          BY <1>6, <1>10, <2>2, <3>1
        <4> QED BY <1>8, <1>12, <2>2, <3>1, <4>1, Names
      <3>2. CASE ~sets
        BY <1>8, <2>2, <3>2
      <3> QED BY <3>1, <3>2
    <2> QED BY <2>1, <2>2
  <1>14. r.cfg.seed_nodes = IF Sets(n + 1, <<"SEEDS">>) THEN seed_nodes(value)
                                                        ELSE p.cfg.seed_nodes
    <2>1. CASE Sets(n + 1, <<"SEEDS">>)
      BY <1>6, <1>8, <1>10, <1>12, <2>1, Names
    <2>2. CASE ~Sets(n + 1, <<"SEEDS">>)
      <3>1. CASE sets
        <4>1. name = <<"PORT">>
          BY <1>6, <1>10, <2>2, <3>1
        <4> QED BY <1>8, <1>12, <2>2, <3>1, <4>1
      <3>2. CASE ~sets
        BY <1>8, <2>2, <3>2
      <3> QED BY <3>1, <3>2
    <2> QED BY <2>1, <2>2
  <1> QED
    BY <1>4, <1>9, <1>13, <1>14 DEF p, r, value, text, line

(* The value that line n sets.                                             *)
Value(n) == ValueOf(Text(n, file[n]))

(* What the lines 1 to n have set.                                         *)
LastSettings(n) ==
    LET ports == SettingsTo(<<"PORT">>, n)
        seeds == SettingsTo(<<"SEEDS">>, n)
        cfg == Parser(file)[n].cfg
    IN  /\ cfg.port = IF ports = {} THEN 1998 ELSE atoi(Value(Highest(ports)))
        /\ cfg.seed_nodes = IF seeds = {} THEN <<>> ELSE seed_nodes(Value(Highest(seeds)))

(* After every line the configuration is what the last settings up to      *)
(* there say: the inductive invariant of LastSettingWins.                  *)
LEMMA SettingsInvariant ==
    ASSUME file \in Seq(Line), \A n \in Lines : ~Indented(file[n]) /\ ~TooLong(file[n])
    PROVE  LastSettings(Len(file))
  <1> DEFINE Server(n) == Parser(file)[n].section = <<"SERVER">> <=> InServer(n + 1)
             S == {n \in Nat : n <= Len(file) => Server(n) /\ LastSettings(n)}
  <1>0. Len(file) \in Nat
    BY LengthIs
  <1>1. 0 \in S
    <2>1. Parser(file)[0] = StartState
      BY <1>0, ParserSteps
    <2>2. StartState.section # <<"SERVER">>
      <3>1. Len(<<"SERVER">>) = 1 /\ Len(<<>>) = 0
        BY EmptyLine
      <3>2. <<"SERVER">> # <<>>
        BY <3>1
      <3> QED BY <3>2 DEF StartState
    <2>3. ~InServer(1)
      BY DEF InServer
    <2>4. Server(0)
      BY <2>1, <2>2, <2>3
    <2>5. SettingsTo(<<"PORT">>, 0) = {} /\ SettingsTo(<<"SEEDS">>, 0) = {}
      BY DEF SettingsTo
    <2>6. StartState.cfg.port = 1998 /\ StartState.cfg.seed_nodes = <<>>
      BY DEF StartState, Defaults
    <2>7. LastSettings(0)
      BY <2>1, <2>5, <2>6 DEF LastSettings
    <2> QED BY <2>4, <2>7
  <1>2. ASSUME NEW n \in Nat, n \in S
        PROVE  n + 1 \in S
    <2> SUFFICES ASSUME n + 1 <= Len(file)
                 PROVE  Server(n + 1) /\ LastSettings(n + 1)
      OBVIOUS
    <2>1. n + 1 \in 1..Len(file) /\ n <= Len(file) /\ (n + 1) + 1 = n + 2
      BY <1>0
    <2>2. Server(n) /\ LastSettings(n)
      BY <1>2, <2>1
    <2>3. ~Indented(file[n + 1]) /\ ~TooLong(file[n + 1])
      BY <2>1 DEF Lines
    <2> DEFINE value == ValueOf(Text(n + 1, file[n + 1]))
               p == Parser(file)[n]
               r == Parser(file)[n + 1]
    <2>4. /\ r.section = <<"SERVER">> <=> InServer(n + 2)
          /\ r.cfg.port = IF Sets(n + 1, <<"PORT">>) THEN atoi(value) ELSE p.cfg.port
          /\ r.cfg.seed_nodes = IF Sets(n + 1, <<"SEEDS">>) THEN seed_nodes(value)
                                                            ELSE p.cfg.seed_nodes
      BY <2>1, <2>2, <2>3, ConfigNext
    <2>5. Server(n + 1)
      BY <2>1, <2>4
    <2> HIDE DEF Server
    <2>6. value = Value(n + 1)
      BY DEF Value
    <2> HIDE DEF value, p, r
    <2> DEFINE ports == SettingsTo(<<"PORT">>, n)
               ports1 == SettingsTo(<<"PORT">>, n + 1)
               seeds == SettingsTo(<<"SEEDS">>, n)
               seeds1 == SettingsTo(<<"SEEDS">>, n + 1)
    <2>7. /\ p.cfg.port = IF ports = {} THEN 1998 ELSE atoi(Value(Highest(ports)))
          /\ p.cfg.seed_nodes = IF seeds = {} THEN <<>> ELSE seed_nodes(Value(Highest(seeds)))
      BY <2>2 DEF LastSettings, p
    <2>8. /\ Sets(n + 1, <<"PORT">>) => ports1 # {} /\ Highest(ports1) = n + 1
          /\ ~Sets(n + 1, <<"PORT">>) => ports1 = ports
      BY Zenon, LastOf
    <2>9. /\ Sets(n + 1, <<"SEEDS">>) => seeds1 # {} /\ Highest(seeds1) = n + 1
          /\ ~Sets(n + 1, <<"SEEDS">>) => seeds1 = seeds
      BY Zenon, LastOf
    <2> HIDE DEF ports, ports1, seeds, seeds1
    <2>10. r.cfg.port = IF ports1 = {} THEN 1998 ELSE atoi(Value(Highest(ports1)))
      <3>1. CASE Sets(n + 1, <<"PORT">>)
        BY <2>4, <2>6, <2>8, <3>1
      <3>2. CASE ~Sets(n + 1, <<"PORT">>)
        BY <2>4, <2>7, <2>8, <3>2
      <3> QED BY <3>1, <3>2
    <2>11. r.cfg.seed_nodes = IF seeds1 = {} THEN <<>> ELSE seed_nodes(Value(Highest(seeds1)))
      <3>1. CASE Sets(n + 1, <<"SEEDS">>)
        BY <2>4, <2>6, <2>9, <3>1
      <3>2. CASE ~Sets(n + 1, <<"SEEDS">>)
        BY <2>4, <2>7, <2>9, <3>2
      <3> QED BY <3>1, <3>2
    <2>12. LastSettings(n + 1)
      BY <2>10, <2>11 DEF LastSettings, r, ports1, seeds1
    <2> QED
      BY <2>5, <2>12
  <1>3. Nat \subseteq S
    <2> HIDE DEF S
    <2> QED BY <1>1, <1>2, NatInductive
  <1> QED
    BY <1>0, <1>3

------------------------------------------------------------------------------
(* Lines that are cut *)

(* w is the start of v.                                                    *)
Starting(w, v) ==
    /\ w \in Line /\ v \in Line /\ Len(w) <= Len(v)
    /\ \A i \in 1..Len(w) : w[i] = v[i]

(* A start of v is the first lexemes of v.                                 *)
LEMMA StartingIs ==
    ASSUME NEW w, NEW v, Starting(w, v)
    PROVE  Len(w) \in 0..Len(v) /\ w = SubSeq(v, 1, Len(w))
  <1>1. w \in Line /\ v \in Line /\ Len(w) <= Len(v) /\ Len(w) \in Nat /\ Len(v) \in Nat
    BY FilledIn DEF Starting
  <1>2. Len(w) \in 0..Len(v)
    BY <1>1
  <1> DEFINE s == SubSeq(v, 1, Len(w))
  <1>3. s \in Line /\ Len(s) = Len(w) /\ \A i \in 1..Len(w) : s[i] = v[i]
    BY <1>1, <1>2, PrefixIs
  <1> HIDE DEF s
  <1>4. \A i \in 1..Len(w) : w[i] = s[i]
    BY <1>3 DEF Starting
  <1>5. w = s
    BY <1>1, <1>3, <1>4, SameLine
  <1> QED BY <1>2, <1>5 DEF s

(* The first lexemes of v are a start of v.                                *)
LEMMA PrefixStarts ==
    ASSUME NEW v \in Line, NEW k \in 0..Len(v)
    PROVE  Starting(SubSeq(v, 1, k), v) /\ Len(SubSeq(v, 1, k)) = k
  <1>1. Len(v) \in Nat
    BY FilledIn
  <1> DEFINE s == SubSeq(v, 1, k)
  <1>2. s \in Line /\ Len(s) = k /\ \A i \in 1..k : s[i] = v[i]
    BY PrefixIs
  <1> HIDE DEF s
  <1>3. Starting(s, v) /\ Len(s) = k
    BY <1>1, <1>2 DEF Starting
  <1> QED BY <1>3 DEF s

(* The start of a value keeps its start under each step of the parser.     *)
LEMMA UncommentedStarts ==
    ASSUME NEW w, NEW v, Starting(w, v)
    PROVE  Starting(Uncommented(w), Uncommented(v))
  <1> DEFINE c == ini_find_chars_or_comment(v, {})
             d == ini_find_chars_or_comment(w, {})
  <1>0. /\ w \in Line /\ v \in Line /\ Len(w) <= Len(v) /\ Len(w) \in Nat /\ Len(v) \in Nat
        /\ \A i \in 1..Len(w) : w[i] = v[i]
    BY FilledIn DEF Starting
  <1>1. /\ c \in 1..(Len(v) + 1) /\ \A i \in 1..(c - 1) : ~Stop(v, {}, i)
        /\ c <= Len(v) => Stop(v, {}, c)
    BY <1>0, FindHas
  <1>2. /\ d \in 1..(Len(w) + 1) /\ \A i \in 1..(d - 1) : ~Stop(w, {}, i)
        /\ d <= Len(w) => Stop(w, {}, d)
    BY <1>0, FindHas
  <1>3. Uncommented(v) = Before(v, c) /\ Uncommented(w) = Before(w, d)
    BY DEF Uncommented
  <1> HIDE DEF c, d
  <1>4. \A i \in 1..Len(w) : Stop(w, {}, i) <=> Stop(v, {}, i)
    <2> TAKE i \in 1..Len(w)
    <2>1. i > 1 => i - 1 \in 1..Len(w)
      BY <1>0
    <2> QED BY <1>0, <2>1 DEF Stop
  <1>5. d <= c
    <2> SUFFICES ASSUME ~(d <= c) PROVE FALSE
      OBVIOUS
    <2>1. c \in 1..(d - 1) /\ c \in 1..Len(w) /\ c <= Len(v)
      BY <1>0, <1>1, <1>2
    <2> QED BY <1>1, <1>2, <1>4, <2>1
  <1>6. /\ Before(v, c) \in Line /\ Len(Before(v, c)) = c - 1
        /\ \A i \in 1..(c - 1) : Before(v, c)[i] = v[i]
    BY <1>0, <1>1, BeforeIs
  <1>7. /\ Before(w, d) \in Line /\ Len(Before(w, d)) = d - 1
        /\ \A i \in 1..(d - 1) : Before(w, d)[i] = w[i]
    BY <1>0, <1>2, BeforeIs
  <1>8. d - 1 <= c - 1 /\ \A i \in 1..(d - 1) : i \in 1..(c - 1) /\ i \in 1..Len(w)
    BY <1>0, <1>1, <1>2, <1>5
  <1> QED
    BY <1>0, <1>3, <1>6, <1>7, <1>8 DEF Starting

(* ini_lskip keeps starts: of the start of a value it leaves a start of    *)
(* what it leaves of the value.                                            *)
LEMMA LskipStarts ==
    ASSUME NEW w, NEW v, Starting(w, v)
    PROVE  Starting(ini_lskip(w), ini_lskip(v))
  <1>0. /\ w \in Line /\ v \in Line /\ Len(w) <= Len(v) /\ Len(w) \in Nat /\ Len(v) \in Nat
        /\ \A i \in 1..Len(w) : w[i] = v[i]
    BY FilledIn DEF Starting
  <1>1. CASE \A i \in 1..Len(w) : w[i] = Blank
    <2>1. ini_lskip(w) = <<>>
      BY <1>0, <1>1, LskipBlank
    <2>2. ini_lskip(v) \in Line
      BY <1>0, StrippedTypes
    <2>3. Len(ini_lskip(v)) \in Nat
      BY <2>2, FilledIn
    <2> DEFINE x == ini_lskip(v)
    <2> HIDE DEF x
    <2>4. Starting(<<>>, x)
      BY <2>2, <2>3, EmptyLine DEF Starting, x
    <2> QED BY <2>1, <2>4 DEF x
  <1>2. CASE \E i \in 1..Len(w) : w[i] # Blank
    <2>1. PICK j \in 1..Len(w) : /\ ini_lskip(w) = SubSeq(w, j, Len(w))
                                 /\ w[j] # Blank
                                 /\ \A i \in 1..(j - 1) : w[i] = Blank
      BY Zenon, <1>0, <1>2, LskipHas
    <2>2. j \in 1..Len(v) /\ v[j] # Blank /\ \A i \in 1..(j - 1) : v[i] = Blank
      <3>1. j \in 1..Len(v) /\ \A i \in 1..(j - 1) : i \in 1..Len(w)
        BY <1>0
      <3> QED BY <1>0, <2>1, <3>1
    <2>3. ini_lskip(v) = SubSeq(v, j, Len(v))
      BY <1>0, <2>2, LskipIs
    <2> DEFINE x == SubSeq(w, j, Len(w))
               y == SubSeq(v, j, Len(v))
    <2>4. j \in 1..(Len(w) + 1) /\ j \in 1..(Len(v) + 1)
      BY <1>0
    <2>5. /\ x \in Line /\ Len(x) = Len(w) - j + 1
          /\ \A i \in 1..(Len(w) - j + 1) : x[i] = w[j + i - 1]
      BY <1>0, <2>4, SuffixIs
    <2>6. /\ y \in Line /\ Len(y) = Len(v) - j + 1
          /\ \A i \in 1..(Len(v) - j + 1) : y[i] = v[j + i - 1]
      BY <1>0, <2>4, SuffixIs
    <2> HIDE DEF x, y
    <2>7. /\ Len(w) - j + 1 <= Len(v) - j + 1
          /\ \A i \in 1..(Len(w) - j + 1) : i \in 1..(Len(v) - j + 1) /\ j + i - 1 \in 1..Len(w)
      BY <1>0
    <2>8. Starting(x, y)
      BY <1>0, <2>5, <2>6, <2>7 DEF Starting
    <2> QED BY <2>1, <2>3, <2>8 DEF x, y
  <1> QED
    BY <1>1, <1>2

(* ini_rstrip does, too.                                                   *)
LEMMA RstripStarts ==
    ASSUME NEW w, NEW v, Starting(w, v)
    PROVE  Starting(ini_rstrip(w), ini_rstrip(v))
  <1>0. /\ w \in Line /\ v \in Line /\ Len(w) <= Len(v) /\ Len(w) \in Nat /\ Len(v) \in Nat
        /\ \A i \in 1..Len(w) : w[i] = v[i]
    BY FilledIn DEF Starting
  <1>1. PICK k \in 0..Len(w) : ini_rstrip(w) = SubSeq(w, 1, k) /\ (k = 0 \/ w[k] # Blank)
    BY <1>0, RstripHas
  <1>2. PICK m \in 0..Len(v) : /\ ini_rstrip(v) = SubSeq(v, 1, m)
                               /\ \A i \in (m + 1)..Len(v) : v[i] = Blank
    BY <1>0, RstripHas
  <1>3. k <= m
    <2> SUFFICES ASSUME ~(k <= m) PROVE FALSE
      OBVIOUS
    <2>1. k # 0 /\ k \in 1..Len(w) /\ k \in (m + 1)..Len(v)
      BY <1>0
    <2> QED BY <1>0, <1>1, <1>2, <2>1
  <1> DEFINE x == SubSeq(w, 1, k)
             y == SubSeq(v, 1, m)
  <1>4. x \in Line /\ Len(x) = k /\ \A i \in 1..k : x[i] = w[i]
    BY <1>0, PrefixIs
  <1>5. y \in Line /\ Len(y) = m /\ \A i \in 1..m : y[i] = v[i]
    BY <1>0, PrefixIs
  <1> HIDE DEF x, y
  <1>6. \A i \in 1..k : i \in 1..m /\ i \in 1..Len(w)
    BY <1>0, <1>3
  <1>7. Starting(x, y)
    BY <1>0, <1>3, <1>4, <1>5, <1>6 DEF Starting
  <1> QED
    BY <1>1, <1>2, <1>7 DEF x, y

(* value.                                                                  *)
LEMMA CutLine ==
    ASSUME NEW line \in Line, HasSign(line), NEW text, Starting(text, line),
           SignAt(line) <= Len(text)
    PROVE  /\ HasSign(text) /\ NameOf(text) = NameOf(line)
           /\ Starting(ValueOf(text), ValueOf(line))
  <1> DEFINE e == SignAt(line)
  <1>0. /\ text \in Line /\ Len(text) <= Len(line) /\ Len(text) \in Nat /\ Len(line) \in Nat
        /\ \A i \in 1..Len(text) : text[i] = line[i]
    BY FilledIn DEF Starting
  <1>1. e \in 1..(Len(line) + 1) /\ \A i \in 1..(e - 1) : ~Stop(line, Signs, i)
    BY FindHas DEF SignAt, Signs
  <1>2. e <= Len(text) /\ line[e] \in Signs
    BY DEF HasSign, Signs
  <1> HIDE DEF e
  <1>3. SignAt(text) = e
    <2>1. e \in 1..(Len(text) + 1) /\ e \in 1..Len(text)
      BY <1>0, <1>1, <1>2
    <2>2. Stop(text, Signs, e)
      BY <1>0, <1>2, <2>1 DEF Stop
    <2>3. \A i \in 1..(e - 1) : ~Stop(text, Signs, i)
      <3> TAKE i \in 1..(e - 1)
      <3>1. i \in 1..Len(text) /\ (i > 1 => i - 1 \in 1..Len(text))
        BY <1>0, <2>1
      <3> QED BY <1>0, <1>1, <3>1 DEF Stop
    <2> QED
      BY <1>0, <2>1, <2>2, <2>3, FindIs DEF SignAt, Signs
  <1>4. e \in 1..Len(text)
    BY <1>0, <1>1, <1>2
  <1>5. HasSign(text)
    BY <1>0, <1>2, <1>3, <1>4 DEF HasSign, Signs
  <1>6. Before(text, e) = Before(line, e)
    <2> DEFINE x == Before(text, e)
               y == Before(line, e)
    <2>0. e \in 1..(Len(text) + 1) /\ \A i \in 1..(e - 1) : i \in 1..Len(text)
      BY <1>0, <1>4
    <2>1. x \in Line /\ Len(x) = e - 1 /\ \A i \in 1..(e - 1) : x[i] = text[i]
      BY <1>0, <2>0, BeforeIs
    <2>2. y \in Line /\ Len(y) = e - 1 /\ \A i \in 1..(e - 1) : y[i] = line[i]
      BY <1>1, BeforeIs
    <2> HIDE DEF x, y
    <2>3. x = y
      BY <1>0, <2>0, <2>1, <2>2, SameLine
    <2> QED BY <2>3 DEF x, y
  <1>7. NameOf(text) = NameOf(line)
    BY <1>3, <1>6 DEF NameOf, e
  <1>8. Starting(After(text, e), After(line, e))
    <2> DEFINE x == After(text, e)
               y == After(line, e)
    <2>0. e \in 0..Len(text) /\ e \in 0..Len(line)
      BY <1>0, <1>4
    <2>1. x \in Line /\ Len(x) = Len(text) - e /\ \A i \in 1..(Len(text) - e) : x[i] = text[e + i]
      BY <1>0, <2>0, AfterIs
    <2>2. y \in Line /\ Len(y) = Len(line) - e /\ \A i \in 1..(Len(line) - e) : y[i] = line[e + i]
      BY <2>0, AfterIs
    <2> HIDE DEF x, y
    <2>3. /\ Len(text) - e <= Len(line) - e
          /\ \A i \in 1..(Len(text) - e) : i \in 1..(Len(line) - e) /\ e + i \in 1..Len(text)
      BY <1>0, <1>4
    <2>4. Starting(x, y)
      BY <1>0, <2>1, <2>2, <2>3 DEF Starting
    <2> QED BY <2>4 DEF x, y
  <1>9. Starting(ini_rstrip(ini_lskip(Uncommented(After(text, e)))),
                 ini_rstrip(ini_lskip(Uncommented(After(line, e)))))
    BY <1>8, UncommentedStarts, LskipStarts, RstripStarts
  <1>10. Starting(ValueOf(text), ValueOf(line))
    BY <1>3, <1>9 DEF ValueOf, e
  <1> QED
    BY <1>5, <1>7, <1>10

(* What is parsed of a line that is cut: a start of it that has the sign.  *)
LEMMA CutText ==
    ASSUME NEW n, NEW line \in Line, TooLong(line), ~Indented(line),
           SignAt(line) < INI_MAX_LINE, HasSign(line), line # <<>>, line[1] # "BOM"
    PROVE  LET text == Text(n, Buffer(line))
           IN  Starting(text, line) /\ SignAt(line) <= Len(text)
  <1> DEFINE e == SignAt(line)
             m == INI_MAX_LINE - 1
             b == Buffer(line)
             text == Text(n, b)
  <1>0. /\ Len(line) \in Nat /\ INI_MAX_LINE \in Nat /\ Len(line) >= m
        /\ e \in 1..Len(line) /\ e <= m /\ line[e] # Blank /\ INI_MAX_LINE > 0 /\ m \in 0..Len(line)
    <2>1. Len(line) \in Nat /\ INI_MAX_LINE \in Nat /\ Len(line) >= m
      BY FilledIn, ConfigAssumption DEF TooLong
    <2>2. e \in 1..(Len(line) + 1) /\ e <= Len(line) /\ line[e] \in {"=", ":"}
      BY FindTypes DEF HasSign
    <2> QED BY <2>1, <2>2, Characters
  <1>1. b = SubSeq(line, 1, m)
    BY <1>0, BufferIs
  <1>2. b \in Line /\ Len(b) = m /\ \A i \in 1..m : b[i] = line[i]
    BY <1>0, <1>1, PrefixIs
  <1>3. line[1] # Blank
    BY DEF Indented
  <1> HIDE DEF b, m, e
  <1>4. m \in Nat /\ e \in 1..m /\ 1 \in 1..m
    BY <1>0 DEF m
  <1>5. b # <<>> /\ b[1] = line[1]
    BY <1>2, <1>4, EmptyLine
  <1>6. text = Stripped(b)
    BY <1>5 DEF Text, Stripped
  <1> HIDE DEF text
  <1>7. PICK k \in 1..Len(b) : /\ Stripped(b) = SubSeq(b, 1, k)
                               /\ \A i \in (k + 1)..Len(b) : b[i] = Blank
    BY <1>2, <1>3, <1>5, StrippedPrefix
  <1>8. e <= k
    <2> SUFFICES ASSUME ~(e <= k) PROVE FALSE
      OBVIOUS
    <2>1. e \in (k + 1)..Len(b)
      BY <1>2, <1>4
    <2> QED BY <1>0, <1>2, <1>4, <1>7, <2>1
  <1>9. k \in 0..Len(b)
    BY <1>2, <1>4
  <1>10. text \in Line /\ Len(text) = k /\ \A i \in 1..k : text[i] = b[i]
    BY <1>2, <1>6, <1>7, <1>9, PrefixIs
  <1>11. k <= Len(line) /\ \A i \in 1..k : i \in 1..m
    BY <1>0, <1>2, <1>4
  <1>12. Starting(text, line)
    BY <1>2, <1>10, <1>11 DEF Starting
  <1> QED
    BY <1>8, <1>10, <1>12 DEF text, b, e

(* A line that sets SEEDS starts with neither a byte order mark nor a      *)
(* bracket.                                                                *)
LEMMA NotBOM == <<"SEEDS">> # <<>> /\ <<"SEEDS">>[1] = "SEEDS" /\ "SEEDS" # "BOM" /\ "SEEDS" # "["
  BY Names

------------------------------------------------------------------------------
(* Words *)

(* Where the word that starts at i ends: the blank after it, or the end.   *)
WordEnd(s, i) == Lowest({j \in i..Len(s) : s[j] = Blank} \cup {Len(s) + 1})

(* A word has no blank, and a blank or the end of the value after it.      *)
LEMMA WordEndHas ==
    ASSUME NEW s \in Line, NEW i \in 1..Len(s)
    PROVE  /\ WordEnd(s, i) \in i..(Len(s) + 1)
           /\ \A j \in i..(WordEnd(s, i) - 1) : s[j] # Blank
           /\ WordEnd(s, i) <= Len(s) => s[WordEnd(s, i)] = Blank
  <1> DEFINE S == {j \in i..Len(s) : s[j] = Blank} \cup {Len(s) + 1}
             e == WordEnd(s, i)
  <1>0. Len(s) \in Nat
    BY FilledIn
  <1>1. S \subseteq Nat /\ S # {} /\ e = Lowest(S)
    BY <1>0 DEF WordEnd
  <1>2. e \in S /\ \A k \in S : e <= k
    <2> HIDE DEF S, e
    <2> QED BY Zenon, <1>1, LowestIs
  <1> HIDE DEF e
  <1>3. e \in i..(Len(s) + 1)
    BY <1>0, <1>2
  <1>4. \A j \in i..(e - 1) : s[j] # Blank
    <2> SUFFICES ASSUME NEW j \in i..(e - 1), s[j] = Blank
                 PROVE  FALSE
      OBVIOUS
    <2>1. j \in S
      BY <1>0, <1>3
    <2> QED
      BY <1>0, <1>2, <1>3, <2>1
  <1>5. e <= Len(s) => s[e] = Blank
    BY <1>0, <1>2
  <1> QED
    BY <1>3, <1>4, <1>5 DEF e

(* Nothing but the end of the word is such a place.                        *)
LEMMA WordEndIs ==
    ASSUME NEW s \in Line, NEW i \in 1..Len(s), NEW e \in i..(Len(s) + 1),
           \A j \in i..(e - 1) : s[j] # Blank, e <= Len(s) => s[e] = Blank
    PROVE  WordEnd(s, i) = e
  <1>0. Len(s) \in Nat
    BY FilledIn
  <1> DEFINE f == WordEnd(s, i)
  <1>1. /\ f \in i..(Len(s) + 1)
        /\ \A j \in i..(f - 1) : s[j] # Blank
        /\ f <= Len(s) => s[f] = Blank
    BY WordEndHas
  <1> HIDE DEF f
  <1>2. ~(f < e) /\ ~(e < f)
    BY <1>0, <1>1
  <1>3. f = e
    BY <1>0, <1>1, <1>2
  <1> QED
    BY <1>3 DEF f

(* The lexemes of a word; it is a seed iff one of them is a colon.         *)
LEMMA WordIs ==
    ASSUME NEW s \in Line, NEW i \in 1..Len(s)
    PROVE  /\ WordAt(s, i) \in Line
           /\ Len(WordAt(s, i)) = WordEnd(s, i) - i
           /\ \A j \in 1..(WordEnd(s, i) - i) : WordAt(s, i)[j] = s[i + j - 1]
           /\ IsSeed(WordAt(s, i)) <=> \E q \in i..(WordEnd(s, i) - 1) : s[q] = ":"
  <1> DEFINE e == WordEnd(s, i)
             w == WordAt(s, i)
  <1>0. Len(s) \in Nat /\ \A j \in 1..Len(s) : s[j] \in Lexeme
    BY LengthIs, ElementIn DEF Line
  <1>1. e \in i..(Len(s) + 1)
    BY WordEndHas
  <1>2. w = SubSeq(s, i, e - 1)
    BY DEF WordAt, WordEnd
  <1> HIDE DEF e, w
  <1>3. e - 1 \in Int /\ i \in Int /\ \A j \in i..(e - 1) : s[j] \in Lexeme
    BY <1>0, <1>1
  <1>4. /\ w \in Line
        /\ Len(w) = e - i
        /\ \A j \in 1..(e - i) : w[j] = s[i + j - 1]
    <2>1. /\ w \in Line
          /\ Len(w) = IF i <= e - 1 THEN e - 1 - i + 1 ELSE 0
          /\ \A j \in 1..(e - 1 - i + 1) : w[j] = s[i + j - 1]
      BY <1>2, <1>3, PartIs DEF Line
    <2> QED
      BY <1>0, <1>1, <2>1
  <1>5. IsSeed(w) <=> \E q \in i..(e - 1) : s[q] = ":"
    <2>1. ASSUME NEW q \in i..(e - 1), s[q] = ":"
          PROVE  IsSeed(w)
      <3>1. q - i + 1 \in 1..(e - i) /\ i + (q - i + 1) - 1 = q
        BY <1>0, <1>1
      <3>2. w[q - i + 1] = ":"
        BY <1>4, <2>1, <3>1
      <3> QED
        BY <1>4, <3>1, <3>2 DEF IsSeed, Places
    <2>2. ASSUME IsSeed(w)
          PROVE  \E q \in i..(e - 1) : s[q] = ":"
      <3>1. PICK j \in 1..(e - i) : w[j] = ":"
        BY <1>4, <2>2 DEF IsSeed, Places
      <3>2. i + j - 1 \in i..(e - 1) /\ s[i + j - 1] = ":"
        BY <1>0, <1>1, <1>4, <3>1
      <3> QED
        BY <3>2
    <2> QED
      BY <2>1, <2>2
  <1> QED
    BY <1>4, <1>5 DEF e, w

------------------------------------------------------------------------------
(* Finite sets *)

Finite == INSTANCE FiniteSetTheorems

(* The library's theorems are about the same sets and numbers.             *)
LEMMA SameFinite ==
    ASSUME NEW S
    PROVE  (Finite!IsFiniteSet(S) <=> IsFiniteSet(S)) /\ Finite!Cardinality(S) = Cardinality(S)
  <1>1. Finite!IsFiniteSet(S) <=> IsFiniteSet(S)
    BY DEF Finite!IsFiniteSet, IsFiniteSet
  <1>2. Finite!Cardinality(S) = Cardinality(S)
    BY DEF Finite!Cardinality, Cardinality
  <1> QED
    BY <1>1, <1>2

(* The number of elements of a finite set.                                 *)
LEMMA NumberOf ==
    ASSUME NEW S, IsFiniteSet(S)
    PROVE  Cardinality(S) \in Nat /\ (Cardinality(S) = 0 <=> S = {})
  <1>1. Finite!IsFiniteSet(S) /\ Finite!Cardinality(S) = Cardinality(S)
    BY SameFinite
  <1>2. Finite!Cardinality(S) \in Nat
    BY <1>1, Finite!FS_CardinalityType
  <1>3. Finite!Cardinality(S) = 0 <=> S = {}
    BY <1>1, Finite!FS_EmptySet
  <1> QED
    BY <1>1, <1>2, <1>3

(* A part of a finite set.                                                 *)
LEMMA SubsetOf ==
    ASSUME NEW S, IsFiniteSet(S), NEW T \in SUBSET S
    PROVE  /\ IsFiniteSet(T)
           /\ Cardinality(T) <= Cardinality(S)
           /\ Cardinality(S) = Cardinality(T) => S = T
  <1>1. /\ Finite!IsFiniteSet(S) /\ Finite!Cardinality(S) = Cardinality(S)
        /\ (Finite!IsFiniteSet(T) <=> IsFiniteSet(T)) /\ Finite!Cardinality(T) = Cardinality(T)
    BY SameFinite
  <1> QED
    BY <1>1, Finite!FS_Subset

(* A finite set without one element.                                       *)
LEMMA OneLess ==
    ASSUME NEW S, NEW x, IsFiniteSet(S)
    PROVE  /\ IsFiniteSet(S \ {x})
           /\ Cardinality(S \ {x}) = IF x \in S THEN Cardinality(S) - 1 ELSE Cardinality(S)
  <1> DEFINE T == S \ {x}
  <1>1. /\ Finite!IsFiniteSet(S) /\ Finite!Cardinality(S) = Cardinality(S)
        /\ (Finite!IsFiniteSet(T) <=> IsFiniteSet(T)) /\ Finite!Cardinality(T) = Cardinality(T)
    BY SameFinite
  <1>2. Finite!IsFiniteSet(T) /\ Finite!Cardinality(T) =
            IF x \in S THEN Finite!Cardinality(S) - 1 ELSE Finite!Cardinality(S)
    BY <1>1, Finite!FS_RemoveElement
  <1> HIDE DEF T
  <1>3. IsFiniteSet(T) /\ Cardinality(T) = IF x \in S THEN Cardinality(S) - 1 ELSE Cardinality(S)
    BY <1>1, <1>2
  <1> QED
    BY <1>3 DEF T

(* A set that a function maps one to one into a finite set.                *)
LEMMA NoMoreThan ==
    ASSUME NEW S, NEW T, IsFiniteSet(T), NEW f \in [S -> T],
           \A i, j \in S : f[i] = f[j] => i = j
    PROVE  IsFiniteSet(S) /\ Cardinality(S) <= Cardinality(T)
  <1>1. f \in Finite!Injection(S, T)
    BY DEF Finite!Injection, Finite!IsInjective
  <1>2. /\ Finite!IsFiniteSet(T) /\ Finite!Cardinality(T) = Cardinality(T)
        /\ (Finite!IsFiniteSet(S) <=> IsFiniteSet(S)) /\ Finite!Cardinality(S) = Cardinality(S)
    BY SameFinite
  <1>3. Finite!IsFiniteSet(S) /\ Finite!Cardinality(S) <= Finite!Cardinality(T)
    BY <1>1, <1>2, Finite!FS_Injection
  <1> QED
    BY <1>2, <1>3

(* An interval.                                                            *)
LEMMA IntervalFinite ==
    ASSUME NEW a \in Int, NEW b \in Int
    PROVE  IsFiniteSet(a..b)
  <1>1. Finite!IsFiniteSet(a..b)
    BY Finite!FS_Interval
  <1> QED
    BY <1>1, SameFinite

------------------------------------------------------------------------------
(* Seeds *)

(* A set of naturals up to b is finite.                                    *)
LEMMA FiniteBelow ==
    ASSUME NEW b \in Nat, NEW S, S \subseteq 0..b
    PROVE  /\ IsFiniteSet(S) /\ Cardinality(S) \in Nat /\ S \subseteq Nat
           /\ \A k \in S : k <= b
  <1>1. IsFiniteSet(0..b)
    BY IntervalFinite
  <1>2. IsFiniteSet(S)
    BY Zenon, <1>1, SubsetOf
  <1>3. Cardinality(S) \in Nat
    BY <1>2, NumberOf
  <1>4. S \subseteq Nat /\ \A k \in S : k <= b
    OBVIOUS
  <1> QED
    BY <1>2, <1>3, <1>4

(* Among finitely many naturals, every rank is the rank of one of them.    *)
LEMMA RankHas ==
    ASSUME NEW b \in Nat, NEW S, S \subseteq 0..b, NEW n \in 1..Cardinality(S)
    PROVE  \E i \in S : Rank(S, i) = n
  <1> DEFINE U(i) == {j \in S : j <= i}
             T == {i \in S : Cardinality(U(i)) >= n}
  <1>1. /\ IsFiniteSet(S) /\ Cardinality(S) \in Nat /\ S \subseteq Nat
        /\ \A k \in S : k <= b
    BY Zenon, FiniteBelow
  <1>2. \A i : IsFiniteSet(U(i)) /\ Cardinality(U(i)) \in Nat
    BY <1>1, SubsetOf, NumberOf
  <1>3. S # {}
    BY <1>1, NumberOf
  <1>4. Highest(S) \in S /\ \A k \in S : k <= Highest(S)
    BY Zenon, <1>1, <1>3, HighestIs
  <1>5. U(Highest(S)) = S
    BY Zenon, <1>4
  <1>6. Highest(S) \in T
    BY <1>1, <1>4, <1>5
  <1>7. T \subseteq Nat /\ T # {}
    BY Zenon, <1>1, <1>6
  <1>8. PICK m \in T : \A k \in T : m <= k
    <2> HIDE DEF T
    <2> QED BY Zenon, <1>7, Least
  <1>9. m \in S /\ Cardinality(U(m)) >= n
    BY <1>8
  <1>10. ~(Cardinality(U(m)) > n)
    <2> SUFFICES ASSUME Cardinality(U(m)) > n
                 PROVE  FALSE
      OBVIOUS
    <2> DEFINE V == U(m) \ {m}
    <2>1. m \in U(m)
      BY <1>1, <1>9
    <2>2. IsFiniteSet(V) /\ Cardinality(V) = Cardinality(U(m)) - 1
      <3> HIDE DEF U
      <3> QED BY <1>2, <2>1, OneLess
    <2>3. Cardinality(V) >= n /\ V # {}
      <3>1. Cardinality(V) >= n
        <4> HIDE DEF U, V
        <4> QED BY <1>2, <2>2
      <3> HIDE DEF V
      <3> QED BY <2>2, <3>1, NumberOf
    <2>4. V \subseteq Nat /\ \A k \in V : k <= b
      BY Zenon, <1>1
    <2>5. Highest(V) \in V /\ \A k \in V : k <= Highest(V)
      <3> HIDE DEF V
      <3> QED BY Zenon, <2>3, <2>4, HighestIs
    <2> DEFINE k == Highest(V)
    <2>6. k \in V /\ \A q \in V : q <= k
      BY <2>5
    <2> HIDE DEF k
    <2>7. k \in S /\ k < m /\ k \in Nat /\ m \in Nat
      BY <1>1, <1>9, <2>6
    <2>8. U(k) = V
      <3>1. \A q \in U(k) : q \in V
        BY <1>1, <2>7
      <3>2. \A q \in V : q \in U(k)
        BY <1>1, <2>6
      <3> HIDE DEF U, V
      <3>3. U(k) \subseteq V /\ V \subseteq U(k)
        BY <3>1, <3>2
      <3> QED BY <3>3
    <2>9. k \in T
      BY <2>3, <2>7, <2>8
    <2> QED
      BY <1>8, <2>7, <2>9
  <1>11. Cardinality(U(m)) = n
    <2> HIDE DEF U
    <2> QED BY <1>2, <1>9, <1>10
  <1> QED
    BY Zenon, <1>9, <1>11 DEF Rank

(* Two of them do not have the same rank.                                  *)
LEMMA RankIs ==
    ASSUME NEW b \in Nat, NEW S, S \subseteq 0..b, NEW h \in S, NEW i \in S,
           Rank(S, h) = Rank(S, i)
    PROVE  h = i
  <1> DEFINE U(k) == {j \in S : j <= k}
  <1>1. IsFiniteSet(S) /\ S \subseteq Nat
    BY Zenon, FiniteBelow
  <1>2. \A k : IsFiniteSet(U(k))
    BY <1>1, SubsetOf
  <1>3. ASSUME NEW x \in S, NEW y \in S, x < y, Cardinality(U(x)) = Cardinality(U(y))
        PROVE  FALSE
    <2>1. U(x) \in SUBSET U(y)
      <3>1. \A q \in U(x) : q \in U(y)
        BY <1>1, <1>3
      <3> HIDE DEF U
      <3> QED BY <3>1
    <2>2. U(x) = U(y)
      <3> HIDE DEF U
      <3> QED BY <1>2, <1>3, <2>1, SubsetOf
    <2>3. y \in U(y) /\ y \notin U(x)
      BY <1>1, <1>3
    <2> QED
      BY <2>2, <2>3
  <1>4. Cardinality(U(h)) = Cardinality(U(i))
    BY DEF Rank
  <1>5. ~(h < i) /\ ~(i < h)
    <2> HIDE DEF U
    <2> QED BY <1>3, <1>4
  <1> QED
    BY <1>1, <1>5

(* Where the n-th seed of a value starts.                                  *)
SeedAt(value, n) ==
    CHOOSE i \in SeedsAt(value) : Rank(SeedsAt(value), i) = n

(* The seeds start inside the value, and there are finitely many.          *)
LEMMA SeedsIn ==
    ASSUME NEW v \in Line
    PROVE  /\ Len(v) \in Nat /\ SeedsAt(v) \subseteq 0..Len(v) /\ SeedsAt(v) \subseteq 1..Len(v)
           /\ IsFiniteSet(SeedsAt(v)) /\ Cardinality(SeedsAt(v)) \in Nat
  <1>1. Len(v) \in Nat
    BY FilledIn
  <1>2. SeedsAt(v) \subseteq 0..Len(v) /\ SeedsAt(v) \subseteq 1..Len(v)
    BY <1>1 DEF SeedsAt, Starts, Filled
  <1> QED
    BY <1>1, <1>2, FiniteBelow

(* The n-th seed is the one of rank n, and the only one.                   *)
LEMMA SeedAtIs ==
    ASSUME NEW v \in Line, NEW n \in 1..Cardinality(SeedsAt(v))
    PROVE  /\ SeedAt(v, n) \in SeedsAt(v)
           /\ Rank(SeedsAt(v), SeedAt(v, n)) = n
           /\ \A i \in SeedsAt(v) : Rank(SeedsAt(v), i) = n => i = SeedAt(v, n)
  <1> DEFINE S == SeedsAt(v)
             c == SeedAt(v, n)
  <1>1. Len(v) \in Nat /\ S \subseteq 0..Len(v)
    BY SeedsIn
  <1>2. \E i \in S : Rank(S, i) = n
    <2> HIDE DEF S
    <2>1. n \in 1..Cardinality(S)
      BY DEF S
    <2> QED BY Zenon, <1>1, <2>1, RankHas
  <1>3. c \in S /\ Rank(S, c) = n
    BY <1>2 DEF SeedAt
  <1> HIDE DEF S, c
  <1>4. \A i \in S : Rank(S, i) = n => i = c
    BY Zenon, <1>1, <1>3, RankIs
  <1> QED
    BY <1>3, <1>4 DEF S, c

(* A seed follows a blank, unless it is at the start: there are at most as *)
(* many as handler has allocated.                                          *)
LEMMA RoomForAll ==
    ASSUME NEW v \in Line
    PROVE  /\ Allocated(v) \in Nat
           /\ Cardinality(SeedsAt(v)) <= Allocated(v)
  <1> DEFINE B == Places(v, {Blank})
             T == Starts(v)
             A == T \ {1}
             f == [i \in A |-> i - 1]
  <1>1. Len(v) \in Nat
    BY FilledIn
  <1>2. IsFiniteSet(1..Len(v))
    BY <1>1, IntervalFinite
  <1>3. IsFiniteSet(B) /\ Cardinality(B) \in Nat
    <2>1. B \in SUBSET (1..Len(v))
      BY DEF Places
    <2> QED
      BY Zenon, <1>2, <2>1, SubsetOf, NumberOf
  <1>4. IsFiniteSet(T) /\ Cardinality(T) \in Nat
    <2>1. T \in SUBSET (1..Len(v))
      BY DEF Starts, Filled
    <2> QED
      BY <1>2, <2>1, SubsetOf, NumberOf
  <1>5. f \in [A -> B] /\ \A i, j \in A : f[i] = f[j] => i = j
    <2>1. \A i \in A : i - 1 \in B
      BY <1>1 DEF Starts, Filled, Places
    <2>2. \A i \in A : i \in Int
      BY <1>1 DEF Starts, Filled
    <2> HIDE DEF A, B
    <2> QED
      BY <2>1, <2>2
  <1>6. IsFiniteSet(A) /\ Cardinality(A) <= Cardinality(B)
    <2> HIDE DEF A, B, f
    <2> QED BY <1>3, <1>5, NoMoreThan
  <1>7. Cardinality(T) <= Cardinality(A) + 1 /\ Cardinality(A) \in Nat
    <2> HIDE DEF T
    <2>1. Cardinality(A) = IF 1 \in T THEN Cardinality(T) - 1 ELSE Cardinality(T)
      BY Zenon, <1>4, OneLess
    <2>2. Cardinality(A) \in Nat
      BY <1>6, NumberOf
    <2> HIDE DEF A
    <2> QED
      BY <1>4, <2>1, <2>2
  <1>8. Cardinality(SeedsAt(v)) <= Cardinality(T) /\ Cardinality(SeedsAt(v)) \in Nat
    <2>1. SeedsAt(v) \in SUBSET T
      BY DEF SeedsAt
    <2> QED
      BY <1>4, <2>1, SubsetOf, SeedsIn
  <1>9. Allocated(v) = 1 + Cardinality(B)
    BY DEF Allocated
  <1> HIDE DEF A, B, T
  <1> QED
    BY <1>3, <1>4, <1>6, <1>7, <1>8, <1>9

(* The handler's list has every seed of the value.                         *)
LEMMA SeedNodesAre ==
    ASSUME NEW v \in Line
    PROVE  /\ seed_nodes(v) = [n \in 1..Cardinality(SeedsAt(v)) |-> NthSeed(v, n)]
           /\ \A n : NthSeed(v, n) = Seed(WordAt(v, SeedAt(v, n)))
  <1>1. Cardinality(SeedsAt(v)) \in Nat /\ Allocated(v) \in Nat
        /\ Cardinality(SeedsAt(v)) <= Allocated(v)
    BY SeedsIn, RoomForAll
  <1>2. Lowest({Cardinality(SeedsAt(v)), Allocated(v)}) = Cardinality(SeedsAt(v))
    BY <1>1 DEF Lowest
  <1> QED
    BY <1>2 DEF seed_nodes, NthSeed, SeedAt

(* LastSettingWins: the last PORT and the last SEEDS of [SERVER] count,    *)
(* with every address that stands there, for every file without            *)
(* continuations and overlong lines.                                       *)
THEOREM LastSettingWinsHolds ==
    ASSUME file \in Seq(Line)
    PROVE  LastSettingWins
  <1> SUFFICES ASSUME \A n \in Lines : ~Indented(file[n]) /\ ~TooLong(file[n])
               PROVE  LET ports == SettingsTo(<<"PORT">>, Len(file))
                          seeds == SettingsTo(<<"SEEDS">>, Len(file))
                          addresses(v) == [k \in 1..Cardinality(SeedsAt(v)) |-> NthSeed(v, k)]
                      IN  /\ process_args(file).port =
                                IF ports = {} THEN 1998 ELSE atoi(Value(Highest(ports)))
                          /\ process_args(file).seed_nodes =
                                IF seeds = {} THEN <<>> ELSE addresses(Value(Highest(seeds)))
    BY DEF LastSettingWins, SettingsTo, Lines, Value
  <1> DEFINE ports == SettingsTo(<<"PORT">>, Len(file))
             seeds == SettingsTo(<<"SEEDS">>, Len(file))
             addresses(v) == [k \in 1..Cardinality(SeedsAt(v)) |-> NthSeed(v, k)]
  <1>0. Len(file) \in Nat
    BY LengthIs
  <1>1. /\ process_args(file).port =
               IF ports = {} THEN 1998 ELSE atoi(Value(Highest(ports)))
        /\ process_args(file).seed_nodes =
               IF seeds = {} THEN <<>> ELSE seed_nodes(Value(Highest(seeds)))
    BY SettingsInvariant DEF LastSettings, process_args, ini_parse_stream
  <1>2. ASSUME seeds # {}
        PROVE  seed_nodes(Value(Highest(seeds))) = addresses(Value(Highest(seeds)))
    <2>1. seeds \subseteq Nat /\ seeds \subseteq 1..Len(file) /\ \A k \in seeds : k <= Len(file)
      BY <1>0 DEF SettingsTo
    <2>2. \A k \in seeds : HasSign(Text(k, file[k]))
      BY DEF SettingsTo, Sets
    <2> DEFINE m == Highest(seeds)
    <2> HIDE DEF seeds
    <2>3. m \in seeds
      BY Zenon, <1>0, <1>2, <2>1, HighestIs
    <2> HIDE DEF m
    <2>4. file[m] \in Line
      BY <2>1, <2>3, ElementIn
    <2>5. Text(m, file[m]) \in Line
      BY <2>4, TextTypes
    <2>6. Value(m) \in Line
      BY <2>2, <2>3, <2>5, FindTypes DEF Value
    <2> DEFINE v == Value(m)
    <2> HIDE DEF v
    <2>7. v \in Line
      BY <2>6 DEF v
    <2>8. seed_nodes(v) = addresses(v)
      BY <2>7, SeedNodesAre
    <2> QED
      BY <2>8 DEF v, m
  <1> HIDE DEF ports, seeds, addresses
  <1>3. process_args(file).seed_nodes =
               IF seeds = {} THEN <<>> ELSE addresses(Value(Highest(seeds)))
    BY <1>1, <1>2
  <1> QED
    BY <1>1, <1>3 DEF ports, seeds, addresses

(* What is left of a list of seeds when the value is cut: the words of the *)
(* rest, of which only the last may be a part of a word.                   *)
LEMMA PrefixSeeds ==
    ASSUME NEW v \in Line, NEW k \in 0..Len(v), NEW w, w = SubSeq(v, 1, k)
    PROVE  /\ Cardinality(SeedsAt(w)) <= Cardinality(SeedsAt(v))
           /\ \A n \in 1..(Cardinality(SeedsAt(w)) - 1) : NthSeed(w, n) = NthSeed(v, n)
  <1>0. Len(v) \in Nat /\ w \in Line /\ Len(w) = k /\ \A i \in 1..k : w[i] = v[i]
    BY FilledIn, PrefixIs
  <1>1. \A i \in 1..k : i \in Starts(w) <=> i \in Starts(v)
    <2> TAKE i \in 1..k
    <2>1. w[i] = v[i] /\ (i # 1 => w[i - 1] = v[i - 1])
      BY <1>0
    <2> QED
      BY <1>0, <2>1 DEF Starts, Filled
  <1>2. \A i \in 1..k : WordEnd(w, i) = IF WordEnd(v, i) <= k THEN WordEnd(v, i) ELSE k + 1
    <2> TAKE i \in 1..k
    <2> DEFINE e == WordEnd(v, i)
               f == IF e <= k THEN e ELSE k + 1
    <2>1. /\ e \in i..(Len(v) + 1)
          /\ \A j \in i..(e - 1) : v[j] # Blank
          /\ e <= Len(v) => v[e] = Blank
      <3>1. i \in 1..Len(v)
        BY <1>0
      <3> QED BY <3>1, WordEndHas
    <2> HIDE DEF e
    <2>2. f \in i..(k + 1) /\ (f <= k => f = e)
      BY <1>0, <2>1
    <2>3. \A j \in i..(f - 1) : w[j] # Blank
      BY <1>0, <2>1
    <2>4. f <= Len(w) => w[f] = Blank
      BY <1>0, <2>1
    <2>5. WordEnd(w, i) = f
      <3> HIDE DEF f
      <3> QED BY Zenon, <1>0, <2>2, <2>3, <2>4, WordEndIs
    <2> QED
      BY <2>5 DEF e
  <1>3. ASSUME NEW i \in 1..k, IsSeed(WordAt(w, i))
        PROVE  IsSeed(WordAt(v, i))
    <2>0. i \in 1..Len(v) /\ i \in 1..Len(w)
      BY <1>0
    <2>1. PICK q \in i..(WordEnd(w, i) - 1) : w[q] = ":"
      BY Zenon, <1>0, <1>3, <2>0, WordIs
    <2>2. WordEnd(v, i) \in i..(Len(v) + 1) /\ WordEnd(w, i) \in i..(k + 1)
      BY Zenon, <1>0, <2>0, WordEndHas
    <2>3. q \in i..(WordEnd(v, i) - 1) /\ q \in 1..k
      BY <1>0, <1>2, <2>1, <2>2
    <2>4. v[q] = ":"
      BY <1>0, <2>1, <2>3
    <2> QED
      BY <2>0, <2>3, <2>4, WordIs
  <1>4. ASSUME NEW i \in 1..k, NEW m \in 1..k, i < m, i \in Starts(v), m \in Starts(v)
        PROVE  WordAt(w, i) = WordAt(v, i)
    <2>0. i \in 1..Len(v) /\ i \in 1..Len(w)
      BY <1>0
    <2>1. v[i] # Blank /\ v[m - 1] = Blank /\ m - 1 \in i..Len(v)
      BY <1>0, <1>4 DEF Starts, Filled
    <2>2. /\ WordEnd(v, i) \in i..(Len(v) + 1)
          /\ \A j \in i..(WordEnd(v, i) - 1) : v[j] # Blank
      BY <2>0, WordEndHas
    <2>3. WordEnd(v, i) <= m - 1
      BY <1>0, <2>1, <2>2
    <2>4. WordEnd(w, i) = WordEnd(v, i) /\ WordEnd(v, i) <= k
      BY <1>0, <1>2, <2>2, <2>3
    <2>5. /\ WordAt(w, i) \in Line /\ Len(WordAt(w, i)) = WordEnd(w, i) - i
          /\ \A j \in 1..(WordEnd(w, i) - i) : WordAt(w, i)[j] = w[i + j - 1]
      BY Zenon, <1>0, <2>0, WordIs
    <2>6. /\ WordAt(v, i) \in Line /\ Len(WordAt(v, i)) = WordEnd(v, i) - i
          /\ \A j \in 1..(WordEnd(v, i) - i) : WordAt(v, i)[j] = v[i + j - 1]
      BY <2>0, WordIs
    <2>7. \A j \in 1..(WordEnd(v, i) - i) : w[i + j - 1] = v[i + j - 1]
      BY <1>0, <2>2, <2>4
    <2>8. Len(WordAt(w, i)) = Len(WordAt(v, i))
      BY <2>4, <2>5, <2>6
    <2>9. \A j \in 1..Len(WordAt(w, i)) : WordAt(w, i)[j] = WordAt(v, i)[j]
      BY Zenon, <2>4, <2>5, <2>6, <2>7
    <2> QED
      BY <2>5, <2>6, <2>8, <2>9, SameLine
  <1> DEFINE Sw == SeedsAt(w)
             Sv == SeedsAt(v)
  <1>5. /\ Sw \subseteq 1..k /\ Sv \subseteq 1..Len(v) /\ Sv \subseteq 0..Len(v)
        /\ IsFiniteSet(Sw) /\ IsFiniteSet(Sv)
        /\ Cardinality(Sw) \in Nat /\ Cardinality(Sv) \in Nat
    BY Zenon, <1>0, SeedsIn
  <1>6. \A i \in Sw : i \in Sv
    BY <1>1, <1>3, <1>5 DEF SeedsAt
  <1>7. ASSUME NEW m \in Sw, NEW i \in Sv, i < m
        PROVE  i \in Sw /\ WordAt(w, i) = WordAt(v, i)
    <2>1. m \in 1..k /\ i \in 1..k
      BY <1>0, <1>5, <1>7
    <2>2. i \in Starts(v) /\ IsSeed(WordAt(v, i)) /\ m \in Starts(v)
      BY <1>1, <2>1 DEF SeedsAt
    <2>3. WordAt(w, i) = WordAt(v, i)
      BY <1>4, <1>7, <2>1, <2>2
    <2> QED
      BY <1>1, <2>1, <2>2, <2>3 DEF SeedsAt
  <1>8. Cardinality(Sw) <= Cardinality(Sv)
    <2> HIDE DEF Sw, Sv
    <2>1. Sw \in SUBSET Sv
      BY <1>6
    <2> QED
      BY Zenon, <1>5, <2>1, SubsetOf
  <1>9. ASSUME NEW n \in 1..(Cardinality(Sw) - 1)
        PROVE  NthSeed(w, n) = NthSeed(v, n)
    <2> DEFINE c == SeedAt(w, n)
    <2>1. n \in 1..Cardinality(Sw) /\ n \in 1..Cardinality(Sv)
      <3> HIDE DEF Sw, Sv
      <3> QED BY <1>5, <1>8
    <2>2. c \in Sw /\ Rank(Sw, c) = n
      BY <1>0, <2>1, SeedAtIs
    <2> HIDE DEF c
    <2>3. {j \in Sw : j <= c} = {j \in Sv : j <= c}
      <3>1. ASSUME NEW j \in Sv, j <= c
            PROVE  j \in Sw
        <4>1. CASE j = c BY <2>2, <4>1
        <4>2. CASE j # c
          <5>1. j < c
            BY <1>0, <1>5, <2>2, <3>1, <4>2
          <5> QED BY <1>7, <2>2, <5>1
        <4> QED BY <4>1, <4>2
      <3> HIDE DEF Sw, Sv
      <3> QED BY <1>6, <3>1
    <2>4. Rank(Sv, c) = n /\ c \in Sv
      <3> HIDE DEF Sw, Sv
      <3> QED BY Zenon, <1>6, <2>2, <2>3 DEF Rank
    <2>5. c = SeedAt(v, n)
      BY <2>1, <2>4, SeedAtIs
    <2>6. \E m \in Sw : c < m
      <3> SUFFICES ASSUME \A m \in Sw : ~(c < m)
                   PROVE  FALSE
        OBVIOUS
      <3>1. \A m \in Sw : m <= c
        BY <1>0, <1>5, <2>2
      <3> HIDE DEF Sw, Sv
      <3>2. {j \in Sw : j <= c} = Sw
        BY <3>1
      <3>3. n = Cardinality(Sw)
        BY Zenon, <2>2, <3>2 DEF Rank
      <3> QED
        BY <1>5, <3>3
    <2>7. WordAt(w, c) = WordAt(v, c)
      BY <1>7, <2>4, <2>6
    <2>8. NthSeed(w, n) = Seed(WordAt(w, c)) /\ NthSeed(v, n) = Seed(WordAt(v, c))
      BY <1>0, <2>5, SeedNodesAre DEF c
    <2> QED
      BY <2>7, <2>8
  <1> QED
    BY <1>8, <1>9

(* A value that starts another gives all of its seeds but the last.        *)
LEMMA SeedsOfStart ==
    ASSUME NEW w, NEW v, Starting(w, v)
    PROVE  /\ Len(seed_nodes(w)) <= Len(seed_nodes(v))
           /\ \A n \in 1..(Len(seed_nodes(w)) - 1) : seed_nodes(w)[n] = seed_nodes(v)[n]
  <1> DEFINE a == Cardinality(SeedsAt(w))
             b == Cardinality(SeedsAt(v))
             s == [n \in 1..a |-> NthSeed(w, n)]
             t == [n \in 1..b |-> NthSeed(v, n)]
  <1>0. w \in Line /\ v \in Line
    BY DEF Starting
  <1>1. a \in Nat /\ b \in Nat
    BY <1>0, SeedsIn
  <1>2. seed_nodes(w) = s /\ seed_nodes(v) = t
    BY <1>0, SeedNodesAre
  <1>3. a <= b /\ \A n \in 1..(a - 1) : NthSeed(w, n) = NthSeed(v, n)
    <2>1. Len(w) \in 0..Len(v) /\ w = SubSeq(v, 1, Len(w))
      BY StartingIs
    <2> QED BY <1>0, <2>1, PrefixSeeds
  <1> HIDE DEF a, b
  <1>4. Len(s) = a
    BY <1>1
  <1>5. Len(t) = b
    BY <1>1
  <1>6. \A n \in 1..(a - 1) : s[n] = t[n]
    BY <1>1, <1>3
  <1> HIDE DEF s, t
  <1> QED
    BY <1>2, <1>3, <1>4, <1>5, <1>6

(* OverlongKeepsFirst: of a list of seeds that fgets has cut every seed    *)
(* but the last is the one that stands in the file, for every file.        *)
THEOREM OverlongKeepsFirstHolds ==
    ASSUME file \in Seq(Line)
    PROVE  OverlongKeepsFirst
  <1> SUFFICES ASSUME NEW n \in Lines, NEW line, line = file[n],
                      ini_parse_stream(Before(file, n)).section = <<"SERVER">>,
                      TooLong(line), ~Indented(line), HasSign(line),
                      SignAt(line) < INI_MAX_LINE, NameOf(line) = <<"SEEDS">>
               PROVE  LET whole == seed_nodes(ValueOf(line))
                          seeds == process_args(SubSeq(file, 1, n)).seed_nodes
                      IN  /\ Len(seeds) <= Len(whole)
                          /\ \A k \in 1..(Len(seeds) - 1) : seeds[k] = whole[k]
    BY DEF OverlongKeepsFirst
  <1> DEFINE p == Parser(file)[n - 1]
             r == Parser(file)[n]
             ind == Indented(Buffer(line))
             text == Text(n, Buffer(line))
             q == ParseText(p, ind, text)
  <1>0. /\ Len(file) \in Nat /\ n \in 1..Len(file) /\ n \in 0..Len(file)
        /\ n - 1 \in 0..Len(file) /\ (n - 1) + 1 = n
    BY LengthIs DEF Lines
  <1>1. line \in Line
    BY <1>0, ElementIn
  <1>2. IsState(p) /\ p.lineno + 1 = n /\ p.section = <<"SERVER">>
    <2>1. ini_parse_stream(Before(file, n)) = p
      BY <1>0, StateBefore DEF Before
    <2>2. IsState(p) /\ p.lineno = n - 1
      BY <1>0, ParserStates
    <2> QED BY <1>0, <2>1, <2>2
  <1>3. process_args(SubSeq(file, 1, n)) = r.cfg
    BY <1>0, StateBefore DEF process_args
  <1>4. r = ParseLine(p, line)
    BY <1>0, ParserSteps
  <1> HIDE DEF p, r
  <1>5. r.cfg = q.cfg
    BY Zenon, <1>1, <1>2, <1>4, ParseLineIs DEF Same
  <1>6. line # <<>> /\ line[1] = "SEEDS"
    BY <1>1, NotBOM, NameStarts
  <1>7. Starting(text, line) /\ SignAt(line) <= Len(text)
    BY <1>1, <1>6, NotBOM, CutText
  <1>8. text \in Line
    BY <1>7 DEF Starting
  <1> HIDE DEF text
  <1>9. /\ HasSign(text) /\ NameOf(text) = <<"SEEDS">>
        /\ Starting(ValueOf(text), ValueOf(line))
    BY <1>1, <1>7, CutLine
  <1>10. q = Pair(p, text)
    <2>1. text # <<>> /\ text[1] = "SEEDS"
      BY <1>8, <1>9, NotBOM, NameStarts
    <2>2. text[1] \notin {Blank, Semicolon, "#", "["}
      BY <2>1, NotBOM, Names
    <2>3. ~Ignored(text)
      BY <2>1, <2>2 DEF Ignored
    <2>4. ~ind
      <3>1. Len(line) \in Nat /\ INI_MAX_LINE \in Nat /\ INI_MAX_LINE - 1 \in 1..Len(line)
        <4>1. Len(line) \in Nat /\ INI_MAX_LINE \in Nat /\ Len(line) >= INI_MAX_LINE - 1
          BY <1>1, FilledIn, ConfigAssumption DEF TooLong
        <4>2. SignAt(line) \in 1..(Len(line) + 1)
          BY <1>1, FindTypes
        <4> QED BY <4>1, <4>2
      <3> DEFINE m == INI_MAX_LINE - 1
      <3>2. Buffer(line) = SubSeq(line, 1, m)
        BY <1>1, <3>1, BufferIs
      <3>3. m \in 0..Len(line) /\ 1 \in 1..m
        BY <3>1
      <3> HIDE DEF m
      <3>4. Buffer(line)[1] = line[1]
        <4>1. SubSeq(line, 1, m)[1] = line[1]
          BY Zenon, <1>1, <3>3, PrefixIs
        <4> QED BY Zenon, <3>2, <4>1
      <3> QED BY <1>6, <3>4, Names, NotBOM DEF Indented
    <2>5. ~Continues(p, ind)
      BY <2>4 DEF Continues
    <2> HIDE DEF ind
    <2> QED BY <2>2, <2>3, <2>5, ParseTextCases
  <1> HIDE DEF q
  <1>11. Known(p.section, NameOf(text))
    BY <1>2, <1>9 DEF Known
  <1>12. q.cfg = handler(p.cfg, NameOf(text), ValueOf(text))
    BY Zenon, <1>2, <1>8, <1>9, <1>10, <1>11, PairIs
  <1>13. handler(p.cfg, NameOf(text), ValueOf(text)).seed_nodes = seed_nodes(ValueOf(text))
    <2> DEFINE c == p.cfg
               name == NameOf(text)
               value == ValueOf(text)
    <2>1. DOMAIN c = {"port", "seed_nodes"} /\ name # <<"PORT">>
      BY <1>2, <1>9, Names DEF IsState
    <2> HIDE DEF c, name, value, ind, q
    <2>2. handler(c, name, value).seed_nodes =
              IF name = <<"PORT">> THEN c.seed_nodes ELSE seed_nodes(value)
      BY <2>1, HandlerIs
    <2>3. handler(c, name, value).seed_nodes = seed_nodes(value)
      BY Zenon, <2>1, <2>2
    <2> QED BY Zenon, <2>3 DEF c, name, value
  <1>14. process_args(SubSeq(file, 1, n)).seed_nodes = seed_nodes(ValueOf(text))
    BY <1>3, <1>5, <1>12, <1>13
  <1>15. LET w == ValueOf(text)
             v == ValueOf(line)
         IN  /\ Len(seed_nodes(w)) <= Len(seed_nodes(v))
             /\ \A k \in 1..(Len(seed_nodes(w)) - 1) : seed_nodes(w)[k] = seed_nodes(v)[k]
    BY Zenon, <1>9, SeedsOfStart
  <1> QED
    BY Zenon, <1>14, <1>15

==============================================================================
