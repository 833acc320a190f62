---------------------------- MODULE AtTextProofs -----------------------------
(***************************************************************************)
(* What the firmware reads in the modem's text, for texts of any length,   *)
(* whatever is lost of them and however often:                             *)
(*   - sim8xxGetStatus finds the status of the last complete line;         *)
(*   - atCgnsinfParse puts no value into another field's place, because    *)
(*     the commas that it counts have to be all there;                     *)
(*   - a response that arrives whole is recognised with its last character *)
(*     and read right;                                                     *)
(*   - atAsciiToDouble reads every unsigned number right and no negative   *)
(*     one.                                                                *)
(* The parser and the numbers are folds: FoldExists finds the steps of a   *)
(* fold, and SetInduction follows them.                                    *)
(***************************************************************************)
EXTENDS AtText, SequenceTheorems, WellFoundedInduction, TLAPS

Less == {ss \in Nat \X Nat : ss[1] < ss[2]}

LEMMA LessWellFounded == IsWellFoundedOn(Less, Nat)
BY NatLessThanWellFounded, Zenon DEF OpToRel, Less

\* A bounded set of natural numbers that is not empty has a maximum.
LEMMA MaxExists ==
  ASSUME NEW n \in Nat, NEW B \in SUBSET (1 .. n), B # {}
  PROVE  /\ Max(B) \in B
         /\ \A y \in B : Max(B) >= y
<1> DEFINE T == {i \in Nat : n - i \in B}
<1>1. T \subseteq Nat /\ T # {}
  <2>1. PICK b : b \in B
    OBVIOUS
  <2>2. n - b \in T
    BY <2>1
  <2> QED BY <2>2
<1>2. PICK t \in T : \A y \in T : ~(<<y, t>> \in Less)
  <2> HIDE DEF T
  <2> QED BY <1>1, WFMin, LessWellFounded
<1>3. \A y \in T : t =< y
  <2>1. ASSUME NEW y \in Nat, NEW z \in Nat, y < z PROVE <<y, z>> \in Less
    <3>1. <<y, z>>[1] = y /\ <<y, z>>[2] = z
      OBVIOUS
    <3> QED BY <2>1, <3>1 DEF Less
  <2>2. \A y \in T : ~(y < t)
    BY <1>1, <1>2, <2>1
  <2> QED BY <1>1, <2>2
<1>4. \E x \in B : \A y \in B : x >= y
  <2>1. ASSUME NEW y \in B PROVE n - t >= y
    <3>1. n - y \in T
      OBVIOUS
    <3> QED BY <1>3, <3>1
  <2> QED BY <2>1
<1> QED BY <1>4 DEF Max

-----------------------------------------------------------------------------
(* The status.                                                             *)

\* The line breaks before the last one are those of the text without it.
LEMMA BodyBreaks ==
  ASSUME NEW S, NEW s \in Seq(S), EndsInCrLf(s)
  PROVE  LET body == SubSeq(s, 1, Len(s) - 2)
         IN /\ Len(body) = Len(s) - 2
            /\ \A i \in 1 .. Len(s) - 2 : body[i] = s[i]
            /\ Breaks(body) = Breaks(s) \ {Len(s) - 1}
<1> DEFINE n == Len(s)
           body == SubSeq(s, 1, n - 2)
<1>1. n \in Nat /\ n >= 2 /\ s[n - 1] = Cr /\ s[n] = Lf
  BY DEF EndsInCrLf, Breaks
<1>2. \A i \in 1 .. n - 2 : s[i] \in S
  BY <1>1
<1>3. Len(body) = n - 2 /\ \A i \in 1 .. n - 2 : body[i] = s[i]
  <2>1. /\ Len(body) = IF 1 =< n - 2 THEN n - 2 - 1 + 1 ELSE 0
        /\ \A i \in 1 .. n - 2 - 1 + 1 : body[i] = s[1 + i - 1]
    BY <1>1, <1>2, SubSeqProperties
  <2>2. \A i \in 1 .. n - 2 : 1 + i - 1 = i /\ i \in 1 .. n - 2 - 1 + 1
    BY <1>1
  <2> HIDE DEF body, n
  <2> QED BY <1>1, <2>1, <2>2
<1>4. ASSUME NEW i PROVE i \in Breaks(body) <=> i \in Breaks(s) \ {n - 1}
  BY <1>1, <1>3 DEF Breaks, Cr, Lf
<1> QED BY <1>3, <1>4

\* A part of the text without its end is a part of the text.
LEMMA SamePart ==
  ASSUME NEW S, NEW s \in Seq(S), Len(s) >= 2, NEW k \in Nat \ {0}
  PROVE  SubSeq(SubSeq(s, 1, Len(s) - 2), k, Len(s) - 2)
           = SubSeq(s, k, Len(s) - 2)
<1> DEFINE n == Len(s)
           body == SubSeq(s, 1, n - 2)
           a == SubSeq(body, k, n - 2)
           b == SubSeq(s, k, n - 2)
<1>1. \A i \in 1 .. n - 2 : s[i] \in S
  OBVIOUS
<1>2. \A i \in 1 .. n - 2 : body[i] = s[i]
  BY <1>1, SubSeqProperties
<1>3. /\ a \in Seq(S) /\ Len(a) = IF k =< n - 2 THEN n - 2 - k + 1 ELSE 0
      /\ \A i \in 1 .. n - 2 - k + 1 : a[i] = body[k + i - 1]
  <2>1. \A i \in k .. n - 2 : body[i] \in S
    BY <1>1, <1>2
  <2> HIDE DEF body
  <2> QED BY <2>1, SubSeqProperties
<1>4. /\ b \in Seq(S) /\ Len(b) = IF k =< n - 2 THEN n - 2 - k + 1 ELSE 0
      /\ \A i \in 1 .. n - 2 - k + 1 : b[i] = s[k + i - 1]
  BY <1>1, SubSeqProperties
<1>5. Len(a) = Len(b) /\ \A i \in 1 .. Len(a) : a[i] = b[i]
  <2> HIDE DEF a, b, body
  <2> QED BY <1>2, <1>3, <1>4
<1> HIDE DEF a, b
<1> QED BY <1>3, <1>4, <1>5, SeqEqual DEF a, b

\* Skipping two characters does not matter: the last line break is the same.
LEMMA LastBreak ==
  ASSUME NEW n \in Nat, NEW B \in SUBSET (1 .. n), B \ {2} # {},
         1 \in B => 2 \notin B
  PROVE  LET later == {i \in B : i > 2}
             start == IF later = {} THEN 3 ELSE Max(later) + 2
         IN start = Max(B) + 2 /\ start \in Nat \ {0}
<1> DEFINE later == {i \in B : i > 2}
<1>0. \A i \in B : i \in Nat /\ i >= 1
  OBVIOUS
<1>1. Max(B) \in B /\ \A y \in B : Max(B) >= y
  BY MaxExists
<1>2. CASE later = {}
  <2>1. \A i \in B : i = 1 \/ i = 2
    BY <1>0, <1>2
  <2>2. B = {1}
    BY <2>1
  <2>3. Max(B) = 1
    BY <1>1, <2>2
  <2> QED BY <1>2, <2>3
<1>3. CASE later # {}
  <2>1. Max(later) \in later /\ \A y \in later : Max(later) >= y
    <3>1. later \in SUBSET (1 .. n)
      OBVIOUS
    <3> HIDE DEF later
    <3> QED BY <1>3, <3>1, MaxExists
  <2>2. Max(B) \in Nat /\ Max(later) \in Nat /\ Max(later) \in B /\ Max(later) > 2
    BY <1>0, <1>1, <2>1
  <2>3. Max(B) >= Max(later)
    BY <1>1, <2>2
  <2>4. Max(B) \in later
    BY <1>1, <2>2, <2>3
  <2>5. Max(B) = Max(later)
    <3> HIDE DEF later
    <3> QED BY <2>1, <2>2, <2>3, <2>4
  <2>6. Max(later) + 2 = Max(B) + 2 /\ Max(later) + 2 \in Nat \ {0}
    <3> HIDE DEF later
    <3> QED BY <2>2, <2>5
  <2> QED BY <1>3, <2>6
<1> QED BY <1>2, <1>3

\* The status of a text is that of its last line.
LEMMA StatusOfText ==
  ASSUME NEW S, NEW s \in Seq(S), Breaks(s) \ {2, Len(s) - 1} # {}
  PROVE  sim8xxGetStatus(s) =
           IF EndsInCrLf(s) THEN StatusOf(LastLine(s)) ELSE "INVALID"
<1>1. CASE ~EndsInCrLf(s)
  BY <1>1 DEF sim8xxGetStatus
<1>2. CASE EndsInCrLf(s)
  <2> DEFINE n == Len(s)
             body == SubSeq(s, 1, n - 2)
             B == Breaks(s) \ {n - 1}
             later == {i \in B : i > 2}
             start == IF later = {} THEN 3 ELSE Max(later) + 2
             begin == IF B = {} THEN 1 ELSE Max(B) + 2
  <2>1. n \in Nat /\ n >= 2 /\ B \in SUBSET (1 .. n) /\ B \ {2} # {}
    BY <1>2 DEF EndsInCrLf, Breaks
  <2>2. Len(body) = n - 2 /\ Breaks(body) = B
    BY <1>2, BodyBreaks
  <2>3. sim8xxGetStatus(s) = StatusOf(SubSeq(body, start, n - 2))
    <3>1. sim8xxGetStatus(s) =
            StatusOf(SubSeq(body, IF {i \in Breaks(body) : i > 2} = {} THEN 3
                                  ELSE Max({i \in Breaks(body) : i > 2}) + 2,
                            Len(body)))
      BY <1>2 DEF sim8xxGetStatus
    <3> HIDE DEF body, B
    <3> QED BY <2>2, <3>1
  <2>4. LastLine(s) = SubSeq(s, begin, n - 2)
    BY DEF LastLine
  <2>5. begin = start /\ start \in Nat \ {0}
    <3>1. 1 \in B => 2 \notin B
      BY DEF Breaks, Cr, Lf
    <3>2. B # {}
      BY <2>1
    <3> HIDE DEF B, n
    <3>3. start = Max(B) + 2 /\ start \in Nat \ {0}
      BY <2>1, <3>1, LastBreak
    <3> QED BY <3>2, <3>3
  <2>6. SubSeq(body, start, n - 2) = SubSeq(s, start, n - 2)
    <3> HIDE DEF start
    <3> QED BY <2>1, <2>5, SamePart
  <2> HIDE DEF start, begin, body
  <2> QED BY <1>2, <2>3, <2>4, <2>5, <2>6
<1> QED BY <1>1, <1>2

-----------------------------------------------------------------------------
\* The characters, and the words that count as one.
Chars ==
  {Layout[i] : i \in 1 .. Len(Layout)} \cup StatusChars \cup NumberChars
    \cup {"AT", "+CGNSINF", "+CGNSINF:", "+CREG:", Space, Comma, "5"}

\* rxbuf and what is still to come are texts.
TextInv == text \in Seq(Chars) /\ todo \in Seq(Chars)

\* What the modem sends is a text.
LEMMA ModemTexts ==
  /\ CrLf \in Seq(Chars) /\ Echo \in Seq(Chars) /\ Urc \in Seq(Chars)
  /\ Response \in Seq(Chars)
  /\ Remains \subseteq Seq(Chars)
<1>1. CrLf \in Seq(Chars) /\ Echo \in Seq(Chars)
  <2>1. Cr \in Chars /\ Lf \in Chars /\ "AT" \in Chars /\ "+CGNSINF" \in Chars
    BY DEF Chars, StatusChars
  <2> QED BY <2>1 DEF CrLf, Echo
<1>2. Urc \in Seq(Chars)
  <2> DEFINE words == <<"+CREG:", Space, "1", Comma, "5">>
  <2>1. words \in Seq(Chars)
    BY DEF Chars, NumberChars
  <2> HIDE DEF words
  <2>2. CrLf \o words \o CrLf \in Seq(Chars)
    BY <1>1, <2>1
  <2> QED BY <2>2 DEF Urc, words
<1>3. Response \in Seq(Chars)
  <2> DEFINE fields == [i \in 1 .. 2 * Len(Layout) - 1 |->
                          IF i % 2 = 1 THEN Layout[(i + 1) \div 2] ELSE Comma]
             name == <<"+CGNSINF:", Space>>
             ok == <<"O", "K">>
  <2>1. Len(Layout) = 21
    BY DEF Layout
  <2>2. \A i \in 1 .. 41 : i % 2 = 1 => Layout[(i + 1) \div 2] \in Chars
    <3>1. \A i \in 1 .. 41 : (i + 1) \div 2 \in 1 .. 21
      OBVIOUS
    <3> QED BY <2>1, <3>1 DEF Chars
  <2>3. fields \in [1 .. 41 -> Chars]
    <3>1. 2 * Len(Layout) - 1 = 41 /\ Comma \in Chars
      BY <2>1 DEF Chars
    <3> QED BY <2>2, <3>1
  <2>4. fields \in Seq(Chars)
    <3> HIDE DEF fields
    <3> QED BY <2>3, SeqDef
  <2>5. name \in Seq(Chars) /\ ok \in Seq(Chars)
    BY DEF Chars, StatusChars
  <2> HIDE DEF fields, name, ok
  <2>6. CrLf \o name \o fields \o CrLf \o CrLf \o ok \o CrLf \in Seq(Chars)
    BY <1>1, <2>4, <2>5
  <2> QED BY <2>6 DEF Response, fields, name, ok
<1>4. \A n \in 5 .. Len(Response) - 4 : SubSeq(Response, 1, n) \in Seq(Chars)
  BY <1>3
<1> QED BY <1>1, <1>2, <1>3, <1>4 DEF Remains

\* The texts are texts in every reachable state.
LEMMA TextInductive == Spec => []TextInv
<1>1. Init => TextInv
  <2> SUFFICES ASSUME Init PROVE TextInv
    OBVIOUS
  <2>0. <<>> \in Seq(Chars) /\ Response \o Urc \in Seq(Chars)
    BY ModemTexts
  <2>1. text \in {<<>>, Echo, Urc} \cup Remains
    BY DEF Init
  <2>2. todo \in {Response, Response \o Urc, <<>>}
    BY DEF Init
  <2>3. text \in Seq(Chars)
    BY <2>0, <2>1, ModemTexts
  <2>4. todo \in Seq(Chars)
    BY <2>0, <2>2, ModemTexts
  <2> QED BY <2>3, <2>4 DEF TextInv
<1>2. TextInv /\ [Next]_vars => TextInv'
  <2> SUFFICES ASSUME TextInv, [Next]_vars PROVE TextInv'
    OBVIOUS
  <2> USE DEF TextInv
  <2>1. CASE Receive
    BY <2>1 DEF Receive
  <2>2. ASSUME NEW n \in 1 .. Len(Response) + Len(Urc), Lose(n) PROVE TextInv'
    <3>1. n \in 1 .. Len(todo)
      BY <2>2 DEF Lose
    <3>2. SubSeq(todo, n + 1, Len(todo)) \in Seq(Chars)
      BY <3>1
    <3> QED BY <2>2, <3>2 DEF Lose
  <2>3. ASSUME NEW c \in StatusChars \cup NumberChars, Typed(c) PROVE TextInv'
    <3>1. c \in Chars
      BY DEF Chars
    <3> QED BY <2>3, <3>1 DEF Typed
  <2>4. CASE UNCHANGED vars
    BY <2>4 DEF vars
  <2> QED BY <2>1, <2>2, <2>3, <2>4 DEF Next
<1> QED BY <1>1, <1>2, PTL DEF Spec

\* The status is that of the last complete line, however long the text is and
\* whatever was lost of it, as long as one line break stands at its beginning
\* or behind the two characters that the search skips.
THEOREM StatusSafe == Spec => []StatusIsLastLine
<1>1. TextInv => StatusIsLastLine
  BY StatusOfText DEF TextInv, StatusIsLastLine
<1> QED BY <1>1, TextInductive, PTL

-----------------------------------------------------------------------------
(* Induction, and the steps of a fold.                                     *)

\* Induction over the natural numbers, for a set instead of a predicate.
LEMMA SetInduction ==
  ASSUME NEW A, 0 \in A, \A n \in Nat : n \in A => n + 1 \in A
  PROVE  Nat \subseteq A
<1> SUFFICES ASSUME Nat \ A # {} PROVE FALSE
  OBVIOUS
<1>1. PICK t \in Nat \ A : \A y \in Nat \ A : ~(<<y, t>> \in Less)
  BY WFMin, LessWellFounded
<1>2. t # 0 /\ t - 1 \in Nat /\ t - 1 < t
  BY <1>1
<1>3. <<t - 1, t>> \in Less
  <2>1. <<t - 1, t>>[1] = t - 1 /\ <<t - 1, t>>[2] = t
    OBVIOUS
  <2> QED BY <1>2, <2>1 DEF Less
<1>4. t - 1 \in A
  BY <1>1, <1>2, <1>3
<1>5. (t - 1) + 1 = t
  BY <1>2
<1> QED BY <1>1, <1>2, <1>4, <1>5

\* A set of natural numbers that is not empty has a minimum.
LEMMA MinExists ==
  ASSUME NEW B \in SUBSET Nat, B # {}
  PROVE  Min(B) \in B /\ \A y \in B : Min(B) =< y
<1>1. PICK t \in B : \A y \in B : ~(<<y, t>> \in Less)
  BY WFMin, LessWellFounded
<1>2. ASSUME NEW y \in B PROVE t =< y
  <2>1. y \in Nat /\ t \in Nat
    OBVIOUS
  <2>2. ASSUME y < t PROVE FALSE
    <3>1. <<y, t>>[1] = y /\ <<y, t>>[2] = t
      OBVIOUS
    <3> QED BY <1>1, <2>1, <2>2, <3>1 DEF Less
  <2> QED BY <2>1, <2>2
<1> QED BY <1>1, <1>2 DEF Min

\* What strchr finds.
LEMMA StrchrFacts ==
  ASSUME NEW S, NEW s \in Seq(S), NEW i \in Nat \ {0}, NEW c
  PROVE  LET r == strchr(s, i, c)
         IN \/ r = 0 /\ \A j \in i .. Len(s) : s[j] # c
            \/ /\ r \in i .. Len(s) /\ s[r] = c
               /\ \A j \in i .. r - 1 : s[j] # c
<1> DEFINE I == {j \in i .. Len(s) : s[j] = c}
           r == strchr(s, i, c)
<1>1. r = IF I # {} THEN Min(I) ELSE 0
  BY DEF strchr, SelectInSubSeq
<1>2. CASE I = {}
  BY <1>1, <1>2
<1>3. CASE I # {}
  <2>1. I \in SUBSET Nat
    OBVIOUS
  <2>2. r \in I /\ \A y \in I : r =< y
    <3> HIDE DEF I
    <3> QED BY <1>1, <1>3, <2>1, MinExists
  <2>3. ASSUME NEW j \in i .. r - 1 PROVE s[j] # c
    <3>1. j \in i .. Len(s) /\ ~(r =< j)
      BY <2>2
    <3> HIDE DEF r
    <3> QED BY <2>2, <3>1
  <2>4. r \in i .. Len(s) /\ s[r] = c
    <3> HIDE DEF r
    <3> QED BY <2>2
  <2> QED BY <2>3, <2>4
<1> QED BY <1>2, <1>3

\* The largest of the first numbers.
LEMMA MaxInterval ==
  ASSUME NEW m \in Nat, NEW S \in SUBSET (1 .. m + 1), m + 1 \in S
  PROVE  Max(S) = m + 1
<1>1. Max(S) \in S /\ \A y \in S : Max(S) >= y
  <2>1. m + 1 \in Nat /\ S # {}
    OBVIOUS
  <2> QED BY <2>1, MaxExists
<1>2. Max(S) \in 1 .. m + 1 /\ Max(S) >= m + 1
  BY <1>1
<1> QED BY <1>2

\* W is the fold of numbered steps F[1], F[2], ... from base on, as the folds
\* of the library define it: over the sets of numbers of steps.
IsFold(W, T, base, n, F) ==
  /\ W \in [SUBSET (1 .. n) -> T]
  /\ \A S \in SUBSET (1 .. n) :
       W[S] = IF S = {} THEN base ELSE F[Max(S)][W[S \ {Max(S)}]]

\* Such a fold exists.
LEMMA FoldExists ==
  ASSUME NEW T, NEW base \in T, NEW n \in Nat, NEW F \in [1 .. n -> [T -> T]]
  PROVE  \E W : IsFold(W, T, base, n, F)
<1> DEFINE Fold(W, m) == IsFold(W, T, base, m, F)
           A == {m \in Nat : m =< n => \E W : Fold(W, m)}
<1>1. 0 \in A
  <2> DEFINE W == [S \in SUBSET (1 .. 0) |-> base]
  <2>1. Fold(W, 0)
    BY DEF IsFold
  <2> QED BY <2>1
<1>2. ASSUME NEW m \in Nat, m \in A PROVE m + 1 \in A
  <2> SUFFICES ASSUME m + 1 =< n PROVE \E W : Fold(W, m + 1)
    OBVIOUS
  <2>1. PICK W : Fold(W, m)
    <3>1. m =< n
      OBVIOUS
    <3> QED BY <1>2, <3>1
  <2> DEFINE V == [S \in SUBSET (1 .. m + 1) |->
                     IF m + 1 \in S THEN F[m + 1][W[S \ {m + 1}]] ELSE W[S]]
  <2>2. ASSUME NEW S \in SUBSET (1 .. m + 1), m + 1 \notin S
        PROVE  S \in SUBSET (1 .. m)
    BY <2>2
  <2>3. ASSUME NEW S \in SUBSET (1 .. m + 1), m + 1 \in S
        PROVE  V[S] \in T /\ V[S] = F[Max(S)][V[S \ {Max(S)}]]
    <3>1. Max(S) = m + 1
      BY <2>3, MaxInterval
    <3>2. S \ {m + 1} \in SUBSET (1 .. m) /\ S \ {m + 1} \in SUBSET (1 .. m + 1)
      BY <2>2
    <3>3. V[S \ {m + 1}] = W[S \ {m + 1}] /\ W[S \ {m + 1}] \in T
      BY <2>1, <3>2 DEF IsFold
    <3>4. F[m + 1] \in [T -> T]
      OBVIOUS
    <3> QED BY <2>3, <3>1, <3>2, <3>3, <3>4
  <2>4. ASSUME NEW S \in SUBSET (1 .. m + 1), m + 1 \notin S
        PROVE  /\ V[S] \in T
               /\ V[S] = IF S = {} THEN base ELSE F[Max(S)][V[S \ {Max(S)}]]
    <3>1. S \in SUBSET (1 .. m) /\ S \ {Max(S)} \in SUBSET (1 .. m)
      BY <2>2, <2>4
    <3>2. V[S] = W[S] /\ V[S \ {Max(S)}] = W[S \ {Max(S)}]
      BY <2>4, <3>1
    <3> QED BY <2>1, <3>1, <3>2 DEF IsFold
  <2>5. V \in [SUBSET (1 .. m + 1) -> T]
    BY <2>3, <2>4
  <2>6. ASSUME NEW S \in SUBSET (1 .. m + 1)
        PROVE  V[S] = IF S = {} THEN base ELSE F[Max(S)][V[S \ {Max(S)}]]
    <3> HIDE DEF V
    <3> QED BY <2>3, <2>4
  <2> HIDE DEF V
  <2>7. Fold(V, m + 1)
    BY <2>5, <2>6 DEF IsFold
  <2> QED BY <2>7
<1>3. n \in A
  <2> HIDE DEF A
  <2> QED BY <1>1, <1>2, SetInduction
<1> QED BY <1>3

\* The first numbers, as the folds take them apart.
LEMMA Upto ==
  ASSUME NEW n \in Nat, NEW k \in 1 .. n
  PROVE  /\ 1 .. k \in SUBSET (1 .. n) /\ 1 .. k # {} /\ Max(1 .. k) = k
         /\ (1 .. k) \ {k} = 1 .. (k - 1)
<1>1. k \in 1 .. k /\ \A x \in 1 .. k : x \in 1 .. n
  OBVIOUS
<1>2. \A x : x \in (1 .. k) \ {k} <=> x \in 1 .. (k - 1)
  OBVIOUS
<1>3. Max(1 .. k) \in 1 .. k /\ Max(1 .. k) >= k
  <2>1. k \in Nat
    OBVIOUS
  <2> QED BY <1>1, <2>1, MaxExists
<1> QED BY <1>1, <1>2, <1>3

-----------------------------------------------------------------------------
(* atCgnsinfParse, step by step.                                           *)

\* The states of the parser, and the one that it begins with.
ParseState(S) == [ok : BOOLEAN, start : Nat \ {0}, data : [Fields -> Seq(S)]]
ParseBegin(s) ==
  [ok |-> strchr(s, 1, Space) # 0, start |-> strchr(s, 1, Space) + 1,
   data |-> [f \in Fields |-> <<>>]]

\* Every step of the parser ends in such a state.
LEMMA GetNextType ==
  ASSUME NEW S, NEW s \in Seq(S), NEW p \in ParseState(S), NEW f
  PROVE  atGetNext(s, p, f) \in ParseState(S)
<1> DEFINE end == strchr(s, p.start, Delim(f))
<1>0. p.start \in Nat \ {0} /\ p.ok \in BOOLEAN /\ p.data \in [Fields -> Seq(S)]
  BY DEF ParseState
<1>1. CASE ~p.ok \/ p.start > Len(s)
  BY <1>1 DEF atGetNext
<1>2. CASE ~(~p.ok \/ p.start > Len(s)) /\ end = 0
  <2>1. atGetNext(s, p, f) =
          [ok |-> f \in Reserved, start |-> p.start, data |-> p.data]
    BY <1>2 DEF atGetNext
  <2>2. (f \in Reserved) \in BOOLEAN
    OBVIOUS
  <2> QED BY <1>0, <2>1, <2>2 DEF ParseState
<1>3. CASE ~(~p.ok \/ p.start > Len(s)) /\ end # 0
  <2>1. end \in p.start .. Len(s)
    BY <1>0, <1>3, StrchrFacts
  <2>2. SubSeq(s, p.start, end - 1) \in Seq(S)
    BY <1>0, <2>1, SubSeqProperties
  <2> DEFINE d == [x \in Fields |-> IF x = f THEN SubSeq(s, p.start, end - 1)
                                    ELSE p.data[x]]
  <2>3. d \in [Fields -> Seq(S)]
    BY <1>0, <2>2
  <2>4. atGetNext(s, p, f) = [ok |-> TRUE, start |-> end + 1, data |-> d]
    BY <1>3 DEF atGetNext
  <2> HIDE DEF d, end
  <2>5. end + 1 \in Nat \ {0}
    BY <1>0, <2>1
  <2> QED BY <2>3, <2>4, <2>5 DEF ParseState
<1> QED BY <1>1, <1>2, <1>3

\* The parser takes 21 steps, one for each field.
LEMMA ParseSteps ==
  ASSUME NEW S, NEW s \in Seq(S)
  PROVE  \E P \in [0 .. 21 -> ParseState(S)] :
           /\ P[0] = ParseBegin(s)
           /\ \A k \in 1 .. 21 : P[k] = atGetNext(s, P[k - 1], Layout[k])
           /\ atCgnsinfParse(s) = P[21]
<1> DEFINE T == ParseState(S)
           F == [k \in 1 .. 21 |-> [p \in T |-> atGetNext(s, p, Layout[k])]]
           Steps(it) ==
             it = [D \in SUBSET (1 .. 21) |->
                     IF D = {} THEN ParseBegin(s)
                     ELSE atGetNext(s, it[D \ {Max(D)}], Layout[Max(D)])]
           iter == CHOOSE it : Steps(it)
           P == [k \in 0 .. 21 |-> iter[1 .. k]]
<1>1. ParseBegin(s) \in T
  <2>1. strchr(s, 1, Space) \in Nat
    <3>1. 1 \in Nat \ {0} /\ Len(s) \in Nat
      OBVIOUS
    <3>2. strchr(s, 1, Space) = 0 \/ strchr(s, 1, Space) \in 1 .. Len(s)
      BY <3>1, StrchrFacts
    <3> QED BY <3>1, <3>2
  <2>2. [f \in Fields |-> <<>>] \in [Fields -> Seq(S)]
    OBVIOUS
  <2>3. (strchr(s, 1, Space) # 0) \in BOOLEAN /\ strchr(s, 1, Space) + 1 \in Nat \ {0}
    BY <2>1
  <2> QED BY <2>2, <2>3 DEF ParseBegin, ParseState
<1>2. F \in [1 .. 21 -> [T -> T]]
  BY GetNextType
<1>3. PICK W : IsFold(W, T, ParseBegin(s), 21, F)
  <2>1. 21 \in Nat
    OBVIOUS
  <2> HIDE DEF F, T
  <2> QED BY <1>1, <1>2, <2>1, FoldExists
<1>4. Steps(W)
  <2>1. ASSUME NEW D \in SUBSET (1 .. 21), D # {}
        PROVE  W[D] = atGetNext(s, W[D \ {Max(D)}], Layout[Max(D)])
    <3>1. Max(D) \in 1 .. 21
      BY <2>1, MaxExists
    <3>2. W[D \ {Max(D)}] \in T
      BY <1>3 DEF IsFold
    <3>3. W[D] = F[Max(D)][W[D \ {Max(D)}]]
      BY <1>3, <2>1 DEF IsFold
    <3> HIDE DEF T
    <3> QED BY <3>1, <3>2, <3>3
  <2>2. ASSUME NEW D \in SUBSET (1 .. 21)
        PROVE  W[D] = IF D = {} THEN ParseBegin(s)
                      ELSE atGetNext(s, W[D \ {Max(D)}], Layout[Max(D)])
    BY <1>3, <2>1 DEF IsFold
  <2>3. W \in [SUBSET (1 .. 21) -> T]
    BY <1>3 DEF IsFold
  <2> HIDE DEF T, F
  <2> QED BY <2>2, <2>3
<1>5. Steps(iter)
  <2> HIDE DEF Steps
  <2> QED BY <1>4
<1>6. atCgnsinfParse(s) = iter[1 .. 21]
  <2>1. DOMAIN Layout = 1 .. 21
    BY DEF Layout
  <2>2. atCgnsinfParse(s) =
          (CHOOSE it : it = [D \in SUBSET (DOMAIN Layout) |->
              IF D = {} THEN ParseBegin(s)
              ELSE atGetNext(s, it[D \ {Max(D)}], Layout[Max(D)])])[DOMAIN Layout]
    BY Zenon DEF atCgnsinfParse, FoldLeft, MapThenFoldSet, ParseBegin
  <2> QED BY <2>1, <2>2
<1> HIDE DEF iter
<1>7. P[0] = ParseBegin(s)
  <2>1. 1 .. 0 = {}
    OBVIOUS
  <2> QED BY <1>5, <2>1
<1>8. ASSUME NEW k \in 1 .. 21 PROVE P[k] = atGetNext(s, P[k - 1], Layout[k])
  <2>1. /\ 1 .. k \in SUBSET (1 .. 21) /\ 1 .. k # {} /\ Max(1 .. k) = k
        /\ (1 .. k) \ {k} = 1 .. (k - 1)
    <3>1. 21 \in Nat
      OBVIOUS
    <3> QED BY <3>1, Upto
  <2>2. iter[1 .. k] = atGetNext(s, iter[(1 .. k) \ {Max(1 .. k)}], Layout[Max(1 .. k)])
    BY <1>5, <2>1
  <2>3. k \in 0 .. 21 /\ k - 1 \in 0 .. 21
    OBVIOUS
  <2> QED BY <2>1, <2>2, <2>3
<1> HIDE DEF P
<1>9. P \in [0 .. 21 -> T]
  <2> DEFINE A == {k \in Nat : k =< 21 => P[k] \in T}
  <2>1. 0 \in A
    BY <1>1, <1>7
  <2>2. ASSUME NEW k \in Nat, k \in A PROVE k + 1 \in A
    <3> SUFFICES ASSUME k + 1 =< 21 PROVE P[k + 1] \in T
      <4> HIDE DEF T
      <4> QED OBVIOUS
    <3>1. P[k] \in T
      <4> HIDE DEF T
      <4> QED BY <2>2
    <3>2. k + 1 \in 1 .. 21 /\ (k + 1) - 1 = k
      OBVIOUS
    <3>3. P[k + 1] = atGetNext(s, P[k], Layout[k + 1])
      BY <1>8, <3>2
    <3> QED BY <3>1, <3>3, GetNextType
  <2>3. Nat \subseteq A
    <3> HIDE DEF A
    <3> QED BY <2>1, <2>2, SetInduction
  <2> HIDE DEF T
  <2>4. \A k \in 0 .. 21 : P[k] \in T
    BY <2>3
  <2> QED BY <2>4 DEF P
<1>10. P[21] = atCgnsinfParse(s)
  BY <1>6 DEF P
<1> QED BY <1>7, <1>8, <1>9, <1>10

\* The characters of s stand in the order of their places h: the space has
\* place 0, the k-th field 2k - 1, the comma behind it 2k.
InOrder(s, h) ==
  /\ h \in [1 .. Len(s) -> Int]
  /\ \A i, j \in 1 .. Len(s) : i < j => h[i] < h[j]
  /\ \A i \in 1 .. Len(s) : s[i] = Space => h[i] = 0 /\ i < Len(s)
  /\ \A i \in 1 .. Len(s) :
       s[i] = Comma => i < Len(s) /\ \E j \in 1 .. 20 : h[i] = 2 * j
  /\ \A i \in 1 .. Len(s), k \in 1 .. 20 : h[i] = 2 * k - 1 => s[i] = Layout[k]

\* A step of the parser that does not fail.
LEMMA GetNextFacts ==
  ASSUME NEW S, NEW s \in Seq(S), NEW p \in ParseState(S), NEW f,
         p.start =< Len(s), atGetNext(s, p, f).ok
  PROVE  LET r == atGetNext(s, p, f)
             end == strchr(s, p.start, Delim(f))
         IN /\ p.ok
            /\ end = 0 => f \in Reserved /\ r = p
            /\ end # 0 =>
                 /\ end \in p.start .. Len(s) /\ s[end] = Delim(f)
                 /\ r.start = end + 1
                 /\ \A x \in Fields :
                      r.data[x] = IF x = f THEN SubSeq(s, p.start, end - 1)
                                           ELSE p.data[x]
<1> DEFINE r == atGetNext(s, p, f)
           end == strchr(s, p.start, Delim(f))
           d == [x \in Fields |-> IF x = f THEN SubSeq(s, p.start, end - 1)
                                  ELSE p.data[x]]
<1>0. /\ p.start \in Nat \ {0} /\ Len(s) \in Nat
      /\ p = [ok |-> p.ok, start |-> p.start, data |-> p.data]
  BY DEF ParseState
<1>1. p.ok
  <2>1. CASE ~p.ok
    <3>1. r = p
      BY <2>1 DEF atGetNext
    <3> QED BY <2>1, <3>1
  <2> QED BY <2>1
<1>2. ~(~p.ok \/ p.start > Len(s))
  BY <1>0, <1>1
<1>3. ASSUME end = 0 PROVE f \in Reserved /\ r = p
  <2>1. r = [ok |-> f \in Reserved, start |-> p.start, data |-> p.data]
    BY <1>2, <1>3 DEF atGetNext
  <2>2. f \in Reserved
    <3> SUFFICES ASSUME f \notin Reserved PROVE FALSE
      OBVIOUS
    <3>1. (f \in Reserved) = FALSE
      OBVIOUS
    <3>2. r = [ok |-> FALSE, start |-> p.start, data |-> p.data]
      BY <2>1, <3>1, Zenon
    <3> QED BY <3>2
  <2>3. p.ok = TRUE /\ (f \in Reserved) = TRUE
    BY <1>1, <2>2 DEF ParseState
  <2> QED BY <1>0, <2>1, <2>2, <2>3
<1>4. ASSUME end # 0
      PROVE  /\ end \in p.start .. Len(s) /\ s[end] = Delim(f)
             /\ r.start = end + 1 /\ r.data = d
  <2>1. end \in p.start .. Len(s) /\ s[end] = Delim(f)
    BY <1>0, <1>4, StrchrFacts
  <2>2. r = [ok |-> TRUE, start |-> end + 1, data |-> d]
    BY <1>2, <1>4 DEF atGetNext
  <2> HIDE DEF r, end, d
  <2> QED BY <2>1, <2>2
<1>5. ASSUME end # 0, NEW x \in Fields
      PROVE  r.data[x] = IF x = f THEN SubSeq(s, p.start, end - 1) ELSE p.data[x]
  <2>1. r.data = d
    BY <1>4, <1>5
  <2> HIDE DEF r
  <2> QED BY <2>1
<1> QED BY <1>1, <1>3, <1>4, <1>5

\* Which fields may lack their delimiter, and what it is.
LEMMA LayoutFacts ==
  /\ \A k \in 1 .. 20 : Delim(Layout[k]) = Comma /\ Layout[k] # "vpa"
  /\ Layout[21] = "vpa"
  /\ \A k \in 1 .. 20 : Layout[k] \in Reserved => k < 20 /\ Layout[k + 1] \notin Reserved
<1>1. \A k \in 1 .. 20 : Layout[k] # "vpa"
  BY DEF Layout
<1>2. \A k \in 1 .. 20 : Layout[k] \in Reserved => k \in {10, 14, 18}
  BY DEF Layout, Reserved
<1>3. Layout[11] \notin Reserved /\ Layout[15] \notin Reserved /\ Layout[19] \notin Reserved
  BY DEF Layout, Reserved
<1>4. Layout[21] = "vpa"
  BY DEF Layout
<1>5. \A k \in 1 .. 20 : Layout[k] \in Reserved => k < 20 /\ Layout[k + 1] \notin Reserved
  BY <1>2, <1>3
<1> QED BY <1>1, <1>4, <1>5 DEF Delim

\* Numbers with the same successor are the same.
LEMMA SameSuccessor == ASSUME NEW i \in Nat, NEW j \in Nat, i + 1 = j + 1 PROVE i = j
OBVIOUS

\* Twenty commas at increasing places have all the places of commas.
LEMMA AllPlaces ==
  ASSUME NEW g \in [0 .. 20 -> Int], g[0] = 0,
         \A k \in 1 .. 20 : g[k - 1] < g[k] /\ \E j \in 1 .. 20 : g[k] = 2 * j
  PROVE  \A k \in 0 .. 20 : g[k] = 2 * k
<1>0. \A k \in 0 .. 20 : \E j \in 0 .. 20 : g[k] = 2 * j
  <2>1. \A k \in 0 .. 20 : k = 0 \/ k \in 1 .. 20
    OBVIOUS
  <2>2. \A j \in 1 .. 20 : j \in 0 .. 20
    OBVIOUS
  <2>3. g[0] = 2 * 0 /\ 0 \in 0 .. 20
    OBVIOUS
  <2> QED BY <2>1, <2>2, <2>3
<1>1. \A k \in 0 .. 20 : g[k] >= 2 * k
  <2> DEFINE A == {k \in Nat : k =< 20 => g[k] >= 2 * k}
  <2>1. 0 \in A
    OBVIOUS
  <2>2. ASSUME NEW k \in Nat, k \in A PROVE k + 1 \in A
    <3> SUFFICES ASSUME k + 1 =< 20 PROVE g[k + 1] >= 2 * (k + 1)
      OBVIOUS
    <3>1. k + 1 \in 1 .. 20 /\ (k + 1) - 1 = k /\ k \in 0 .. 20
      OBVIOUS
    <3>2. g[k] >= 2 * k /\ g[k] < g[k + 1] /\ g[k] \in Int
      BY <2>2, <3>1
    <3>3. PICK j \in 1 .. 20 : g[k + 1] = 2 * j
      BY <3>1
    <3> QED BY <3>2, <3>3
  <2>3. Nat \subseteq A
    <3> HIDE DEF A
    <3> QED BY <2>1, <2>2, SetInduction
  <2> QED BY <2>3
<1>2. \A k \in 0 .. 20 : g[k] =< 2 * k
  <2> DEFINE A == {i \in Nat : i =< 20 => g[20 - i] =< 2 * (20 - i)}
  <2>1. 0 \in A
    <3>1. PICK j \in 1 .. 20 : g[20] = 2 * j
      OBVIOUS
    <3>2. g[20 - 0] =< 2 * (20 - 0)
      BY <3>1
    <3> QED BY <3>2
  <2>2. ASSUME NEW i \in Nat, i \in A PROVE i + 1 \in A
    <3> SUFFICES ASSUME i + 1 =< 20 PROVE g[20 - (i + 1)] =< 2 * (20 - (i + 1))
      OBVIOUS
    <3>1. PICK k \in 1 .. 20 : k = 20 - i
      OBVIOUS
    <3>2. g[k] =< 2 * k /\ k - 1 = 20 - (i + 1) /\ k - 1 \in 0 .. 20 /\ k \in 0 .. 20
      BY <2>2, <3>1
    <3>3. g[k - 1] < g[k] /\ g[k] \in Int
      BY <3>2
    <3>4. PICK j \in 0 .. 20 : g[k - 1] = 2 * j
      BY <1>0, <3>2
    <3>5. g[k - 1] =< 2 * (k - 1)
      BY <3>2, <3>3, <3>4
    <3> QED BY <3>2, <3>5
  <2>3. Nat \subseteq A
    <3> HIDE DEF A
    <3> QED BY <2>1, <2>2, SetInduction
  <2>4. ASSUME NEW k \in 0 .. 20 PROVE g[k] =< 2 * k
    <3>1. 20 - k \in Nat /\ 20 - k =< 20 /\ 20 - (20 - k) = k
      OBVIOUS
    <3>2. g[20 - (20 - k)] =< 2 * (20 - (20 - k))
      BY <2>3, <3>1
    <3> QED BY <3>1, <3>2
  <2> QED BY <2>4
<1>3. \A k \in 0 .. 20 : g[k] \in Int /\ 2 * k \in Int
  OBVIOUS
<1> QED BY <1>1, <1>2, <1>3

\* Between two commas there is room for one value.
LEMMA OneValue ==
  ASSUME NEW S, NEW s \in Seq(S), NEW h, InOrder(s, h), NEW k \in 1 .. 20,
         NEW a \in 1 .. Len(s), NEW b \in 1 .. Len(s), a < b,
         h[a] = 2 * k - 2, h[b] = 2 * k
  PROVE  SubSeq(s, a + 1, b - 1) \in {<<>>, <<Layout[k]>>}
<1> DEFINE v == SubSeq(s, a + 1, b - 1)
<1>1. a \in Nat /\ b \in Nat /\ Len(s) \in Nat
  OBVIOUS
<1>2. ASSUME NEW i \in a + 1 .. b - 1 PROVE h[i] = 2 * k - 1 /\ i \in 1 .. Len(s)
  <2>1. i \in 1 .. Len(s) /\ a < i /\ i < b
    BY <1>1
  <2>2. h[a] < h[i] /\ h[i] < h[b] /\ h[i] \in Int
    BY <2>1 DEF InOrder
  <2> QED BY <2>1, <2>2
<1>3. b = a + 1 \/ b = a + 2
  <2> SUFFICES ASSUME b > a + 2 PROVE FALSE
    BY <1>1
  <2>1. a + 1 \in a + 1 .. b - 1 /\ a + 2 \in a + 1 .. b - 1 /\ a + 1 < a + 2
    BY <1>1
  <2>2. h[a + 1] = h[a + 2] /\ a + 1 \in 1 .. Len(s) /\ a + 2 \in 1 .. Len(s)
    BY <1>2, <2>1
  <2>3. h[a + 1] < h[a + 2] /\ h[a + 1] \in Int
    BY <2>1, <2>2 DEF InOrder
  <2> QED BY <2>2, <2>3
<1>4. /\ v \in Seq(S) /\ Len(v) = IF a + 1 =< b - 1 THEN b - 1 - (a + 1) + 1 ELSE 0
      /\ \A i \in 1 .. b - 1 - (a + 1) + 1 : v[i] = s[a + 1 + i - 1]
  <2>1. \A i \in a + 1 .. b - 1 : s[i] \in S
    BY <1>2
  <2>2. a + 1 \in Nat /\ b - 1 \in Nat
    BY <1>1
  <2> QED BY <2>1, <2>2, SubSeqProperties
<1> HIDE DEF v
<1>5. CASE b = a + 1
  <2>1. Len(v) = 0
    BY <1>1, <1>4, <1>5
  <2>2. v = <<>>
    BY <1>4, <2>1
  <2> QED BY <2>2 DEF v
<1>6. CASE b = a + 2
  <2>1. Len(v) = 1 /\ v[1] = s[a + 1]
    BY <1>1, <1>4, <1>6
  <2>2. a + 1 \in a + 1 .. b - 1
    BY <1>1, <1>6
  <2>3. s[a + 1] = Layout[k]
    BY <1>2, <2>2 DEF InOrder
  <2>4. v = <<Layout[k]>>
    BY <1>4, <2>1, <2>3
  <2> QED BY <2>4 DEF v
<1> QED BY <1>3, <1>5, <1>6

\* The step from p to r sets field f to what stands between a and the comma b.
Filled(s, p, r, f, a, b) ==
  /\ a < b /\ s[b] = Comma /\ r.start = b + 1
  /\ \A x \in Fields :
       r.data[x] = IF x = f THEN SubSeq(s, a + 1, b - 1) ELSE p.data[x]

\* A step that starts behind a comma, or the space, finds the next comma: a
\* reserved field without one makes the next field fail.
LEMMA NextComma ==
  ASSUME NEW S, NEW s \in Seq(S), NEW h, InOrder(s, h), NEW k \in 1 .. 20,
         NEW p \in ParseState(S), NEW a \in 1 .. Len(s) - 1, p.start = a + 1,
         atGetNext(s, p, Layout[k]).ok,
         atGetNext(s, atGetNext(s, p, Layout[k]), Layout[k + 1]).ok
  PROVE  \E b \in 1 .. Len(s) - 1 :
           Filled(s, p, atGetNext(s, p, Layout[k]), Layout[k], a, b)
<1> DEFINE r == atGetNext(s, p, Layout[k])
           b == strchr(s, p.start, Delim(Layout[k]))
<1>1. p.start =< Len(s) /\ a \in Nat /\ Len(s) \in Nat
  OBVIOUS
<1>2. /\ b = 0 => Layout[k] \in Reserved /\ r = p
      /\ b # 0 =>
           /\ b \in p.start .. Len(s) /\ s[b] = Delim(Layout[k])
           /\ r.start = b + 1
           /\ \A x \in Fields :
                r.data[x] = IF x = Layout[k] THEN SubSeq(s, p.start, b - 1)
                                             ELSE p.data[x]
  BY <1>1, GetNextFacts
<1>3. b # 0
  <2> SUFFICES ASSUME b = 0 PROVE FALSE
    OBVIOUS
  <2>1. Layout[k] \in Reserved /\ r = p
    BY <1>2
  <2>2. k < 20 /\ Layout[k + 1] \notin Reserved
    BY <2>1, LayoutFacts
  <2>3. Delim(Layout[k]) = Comma /\ Delim(Layout[k + 1]) = Comma
    <3>1. k + 1 \in 1 .. 20
      BY <2>2
    <3> QED BY <3>1, LayoutFacts
  <2>4. strchr(s, p.start, Delim(Layout[k + 1])) = 0 /\ atGetNext(s, p, Layout[k + 1]).ok
    BY <2>1, <2>3
  <2>5. Layout[k + 1] \in Reserved
    BY <1>1, <2>4, GetNextFacts
  <2> QED BY <2>2, <2>5
<1>4. /\ b \in p.start .. Len(s) /\ s[b] = Comma /\ r.start = b + 1
      /\ \A x \in Fields :
           r.data[x] = IF x = Layout[k] THEN SubSeq(s, a + 1, b - 1)
                                        ELSE p.data[x]
  BY <1>2, <1>3, LayoutFacts
<1> HIDE DEF b, r
<1>5. b \in Nat /\ a < b /\ b \in 1 .. Len(s)
  <2>1. b \in a + 1 .. Len(s)
    BY <1>4
  <2> QED BY <1>1, <2>1
<1>6. b < Len(s)
  BY <1>4, <1>5 DEF InOrder
<1>7. b \in 1 .. Len(s) - 1
  BY <1>1, <1>5, <1>6
<1>8. Filled(s, p, r, Layout[k], a, b)
  BY <1>4, <1>5 DEF Filled
<1> QED BY <1>7, <1>8 DEF r

\* The commas are counted: a response that is accepted has all of them, and
\* what stands between two of them is the value of the field there, or
\* nothing.
LEMMA FieldsInPlace ==
  ASSUME NEW S, NEW s \in Seq(S), NEW h, InOrder(s, h), atCgnsinfParse(s).ok
  PROVE  \A f \in Fields \ {"vpa"} : atCgnsinfParse(s).data[f] \in {<<>>, <<f>>}
<1>1. PICK P \in [0 .. 21 -> ParseState(S)] :
        /\ P[0] = ParseBegin(s)
        /\ \A k \in 1 .. 21 : P[k] = atGetNext(s, P[k - 1], Layout[k])
        /\ atCgnsinfParse(s) = P[21]
  BY ParseSteps
<1> DEFINE n == Len(s)
           Q == [k \in 0 .. 21 |-> P[k].start - 1]
<1>2. /\ n \in Nat /\ Q \in [0 .. 21 -> Nat]
      /\ \A k \in 0 .. 21 : P[k].start = Q[k] + 1
  <2>1. n \in Nat
    OBVIOUS
  <2>2. \A k \in 0 .. 21 : P[k].start \in Nat \ {0}
    BY DEF ParseState
  <2>3. \A i \in Nat \ {0} : i - 1 \in Nat /\ i = (i - 1) + 1
    OBVIOUS
  <2> QED BY <2>1, <2>2, <2>3
<1> HIDE DEF Q
\* Once the parser has failed it has failed.
<1>3. \A k \in 0 .. 21 : P[k].ok
  <2> DEFINE A == {i \in Nat : i =< 21 => P[21 - i].ok}
  <2>1. 0 \in A
    BY <1>1
  <2>2. ASSUME NEW i \in Nat, i \in A PROVE i + 1 \in A
    <3> SUFFICES ASSUME i + 1 =< 21 PROVE P[21 - (i + 1)].ok
      OBVIOUS
    <3> DEFINE k == 21 - i
    <3>1. k \in 1 .. 21 /\ k - 1 = 21 - (i + 1) /\ P[k].ok
      BY <2>2
    <3>2. P[k] = atGetNext(s, P[k - 1], Layout[k])
      BY <1>1, <3>1
    <3> HIDE DEF k
    <3>3. ~P[k - 1].ok => P[k] = P[k - 1]
      BY <3>2 DEF atGetNext
    <3> QED BY <3>1, <3>3
  <2>3. Nat \subseteq A
    <3> HIDE DEF A
    <3> QED BY <2>1, <2>2, SetInduction
  <2>4. ASSUME NEW k \in 0 .. 21 PROVE P[k].ok
    <3>1. 21 - k \in Nat /\ 21 - k =< 21 /\ 21 - (21 - k) = k
      OBVIOUS
    <3> QED BY <2>3, <3>1
  <2> QED BY <2>4
\* The parser starts behind the space.
<1>4. Q[0] \in 1 .. n - 1 /\ h[Q[0]] = 0
  <2> DEFINE r == strchr(s, 1, Space)
  <2>1. P[0].ok = (r # 0) /\ P[0].start = r + 1
    BY <1>1 DEF ParseBegin
  <2>2. r # 0
    <3> SUFFICES ASSUME r = 0 PROVE FALSE
      OBVIOUS
    <3>1. (r # 0) = FALSE
      OBVIOUS
    <3>2. 0 \in 0 .. 21
      OBVIOUS
    <3> QED BY <1>3, <2>1, <3>1, <3>2, Zenon
  <2>3. r \in 1 .. n /\ s[r] = Space
    <3>1. 1 \in Nat \ {0}
      OBVIOUS
    <3> QED BY <2>2, <3>1, StrchrFacts
  <2>4. h[r] = 0 /\ r < n
    BY <2>3 DEF InOrder
  <2> HIDE DEF r
  <2>5. r \in Nat /\ r \in 1 .. n - 1
    <3>1. n \in Nat
      OBVIOUS
    <3> HIDE DEF n
    <3> QED BY <2>3, <2>4, <3>1
  <2>6. r + 1 = Q[0] + 1 /\ Q[0] \in Nat
    BY <1>2, <2>1
  <2>7. r = Q[0]
    BY <2>5, <2>6, SameSuccessor, Zenon
  <2> QED BY <2>4, <2>5, <2>7
\* Each step finds the next comma.
<1>5. ASSUME NEW k \in 1 .. 20, Q[k - 1] \in 1 .. n - 1
      PROVE  /\ Q[k] \in 1 .. n - 1 /\ Q[k - 1] < Q[k] /\ s[Q[k]] = Comma
             /\ \A x \in Fields :
                  P[k].data[x] = IF x = Layout[k] THEN SubSeq(s, Q[k - 1] + 1, Q[k] - 1)
                                                  ELSE P[k - 1].data[x]
  <2>0. /\ k - 1 \in 0 .. 21 /\ k \in 1 .. 21 /\ k \in 0 .. 21
        /\ k + 1 \in 0 .. 21 /\ k + 1 \in 1 .. 21 /\ (k + 1) - 1 = k
    OBVIOUS
  <2>1. P[k - 1] \in ParseState(S) /\ P[k - 1].start = Q[k - 1] + 1
        /\ P[k].start = Q[k] + 1 /\ Q[k] \in Nat
    BY <1>2, <2>0
  <2>2. P[k] = atGetNext(s, P[k - 1], Layout[k]) /\ P[k].ok
    BY <1>1, <1>3, <2>0
  <2>3. P[k + 1] = atGetNext(s, P[k], Layout[k + 1]) /\ P[k + 1].ok
    BY <1>1, <1>3, <2>0
  <2>4. PICK b \in 1 .. Len(s) - 1 :
          Filled(s, P[k - 1], P[k], Layout[k], Q[k - 1], b)
    <3>1. Q[k - 1] \in 1 .. Len(s) - 1
      BY <1>5
    <3>2. PICK p \in ParseState(S), a \in 1 .. Len(s) - 1 :
            p = P[k - 1] /\ a = Q[k - 1]
      BY <2>1, <3>1
    <3>3. /\ p.start = a + 1 /\ P[k] = atGetNext(s, p, Layout[k])
          /\ atGetNext(s, p, Layout[k]).ok
          /\ atGetNext(s, atGetNext(s, p, Layout[k]), Layout[k + 1]).ok
      BY <2>1, <2>2, <2>3, <3>2
    <3>4. \E b \in 1 .. Len(s) - 1 :
            Filled(s, p, atGetNext(s, p, Layout[k]), Layout[k], a, b)
      BY <3>3, NextComma
    <3> QED BY <3>2, <3>3, <3>4
  <2>5. b = Q[k]
    <3>1. b \in Nat
      OBVIOUS
    <3>2. b + 1 = Q[k] + 1
      BY <2>1, <2>4, Zenon DEF Filled
    <3> QED BY <2>1, <3>1, <3>2, SameSuccessor, Zenon
  <2> QED BY <2>4, <2>5 DEF Filled
<1>6. \A k \in 0 .. 20 : Q[k] \in 1 .. n - 1
  <2> DEFINE A == {k \in Nat : k =< 20 => Q[k] \in 1 .. n - 1}
  <2>1. 0 \in A
    BY <1>4
  <2>2. ASSUME NEW k \in Nat, k \in A PROVE k + 1 \in A
    <3> SUFFICES ASSUME k + 1 =< 20 PROVE Q[k + 1] \in 1 .. n - 1
      OBVIOUS
    <3>1. k + 1 \in 1 .. 20 /\ (k + 1) - 1 = k /\ k =< 20
      OBVIOUS
    <3>2. Q[(k + 1) - 1] \in 1 .. n - 1
      BY <2>2, <3>1
    <3> HIDE DEF n
    <3> QED BY <1>5, <3>1, <3>2
  <2>3. Nat \subseteq A
    <3> HIDE DEF A
    <3> QED BY <2>1, <2>2, SetInduction
  <2>4. \A k \in 0 .. 20 : k \in Nat /\ k =< 20
    OBVIOUS
  <2> HIDE DEF n
  <2> QED BY <2>3, <2>4
<1>7. ASSUME NEW k \in 1 .. 20
      PROVE  /\ Q[k - 1] \in 1 .. Len(s) /\ Q[k] \in 1 .. Len(s)
             /\ Q[k - 1] < Q[k] /\ s[Q[k]] = Comma
             /\ \A x \in Fields :
                  P[k].data[x] = IF x = Layout[k] THEN SubSeq(s, Q[k - 1] + 1, Q[k] - 1)
                                                  ELSE P[k - 1].data[x]
  <2>1. k - 1 \in 0 .. 20 /\ k \in 0 .. 20
    OBVIOUS
  <2>2. Q[k - 1] \in 1 .. n - 1 /\ Q[k] \in 1 .. n - 1
    BY <1>6, <2>1
  <2>3. \A i \in 1 .. n - 1 : i \in 1 .. n
    BY <1>2
  <2> HIDE DEF n
  <2>4. Q[k - 1] \in 1 .. n /\ Q[k] \in 1 .. n
    BY <2>2, <2>3
  <2> QED BY <1>5, <2>2, <2>4 DEF n
\* The commas that are found have the places of all commas.
<1>8. \A k \in 0 .. 20 : h[Q[k]] = 2 * k
  <2> DEFINE g == [k \in 0 .. 20 |-> h[Q[k]]]
  <2>1. \A k \in 0 .. 20 : Q[k] \in 1 .. Len(s)
    <3>1. \A i \in 1 .. n - 1 : i \in 1 .. Len(s)
      BY <1>2
    <3> HIDE DEF n
    <3> QED BY <1>6, <3>1
  <2>2. g \in [0 .. 20 -> Int]
    BY <2>1 DEF InOrder
  <2>3. g[0] = 0
    BY <1>4
  <2>4. ASSUME NEW k \in 1 .. 20
        PROVE  g[k - 1] < g[k] /\ \E j \in 1 .. 20 : g[k] = 2 * j
    <3>1. h[Q[k - 1]] < h[Q[k]] /\ \E j \in 1 .. 20 : h[Q[k]] = 2 * j
      <4>1. PICK a \in 1 .. Len(s), b \in 1 .. Len(s) :
              a = Q[k - 1] /\ b = Q[k] /\ a < b /\ s[b] = Comma
        BY <1>7
      <4>2. h[a] < h[b]
        BY <4>1 DEF InOrder
      <4>3. \E j \in 1 .. 20 : h[b] = 2 * j
        BY <4>1 DEF InOrder
      <4> QED BY <4>1, <4>2, <4>3
    <3>2. g[k - 1] = h[Q[k - 1]] /\ g[k] = h[Q[k]]
      OBVIOUS
    <3> HIDE DEF g
    <3> QED BY <3>1, <3>2
  <2>5. \A k \in 0 .. 20 : g[k] = 2 * k
    <3> HIDE DEF g
    <3> QED BY <2>2, <2>3, <2>4, AllPlaces
  <2> QED BY <2>5
\* So no step puts a value into another field.
<1>9. \A k \in 0 .. 20 : \A f \in Fields : P[k].data[f] \in {<<>>, <<f>>}
  <2> DEFINE A == {k \in Nat : k =< 20 =>
                     \A f \in Fields : P[k].data[f] \in {<<>>, <<f>>}}
  <2>1. 0 \in A
    BY <1>1 DEF ParseBegin
  <2>2. ASSUME NEW i \in Nat, i \in A PROVE i + 1 \in A
    <3> SUFFICES ASSUME i + 1 =< 20, NEW f \in Fields
                 PROVE  P[i + 1].data[f] \in {<<>>, <<f>>}
      OBVIOUS
    <3>1. PICK k \in 1 .. 20 : k = i + 1
      OBVIOUS
    <3>2. i = k - 1 /\ i =< 20 /\ k - 1 \in 0 .. 20 /\ k \in 0 .. 20
      BY <3>1
    <3>3. P[k - 1].data[f] \in {<<>>, <<f>>}
      BY <2>2, <3>2
    <3>4. P[k].data[f] = IF f = Layout[k] THEN SubSeq(s, Q[k - 1] + 1, Q[k] - 1)
                                          ELSE P[k - 1].data[f]
      BY <1>7
    <3>5. SubSeq(s, Q[k - 1] + 1, Q[k] - 1) \in {<<>>, <<Layout[k]>>}
      <4>1. h[Q[k - 1]] = 2 * (k - 1) /\ h[Q[k]] = 2 * k
        BY <1>8, <3>2
      <4>2. 2 * (k - 1) = 2 * k - 2
        OBVIOUS
      <4>3. PICK a \in 1 .. Len(s), b \in 1 .. Len(s) : a = Q[k - 1] /\ b = Q[k]
        BY <1>7
      <4>4. a < b /\ h[a] = 2 * k - 2 /\ h[b] = 2 * k
        BY <1>7, <4>1, <4>2, <4>3
      <4>5. SubSeq(s, a + 1, b - 1) \in {<<>>, <<Layout[k]>>}
        BY <4>4, OneValue
      <4> QED BY <4>3, <4>5
    <3>6. P[k].data[f] \in {<<>>, <<f>>}
      BY <3>3, <3>4, <3>5
    <3> QED BY <3>1, <3>6
  <2>3. Nat \subseteq A
    <3> HIDE DEF A
    <3> QED BY <2>1, <2>2, SetInduction
  <2>4. \A k \in 0 .. 20 : k \in Nat /\ k =< 20
    OBVIOUS
  <2> QED BY <2>3, <2>4
\* The last step sets the last field only.
<1>10. ASSUME NEW f \in Fields \ {"vpa"}
       PROVE  P[21].data[f] = P[20].data[f]
  <2>1. /\ P[20] \in ParseState(S) /\ P[20].start =< Len(s)
        /\ P[21] = atGetNext(s, P[20], "vpa") /\ P[21].ok
    <3>1. 20 \in 0 .. 20 /\ 20 \in 0 .. 21 /\ 21 \in 0 .. 21 /\ 21 \in 1 .. 21 /\ 21 - 1 = 20
      OBVIOUS
    <3>2. Q[20] \in 1 .. n - 1
      BY <1>6, <3>1
    <3>3. P[20].start =< Len(s)
      <4>1. P[20].start = Q[20] + 1 /\ n \in Nat
        BY <1>2, <3>1
      <4>2. PICK b \in 1 .. n - 1 : b = Q[20]
        BY <3>2
      <4>3. b + 1 =< n
        <5> HIDE DEF n
        <5> QED BY <4>1
      <4> QED BY <4>1, <4>2, <4>3
    <3>4. P[21] = atGetNext(s, P[20], Layout[21])
      BY <1>1, <3>1
    <3> QED BY <1>3, <3>1, <3>3, <3>4, LayoutFacts
  <2> DEFINE end == strchr(s, P[20].start, Delim("vpa"))
  <2>2. /\ end = 0 => P[21] = P[20]
        /\ end # 0 => P[21].data[f] = IF f = "vpa" THEN SubSeq(s, P[20].start, end - 1)
                                                   ELSE P[20].data[f]
    BY <2>1, GetNextFacts
  <2> HIDE DEF end
  <2> QED BY <2>2
<1> QED
  <2>1. 20 \in 0 .. 20
    OBVIOUS
  <2> QED BY <1>1, <1>9, <1>10, <2>1

-----------------------------------------------------------------------------
(* What the modem sends, character by character.                           *)

\* z is x and, behind its m characters, the n characters of y.
Joined(z, x, m, y, n) ==
  /\ Len(z) = m + n
  /\ \A i \in 1 .. m : z[i] = x[i]
  /\ \A i \in 1 .. n : z[m + i] = y[i]

\* That is what o means.
LEMMA Join ==
  ASSUME NEW S, NEW x \in Seq(S), NEW y \in Seq(S), NEW m \in Nat, NEW n \in Nat,
         Len(x) = m, Len(y) = n
  PROVE  x \o y \in Seq(S) /\ Joined(x \o y, x, m, y, n)
BY DEF Joined

\* Character by character, what the modem answers.
LEMMA ResponseAt ==
  /\ Len(Response) = 53
  /\ Response[1] = Cr /\ Response[2] = Lf
  /\ Response[3] = "+CGNSINF:" /\ Response[4] = Space
  /\ \A j \in 1 .. 41 :
       Response[4 + j] = IF j % 2 = 1 THEN Layout[(j + 1) \div 2] ELSE Comma
  /\ Response[46] = Cr /\ Response[47] = Lf /\ Response[48] = Cr /\ Response[49] = Lf
  /\ Response[50] = "O" /\ Response[51] = "K"
  /\ Response[52] = Cr /\ Response[53] = Lf
<1> DEFINE fields == [i \in 1 .. 2 * Len(Layout) - 1 |->
                        IF i % 2 = 1 THEN Layout[(i + 1) \div 2] ELSE Comma]
           name == <<"+CGNSINF:", Space>>
           ok == <<"O", "K">>
<1>1. Len(Layout) = 21
  BY DEF Layout
<1>2. /\ fields \in Seq(Chars) /\ Len(fields) = 41
      /\ \A j \in 1 .. 41 : fields[j] = IF j % 2 = 1 THEN Layout[(j + 1) \div 2] ELSE Comma
  <2>1. 2 * Len(Layout) - 1 = 41
    BY <1>1
  <2>2. \A i \in 1 .. 41 : i % 2 = 1 => Layout[(i + 1) \div 2] \in Chars
    <3>1. \A i \in 1 .. 41 : (i + 1) \div 2 \in 1 .. 21
      OBVIOUS
    <3> QED BY <1>1, <3>1 DEF Chars
  <2>3. fields \in [1 .. 41 -> Chars]
    <3>1. Comma \in Chars
      BY DEF Chars
    <3> QED BY <2>1, <2>2, <3>1
  <2>4. \A j \in 1 .. 41 : fields[j] = IF j % 2 = 1 THEN Layout[(j + 1) \div 2] ELSE Comma
    BY <2>1
  <2> HIDE DEF fields
  <2>5. fields \in Seq(Chars)
    BY <2>3, SeqDef
  <2>6. Len(fields) = 41
    BY <2>3, <2>5
  <2> QED BY <2>4, <2>5, <2>6
<1>3. name \in Seq(Chars) /\ ok \in Seq(Chars)
  BY DEF Chars, StatusChars
<1>4. CrLf \in Seq(Chars)
  BY ModemTexts
<1>5. /\ Len(CrLf) = 2 /\ CrLf[1] = Cr /\ CrLf[2] = Lf
      /\ Len(name) = 2 /\ name[1] = "+CGNSINF:" /\ name[2] = Space
      /\ Len(ok) = 2 /\ ok[1] = "O" /\ ok[2] = "K"
  BY DEF CrLf
<1>6. 2 \in Nat /\ 4 \in Nat /\ 41 \in Nat /\ 45 \in Nat /\ 47 \in Nat /\ 49 \in Nat /\ 51 \in Nat
  OBVIOUS
<1> DEFINE r1 == CrLf \o name
           r2 == r1 \o fields
           r3 == r2 \o CrLf
           r4 == r3 \o CrLf
           r5 == r4 \o ok
           r6 == r5 \o CrLf
<1>7. Response = r6
  BY DEF Response
<1> HIDE DEF fields, name, ok
<1>8. r1 \in Seq(Chars) /\ Joined(r1, CrLf, 2, name, 2)
  BY <1>3, <1>4, <1>5, <1>6, Join, Zenon
<1> HIDE DEF r1
<1>9. Len(r1) = 4 /\ r1[1] = Cr /\ r1[2] = Lf /\ r1[3] = "+CGNSINF:" /\ r1[4] = Space
  <2>1. r1[2 + 1] = name[1] /\ r1[2 + 2] = name[2] /\ r1[1] = CrLf[1] /\ r1[2] = CrLf[2]
    BY <1>8 DEF Joined
  <2>2. Len(r1) = 2 + 2
    BY <1>8 DEF Joined
  <2> QED BY <1>5, <2>1, <2>2
<1>10. r2 \in Seq(Chars) /\ Joined(r2, r1, 4, fields, 41)
  BY <1>2, <1>6, <1>8, <1>9, Join, Zenon
<1> HIDE DEF r2
<1>11. Len(r2) = 45
  BY <1>10 DEF Joined
<1>12. r3 \in Seq(Chars) /\ Joined(r3, r2, 45, CrLf, 2)
  BY <1>4, <1>5, <1>6, <1>10, <1>11, Join, Zenon
<1> HIDE DEF r3
<1>13. Len(r3) = 47
  BY <1>12 DEF Joined
<1>14. r4 \in Seq(Chars) /\ Joined(r4, r3, 47, CrLf, 2)
  BY <1>4, <1>5, <1>6, <1>12, <1>13, Join, Zenon
<1> HIDE DEF r4
<1>15. Len(r4) = 49
  BY <1>14 DEF Joined
<1>16. r5 \in Seq(Chars) /\ Joined(r5, r4, 49, ok, 2)
  BY <1>3, <1>5, <1>6, <1>14, <1>15, Join, Zenon
<1> HIDE DEF r5
<1>17. Len(r5) = 51
  BY <1>16 DEF Joined
<1>18. r6 \in Seq(Chars) /\ Joined(r6, r5, 51, CrLf, 2)
  BY <1>4, <1>5, <1>6, <1>16, <1>17, Join, Zenon
<1> HIDE DEF r6
<1>19. Len(r6) = 53 /\ r6[52] = Cr /\ r6[53] = Lf /\ \A i \in 1 .. 51 : r6[i] = r5[i]
  <2>1. r6[51 + 1] = CrLf[1] /\ r6[51 + 2] = CrLf[2] /\ Len(r6) = 51 + 2
    BY <1>18 DEF Joined
  <2>2. \A i \in 1 .. 51 : r6[i] = r5[i]
    BY <1>18 DEF Joined
  <2> QED BY <1>5, <2>1, <2>2
<1>20. r6[50] = "O" /\ r6[51] = "K" /\ \A i \in 1 .. 49 : r6[i] = r4[i]
  <2>1. r5[49 + 1] = ok[1] /\ r5[49 + 2] = ok[2]
    BY <1>16 DEF Joined
  <2>2. \A i \in 1 .. 49 : r5[i] = r4[i] /\ i \in 1 .. 51
    <3>1. \A i \in 1 .. 49 : r5[i] = r4[i]
      BY <1>16 DEF Joined
    <3>2. \A i \in 1 .. 49 : i \in 1 .. 51
      OBVIOUS
    <3> QED BY <3>1, <3>2, Zenon
  <2>3. 50 \in 1 .. 51 /\ 51 \in 1 .. 51 /\ 49 + 1 = 50 /\ 49 + 2 = 51
    OBVIOUS
  <2>4. r6[50] = r5[50] /\ r6[51] = r5[51] /\ \A i \in 1 .. 49 : r6[i] = r5[i]
    BY <1>19, <2>2, <2>3, Zenon
  <2> QED BY <1>5, <2>1, <2>2, <2>3, <2>4
<1>21. r6[48] = Cr /\ r6[49] = Lf /\ \A i \in 1 .. 47 : r6[i] = r3[i]
  <2>1. r4[47 + 1] = CrLf[1] /\ r4[47 + 2] = CrLf[2]
    BY <1>14 DEF Joined
  <2>2. \A i \in 1 .. 47 : r4[i] = r3[i] /\ i \in 1 .. 49
    <3>1. \A i \in 1 .. 47 : r4[i] = r3[i]
      BY <1>14 DEF Joined
    <3>2. \A i \in 1 .. 47 : i \in 1 .. 49
      OBVIOUS
    <3> QED BY <3>1, <3>2, Zenon
  <2>3. 48 \in 1 .. 49 /\ 49 \in 1 .. 49 /\ 47 + 1 = 48 /\ 47 + 2 = 49
    OBVIOUS
  <2>4. r6[48] = r4[48] /\ r6[49] = r4[49] /\ \A i \in 1 .. 47 : r6[i] = r4[i]
    BY <1>20, <2>2, <2>3, Zenon
  <2> QED BY <1>5, <2>1, <2>2, <2>3, <2>4
<1>22. r6[46] = Cr /\ r6[47] = Lf /\ \A i \in 1 .. 45 : r6[i] = r2[i]
  <2>1. r3[45 + 1] = CrLf[1] /\ r3[45 + 2] = CrLf[2]
    BY <1>12 DEF Joined
  <2>2. \A i \in 1 .. 45 : r3[i] = r2[i] /\ i \in 1 .. 47
    <3>1. \A i \in 1 .. 45 : r3[i] = r2[i]
      BY <1>12 DEF Joined
    <3>2. \A i \in 1 .. 45 : i \in 1 .. 47
      OBVIOUS
    <3> QED BY <3>1, <3>2, Zenon
  <2>3. 46 \in 1 .. 47 /\ 47 \in 1 .. 47 /\ 45 + 1 = 46 /\ 45 + 2 = 47
    OBVIOUS
  <2>4. r6[46] = r3[46] /\ r6[47] = r3[47] /\ \A i \in 1 .. 45 : r6[i] = r3[i]
    BY <1>21, <2>2, <2>3, Zenon
  <2> QED BY <1>5, <2>1, <2>2, <2>3, <2>4
<1>23. \A j \in 1 .. 41 : r6[4 + j] = fields[j]
  <2>1. \A j \in 1 .. 41 : 4 + j \in 1 .. 45
    OBVIOUS
  <2>2. \A j \in 1 .. 41 : r2[4 + j] = fields[j]
    BY <1>10 DEF Joined
  <2> QED BY <1>22, <2>1, <2>2, Zenon
<1>24. r6[1] = Cr /\ r6[2] = Lf /\ r6[3] = "+CGNSINF:" /\ r6[4] = Space
  <2>1. \A i \in 1 .. 4 : r2[i] = r1[i] /\ i \in 1 .. 45
    <3>1. \A i \in 1 .. 4 : r2[i] = r1[i]
      BY <1>10 DEF Joined
    <3>2. \A i \in 1 .. 4 : i \in 1 .. 45
      OBVIOUS
    <3> QED BY <3>1, <3>2, Zenon
  <2>2. 1 \in 1 .. 4 /\ 2 \in 1 .. 4 /\ 3 \in 1 .. 4 /\ 4 \in 1 .. 4
    OBVIOUS
  <2>3. \A i \in 1 .. 4 : r6[i] = r1[i]
    BY <1>22, <2>1, Zenon
  <2> QED BY <1>9, <2>2, <2>3
<1>25. \A j \in 1 .. 41 : r6[4 + j] = IF j % 2 = 1 THEN Layout[(j + 1) \div 2] ELSE Comma
  BY <1>2, <1>23
<1> QED BY <1>7, <1>19, <1>20, <1>21, <1>22, <1>24, <1>25, Zenon

\* An unsolicited line.
LEMMA UrcAt ==
  /\ Urc \in Seq(Chars) /\ Len(Urc) = 9 /\ Urc[4] = Space
  /\ \A i \in 1 .. 9 : Urc[i] \notin {"O", "K"}
<1> DEFINE words == <<"+CREG:", Space, "1", Comma, "5">>
           r1 == CrLf \o words
           r2 == r1 \o CrLf
<1>1. words \in Seq(Chars)
  BY DEF Chars, NumberChars
<1>2. Len(words) = 5 /\ words[2] = Space
  OBVIOUS
<1>3. Len(CrLf) = 2 /\ CrLf[1] = Cr /\ CrLf[2] = Lf
  BY DEF CrLf
<1>4. CrLf \in Seq(Chars)
  BY ModemTexts
<1>5. \A i \in 1 .. 5 : words[i] \notin {"O", "K"}
  <2>1. /\ words[1] = "+CREG:" /\ words[2] = Space /\ words[3] = "1"
        /\ words[4] = Comma /\ words[5] = "5"
    OBVIOUS
  <2>2. \A i \in 1 .. 5 : i = 1 \/ i = 2 \/ i = 3 \/ i = 4 \/ i = 5
    OBVIOUS
  <2> HIDE DEF words
  <2>3. \A i \in 1 .. 5 : words[i] \in {"+CREG:", Space, "1", Comma, "5"}
    BY <2>1, <2>2
  <2>4. \A c \in {"+CREG:", Space, "1", Comma, "5"} : c \notin {"O", "K"}
    BY Zenon DEF Space, Comma
  <2> QED BY <2>3, <2>4
<1>6. 2 \in Nat /\ 5 \in Nat /\ 7 \in Nat
  OBVIOUS
<1>7. Urc = r2
  BY DEF Urc
<1> HIDE DEF words
<1>8. r1 \in Seq(Chars) /\ Joined(r1, CrLf, 2, words, 5)
  BY <1>1, <1>2, <1>3, <1>4, <1>6, Join, Zenon
<1> HIDE DEF r1
<1>9. /\ Len(r1) = 7 /\ r1[1] = CrLf[1] /\ r1[2] = CrLf[2]
      /\ \A i \in 1 .. 5 : r1[2 + i] = words[i]
  BY <1>8 DEF Joined
<1>10. r1[4] = Space /\ \A i \in 1 .. 7 : r1[i] \notin {"O", "K"}
  <2>1. \A i \in 1 .. 7 : i = 1 \/ i = 2 \/ (i - 2 \in 1 .. 5 /\ i = 2 + (i - 2))
    OBVIOUS
  <2>2. r1[2 + 2] = words[2]
    BY <1>9
  <2>3. r1[4] = Space
    BY <1>2, <2>2
  <2>4. ASSUME NEW i \in 1 .. 7 PROVE r1[i] \notin {"O", "K"}
    <3>1. CASE i = 1 \/ i = 2
      BY <1>3, <1>9, <3>1 DEF Cr, Lf
    <3>2. CASE i - 2 \in 1 .. 5
      <4>1. r1[2 + (i - 2)] = words[i - 2] /\ 2 + (i - 2) = i
        BY <1>9, <3>2
      <4> QED BY <1>5, <3>2, <4>1
    <3> QED BY <2>1, <3>1, <3>2
  <2> QED BY <2>3, <2>4
<1>11. r2 \in Seq(Chars) /\ Joined(r2, r1, 7, CrLf, 2)
  BY <1>3, <1>4, <1>6, <1>8, <1>9, Join, Zenon
<1> HIDE DEF r2
<1>12. /\ Len(r2) = 9 /\ \A i \in 1 .. 7 : r2[i] = r1[i]
       /\ r2[8] = CrLf[1] /\ r2[9] = CrLf[2]
  <2>1. r2[7 + 1] = CrLf[1] /\ r2[7 + 2] = CrLf[2]
    BY <1>11 DEF Joined
  <2>2. Len(r2) = 9 /\ \A i \in 1 .. 7 : r2[i] = r1[i]
    BY <1>11 DEF Joined
  <2> QED BY <2>1, <2>2
<1>13. \A i \in 1 .. 9 : r2[i] \notin {"O", "K"}
  <2>1. \A i \in 1 .. 9 : i \in 1 .. 7 \/ i = 8 \/ i = 9
    OBVIOUS
  <2> QED BY <1>3, <1>10, <1>12, <2>1 DEF Cr, Lf
<1>14. r2[4] = Space
  BY <1>10, <1>12
<1> QED BY <1>7, <1>11, <1>12, <1>13, <1>14

\* No field's value is a character that the firmware looks for.
LEMMA LayoutWords ==
  \A k \in 1 .. 21 : Layout[k] \notin {"O", Comma, Space, Cr, Lf}
<1>1. \A k \in 1 .. 21 : Layout[k] # "O"
  BY DEF Layout
<1>2. \A k \in 1 .. 21 : Layout[k] # Comma
  <2> DEFINE words ==
        {"runStatus", "fixStatus", "date", "latitude", "longitude", "altitude",
         "speed", "course", "fixMode", "reserved1", "hdop", "pdop", "vdop",
         "reserved2", "gpsSatInView", "gnssSatInUse", "gnssSatInView",
         "reserved3", "cnomax", "hpa", "vpa"}
  <2>1. \A k \in 1 .. 21 : Layout[k] \in words
    BY DEF Layout
  <2>2. Comma \notin words
    BY Zenon DEF Comma
  <2> HIDE DEF words
  <2> QED BY <2>1, <2>2
<1>3. \A k \in 1 .. 21 : Layout[k] # Space
  BY DEF Layout, Space
<1>4. \A k \in 1 .. 21 : Layout[k] # Cr
  BY DEF Layout, Cr
<1>5. \A k \in 1 .. 21 : Layout[k] # Lf
  BY DEF Layout, Lf
<1> QED BY <1>1, <1>2, <1>3, <1>4, <1>5

\* Where the characters that matter stand in a response.
LEMMA ResponseChars ==
  /\ \A j \in 1 .. 53 : Response[j] = "O" => j = 50
  /\ \A j \in 1 .. 53 : Response[j] = Space => j = 4
  /\ \A j \in 1 .. 53 : Response[j] = Comma => \E m \in 1 .. 20 : j = 4 + 2 * m
  /\ \A k \in 1 .. 20 : Response[4 + (2 * k - 1)] = Layout[k]
<1>1. ASSUME NEW j \in 1 .. 41
      PROVE  /\ Response[4 + j] \notin {"O", Space}
             /\ Response[4 + j] = Comma => j % 2 # 1
  <2>1. (j + 1) \div 2 \in 1 .. 21
    OBVIOUS
  <2>2. CASE j % 2 = 1
    <3>1. Response[4 + j] = Layout[(j + 1) \div 2]
      BY <2>2, ResponseAt
    <3>2. \A k \in 1 .. 21 : Layout[k] \notin {"O", Comma, Space}
      BY LayoutWords
    <3> QED BY <2>1, <3>1, <3>2, Zenon
  <2>3. CASE j % 2 # 1
    <3>1. Response[4 + j] = Comma
      BY <2>3, ResponseAt
    <3> QED BY <2>3, <3>1, Zenon DEF Space, Comma
  <2> QED BY <2>2, <2>3
<1>2. \A j \in 1 .. 53 : \/ j \in {1, 2, 3, 4, 46, 47, 48, 49, 50, 51, 52, 53}
                         \/ j - 4 \in 1 .. 41 /\ 4 + (j - 4) = j
  OBVIOUS
<1>3. \A j \in {1, 2, 3, 4, 46, 47, 48, 49, 50, 51, 52, 53} :
        /\ Response[j] = "O" => j = 50
        /\ Response[j] = Space => j = 4
        /\ Response[j] # Comma
  BY ResponseAt DEF Space, Cr, Lf, Comma
<1>4. ASSUME NEW j \in 1 .. 53, j - 4 \in 1 .. 41
      PROVE  /\ Response[j] \notin {"O", Space}
             /\ Response[j] = Comma => (j - 4) % 2 # 1
  <2>1. 4 + (j - 4) = j
    OBVIOUS
  <2>2. /\ Response[4 + (j - 4)] \notin {"O", Space}
        /\ Response[4 + (j - 4)] = Comma => (j - 4) % 2 # 1
    BY <1>1, <1>4
  <2> QED BY <2>1, <2>2
<1>5. ASSUME NEW j \in 1 .. 53, Response[j] = Comma PROVE \E m \in 1 .. 20 : j = 4 + 2 * m
  <2>1. j - 4 \in 1 .. 41 /\ (j - 4) % 2 # 1
    BY <1>2, <1>3, <1>4, <1>5
  <2>2. (j - 4) \div 2 \in 1 .. 20 /\ j = 4 + 2 * ((j - 4) \div 2)
    BY <2>1
  <2> QED BY <2>2
<1>6. ASSUME NEW k \in 1 .. 20 PROVE Response[4 + (2 * k - 1)] = Layout[k]
  <2> DEFINE j == 2 * k - 1
  <2>1. j \in 1 .. 41 /\ j % 2 = 1 /\ (j + 1) \div 2 = k
    OBVIOUS
  <2> HIDE DEF j
  <2>2. Response[4 + j] = Layout[k]
    BY <2>1, ResponseAt
  <2> QED BY <2>2 DEF j
<1>7. \A j \in 1 .. 53 : (Response[j] = "O" => j = 50) /\ (Response[j] = Space => j = 4)
  BY <1>2, <1>3, <1>4
<1> QED BY <1>5, <1>6, <1>7

\* A text whose status is OK ends in it.
LEMMA OkText ==
  ASSUME NEW S, NEW s \in Seq(S), sim8xxGetStatus(s) = "OK"
  PROVE  /\ Len(s) >= 4 /\ s[Len(s) - 3] = "O" /\ s[Len(s) - 2] = "K"
         /\ s[Len(s) - 1] = Cr /\ s[Len(s)] = Lf
<1> DEFINE n == Len(s)
           body == SubSeq(s, 1, n - 2)
           later == {i \in Breaks(body) : i > 2}
           k == IF later = {} THEN 3 ELSE Max(later) + 2
           word == SubSeq(body, k, n - 2)
<1>1. EndsInCrLf(s)
  BY DEF sim8xxGetStatus
<1>2. n \in Nat /\ n >= 2 /\ s[n - 1] = Cr /\ s[n] = Lf
  BY <1>1 DEF EndsInCrLf, Breaks
<1>3. Len(body) = n - 2 /\ (\A i \in 1 .. n - 2 : body[i] = s[i])
      /\ Breaks(body) = Breaks(s) \ {n - 1}
  BY <1>1, BodyBreaks
<1>4. word = <<"O", "K">>
  <2>1. StatusOf(word) = "OK"
    <3>1. sim8xxGetStatus(s) = StatusOf(SubSeq(body, k, Len(body)))
      BY <1>1 DEF sim8xxGetStatus
    <3> HIDE DEF body, k
    <3> QED BY <1>3, <3>1
  <2> HIDE DEF word
  <2> QED BY <2>1 DEF StatusOf
<1>5. k \in Nat \ {0}
  <2>1. later \in SUBSET (1 .. n)
    <3>1. Breaks(s) \in SUBSET (1 .. n)
      BY <1>2 DEF Breaks
    <3> HIDE DEF body
    <3> QED BY <1>3, <3>1
  <2> HIDE DEF later
  <2>2. later # {} => Max(later) \in later
    BY <1>2, <2>1, MaxExists
  <2> HIDE DEF n, body, word
  <2>3. later # {} => Max(later) \in 1 .. n
    BY <2>1, <2>2
  <2>4. later # {} => Max(later) + 2 \in Nat \ {0}
    BY <1>2, <2>3
  <2> QED BY <2>4
<1> HIDE DEF k
<1>6. /\ Len(word) = IF k =< n - 2 THEN n - 2 - k + 1 ELSE 0
      /\ \A i \in 1 .. n - 2 - k + 1 : word[i] = body[k + i - 1]
  <2>1. \A i \in k .. n - 2 : body[i] \in S
    <3>1. \A i \in k .. n - 2 : i \in 1 .. n - 2 /\ i \in 1 .. n
      BY <1>2, <1>5
    <3>2. \A i \in 1 .. n : s[i] \in S
      OBVIOUS
    <3> HIDE DEF body, n
    <3> QED BY <1>3, <3>1, <3>2
  <2>2. n - 2 \in Int /\ k \in Nat
    BY <1>2, <1>5
  <2> HIDE DEF body, n
  <2> QED BY <1>2, <1>5, <2>1, <2>2, SubSeqProperties
<1> HIDE DEF word, body, n, later
<1>7. Len(word) = 2 /\ word[1] = "O" /\ word[2] = "K"
  BY <1>4
<1>8. n - 2 - k + 1 = 2 /\ n >= 4 /\ k = n - 3
  <2>1. 2 = IF k =< n - 2 THEN n - 2 - k + 1 ELSE 0
    BY <1>6, <1>7
  <2> QED BY <1>2, <1>5, <2>1
<1>9. body[n - 3] = "O" /\ body[n - 2] = "K"
  <2>1. word[1] = body[k + 1 - 1] /\ word[2] = body[k + 2 - 1]
    BY <1>6, <1>8
  <2>2. k + 1 - 1 = n - 3 /\ k + 2 - 1 = n - 2
    BY <1>2, <1>5, <1>8
  <2> QED BY <1>7, <2>1, <2>2
<1>10. n - 3 \in 1 .. n - 2 /\ n - 2 \in 1 .. n - 2
  BY <1>2, <1>8
<1>11. s[n - 3] = "O" /\ s[n - 2] = "K"
  BY <1>3, <1>9, <1>10
<1> QED BY <1>2, <1>8, <1>11 DEF n

-----------------------------------------------------------------------------
(* What is left of it.                                                     *)

\* t is what is left of u, and h tells where its characters come from.
LeftOf(t, u, h) ==
  /\ h \in [1 .. Len(t) -> 1 .. Len(u)]
  /\ \A i, j \in 1 .. Len(t) : i < j => h[i] < h[j]
  /\ \A i \in 1 .. Len(t) : t[i] = u[h[i]]

\* A text is what is left of any text that it begins.
LEMMA LeftOfPrefix ==
  ASSUME NEW S, NEW x \in Seq(S), NEW y \in Seq(S)
  PROVE  \E h : LeftOf(x, x \o y, h)
<1> DEFINE h == [i \in 1 .. Len(x) |-> i]
           u == x \o y
<1>1. Len(u) = Len(x) + Len(y) /\ Len(x) \in Nat /\ Len(y) \in Nat
      /\ \A i \in 1 .. Len(x) : u[i] = x[i]
  OBVIOUS
<1> HIDE DEF u
<1>2. LeftOf(x, u, h)
  BY <1>1 DEF LeftOf
<1> QED BY <1>2 DEF u

\* A run of characters is lost.
LEMMA LeftOfLess ==
  ASSUME NEW S, NEW t \in Seq(S), NEW d \in Seq(S), NEW u \in Seq(S), NEW h,
         LeftOf(t \o d, u, h), NEW n \in 1 .. Len(d)
  PROVE  \E g : LeftOf(t \o SubSeq(d, n + 1, Len(d)), u, g)
<1> DEFINE m == Len(t)
           l == Len(d)
           e == SubSeq(d, n + 1, l)
           v == t \o e
           w == t \o d
           g == [i \in 1 .. Len(v) |-> IF i =< m THEN h[i] ELSE h[i + n]]
<1>1. m \in Nat /\ l \in Nat /\ n \in Nat /\ n =< l
  OBVIOUS
<1>2. e \in Seq(S) /\ Len(e) = l - n /\ \A i \in 1 .. l - n : e[i] = d[n + i]
  <2>1. e \in Seq(S)
    OBVIOUS
  <2>2. /\ Len(e) = IF n + 1 =< l THEN l - (n + 1) + 1 ELSE 0
        /\ \A i \in 1 .. l - (n + 1) + 1 : e[i] = d[n + 1 + i - 1]
    <3>1. \A i \in n + 1 .. l : d[i] \in S
      OBVIOUS
    <3>2. n + 1 \in Nat /\ l \in Nat
      BY <1>1
    <3> QED BY <3>1, <3>2, SubSeqProperties
  <2> HIDE DEF e, l, m
  <2>3. Len(e) = l - n
    BY <1>1, <2>2
  <2>4. \A i \in 1 .. l - n : i \in 1 .. l - (n + 1) + 1 /\ n + 1 + i - 1 = n + i
    BY <1>1
  <2> QED BY <2>1, <2>2, <2>3, <2>4
<1> HIDE DEF e
<1>3. /\ Len(w) = m + l /\ \A i \in 1 .. m : w[i] = t[i]
      /\ \A i \in 1 .. l : w[m + i] = d[i]
  OBVIOUS
<1>4. /\ v \in Seq(S) /\ Len(v) = m + (l - n) /\ \A i \in 1 .. m : v[i] = t[i]
      /\ \A i \in 1 .. l - n : v[m + i] = e[i]
  <2>1. v \in Seq(S) /\ Joined(v, t, m, e, l - n)
    <3>1. l - n \in Nat
      BY <1>1
    <3> QED BY <1>2, <3>1, Join
  <2> QED BY <2>1 DEF Joined
<1> HIDE DEF v, w
<1>5. ASSUME NEW i \in 1 .. Len(v), i > m
      PROVE  i + n \in 1 .. Len(w) /\ v[i] = w[i + n]
  <2>1. PICK j \in 1 .. l - n : i = m + j
    <3>1. i - m \in 1 .. l - n /\ i = m + (i - m)
      BY <1>1, <1>4, <1>5
    <3> QED BY <3>1
  <2>2. v[i] = e[j] /\ e[j] = d[n + j]
    BY <1>2, <1>4, <2>1
  <2>3. n + j \in 1 .. l /\ i + n = m + (n + j)
    BY <1>1, <2>1
  <2>4. w[i + n] = d[n + j]
    BY <1>3, <2>3
  <2>5. i + n \in 1 .. Len(w)
    BY <1>1, <1>3, <2>3
  <2> QED BY <2>2, <2>4, <2>5
<1>6. ASSUME NEW i \in 1 .. Len(v), i =< m
      PROVE  i \in 1 .. Len(w) /\ v[i] = w[i]
  <2>1. i \in 1 .. m /\ i \in 1 .. Len(w)
    BY <1>1, <1>3, <1>6
  <2> QED BY <1>3, <1>4, <2>1
<1>7. /\ h \in [1 .. Len(w) -> 1 .. Len(u)]
      /\ \A i, j \in 1 .. Len(w) : i < j => h[i] < h[j]
      /\ \A i \in 1 .. Len(w) : w[i] = u[h[i]]
  BY DEF LeftOf, w
<1>8. \A i \in 1 .. Len(v) : g[i] \in 1 .. Len(u) /\ v[i] = u[g[i]]
  <2> SUFFICES ASSUME NEW i \in 1 .. Len(v) PROVE g[i] \in 1 .. Len(u) /\ v[i] = u[g[i]]
    OBVIOUS
  <2>1. CASE i =< m
    <3>1. g[i] = h[i]
      BY <2>1
    <3> HIDE DEF g
    <3> QED BY <1>6, <1>7, <2>1, <3>1
  <2>2. CASE i > m
    <3>1. g[i] = h[i + n]
      BY <1>1, <2>2
    <3> HIDE DEF g
    <3> QED BY <1>5, <1>7, <2>2, <3>1
  <2> QED BY <1>1, <2>1, <2>2
<1>9. ASSUME NEW i \in 1 .. Len(v), NEW j \in 1 .. Len(v), i < j PROVE g[i] < g[j]
  <2>1. PICK a \in 1 .. Len(w), b \in 1 .. Len(w) : a < b /\ g[i] = h[a] /\ g[j] = h[b]
    <3>1. CASE j =< m
      <4>1. i =< m /\ g[i] = h[i] /\ g[j] = h[j]
        BY <1>1, <1>9, <3>1
      <4> HIDE DEF g
      <4> QED BY <1>6, <1>9, <3>1, <4>1
    <3>2. CASE i =< m /\ j > m
      <4>1. g[i] = h[i] /\ g[j] = h[j + n] /\ i < j + n
        BY <1>1, <1>9, <3>2
      <4> HIDE DEF g
      <4> QED BY <1>5, <1>6, <3>2, <4>1
    <3>3. CASE i > m
      <4>1. g[i] = h[i + n] /\ g[j] = h[j + n] /\ i + n < j + n /\ j > m
        BY <1>1, <1>9, <3>3
      <4> HIDE DEF g
      <4> QED BY <1>5, <3>3, <4>1
    <3> QED BY <1>1, <3>1, <3>2, <3>3
  <2> HIDE DEF g
  <2> QED BY <1>7, <2>1
<1>10. g \in [1 .. Len(v) -> 1 .. Len(u)]
  <2> DEFINE G(i) == IF i =< m THEN h[i] ELSE h[i + n]
  <2>1. \A i \in 1 .. Len(v) : G(i) \in 1 .. Len(u)
    BY <1>8
  <2> QED BY <2>1
<1> HIDE DEF g
<1>11. LeftOf(v, u, g)
  BY <1>8, <1>9, <1>10 DEF LeftOf
<1> QED BY <1>11 DEF v, e, l

\* A character that is received moves from one text to the other.
LEMMA ReceivedSame ==
  ASSUME NEW S, NEW t \in Seq(S), NEW d \in Seq(S), d # <<>>
  PROVE  Append(t, Head(d)) \o Tail(d) = t \o d
<1> DEFINE x == Append(t, Head(d))
           y == Tail(d)
           v == x \o y
           w == t \o d
           m == Len(t)
           l == Len(d)
<1>1. m \in Nat /\ l \in Nat /\ l >= 1
  OBVIOUS
<1>2. /\ x \in Seq(S) /\ Len(x) = m + 1 /\ x[m + 1] = d[1]
      /\ \A i \in 1 .. m : x[i] = t[i]
  OBVIOUS
<1>3. y \in Seq(S) /\ Len(y) = l - 1 /\ \A i \in 1 .. l - 1 : y[i] = d[i + 1]
  OBVIOUS
<1> HIDE DEF x, y, m, l
<1>4. v \in Seq(S) /\ Joined(v, x, m + 1, y, l - 1)
  <2>1. m + 1 \in Nat /\ l - 1 \in Nat
    BY <1>1
  <2> QED BY <1>2, <1>3, <2>1, Join
<1>5. w \in Seq(S) /\ Joined(w, t, m, d, l)
  BY <1>1, Join DEF m, l
<1> HIDE DEF v, w
<1>6. Len(v) = m + l /\ Len(w) = m + l
  BY <1>1, <1>4, <1>5 DEF Joined
<1>7. ASSUME NEW i \in 1 .. m + l PROVE v[i] = w[i]
  <2>1. CASE i =< m
    <3>1. i \in 1 .. m + 1 /\ i \in 1 .. m
      BY <1>1, <2>1
    <3> QED BY <1>2, <1>4, <1>5, <3>1 DEF Joined
  <2>2. CASE i = m + 1
    <3>1. i \in 1 .. m + 1 /\ 1 \in 1 .. l
      BY <1>1, <2>2
    <3>2. v[i] = x[i]
      BY <1>4, <3>1 DEF Joined
    <3>3. w[m + 1] = d[1]
      BY <1>5, <3>1 DEF Joined
    <3> QED BY <1>2, <2>2, <3>2, <3>3
  <2>3. CASE i > m + 1
    <3>1. PICK j \in 1 .. l - 1 : i = m + 1 + j
      <4>1. i - (m + 1) \in 1 .. l - 1 /\ i = m + 1 + (i - (m + 1))
        BY <1>1, <2>3
      <4> QED BY <4>1
    <3>2. v[i] = y[j] /\ y[j] = d[j + 1]
      BY <1>3, <1>4, <3>1 DEF Joined
    <3>3. j + 1 \in 1 .. l /\ i = m + (j + 1)
      BY <1>1, <3>1
    <3>4. w[i] = d[j + 1]
      BY <1>5, <3>3 DEF Joined
    <3> QED BY <3>2, <3>4
  <2> QED BY <1>1, <2>1, <2>2, <2>3
<1>8. v = w
  BY <1>4, <1>5, <1>6, <1>7, SeqEqual
<1> QED BY <1>8 DEF v, w, x, y

\* What may be ahead of a response without a space, and how long it is.
LEMMA AheadAt ==
  ASSUME NEW x \in {<<>>, Echo}
  PROVE  /\ x \in Seq(Chars) /\ Len(x) \in Nat
         /\ \A i \in 1 .. Len(x) : x[i] \notin {"O", Comma, Space}
<1>1. Echo \in Seq(Chars) /\ <<>> \in Seq(Chars)
  BY ModemTexts
<1>2. CASE x = <<>>
  BY <1>2
<1>3. CASE x = Echo
  <2>1. Len(Echo) = 3 /\ Echo[1] = "AT" /\ Echo[2] = "+CGNSINF" /\ Echo[3] = Cr
    BY DEF Echo
  <2>2. \A i \in 1 .. 3 : i = 1 \/ i = 2 \/ i = 3
    OBVIOUS
  <2>3. \A i \in 1 .. 3 : Echo[i] \in {"AT", "+CGNSINF", Cr}
    BY <2>1, <2>2
  <2>4. \A c \in {"AT", "+CGNSINF", Cr} : c \notin {"O", Comma, Space}
    BY Zenon DEF Cr, Space, Comma
  <2>5. \A i \in 1 .. 3 : Echo[i] \notin {"O", Comma, Space}
    BY <2>3, <2>4, Zenon
  <2> QED BY <1>1, <1>3, <2>1, <2>5
<1> QED BY <1>2, <1>3

\* Where the characters that matter stand in all that is sent.
LEMMA SentChars ==
  ASSUME NEW x \in {<<>>, Echo}
  PROVE  LET u == x \o Response \o Urc
             a == Len(x)
         IN /\ u \in Seq(Chars) /\ Len(u) = a + 62
            /\ \A i \in 1 .. a + 62 : u[i] = "O" => i = a + 50
            /\ \A i \in 1 .. a + 49 : u[i] = Space => i = a + 4
            /\ \A i \in 1 .. a + 49 :
                 u[i] = Comma => \E m \in 1 .. 20 : i = a + 4 + 2 * m
            /\ \A k \in 1 .. 20 : u[a + 4 + (2 * k - 1)] = Layout[k]
<1> DEFINE a == Len(x)
           v == x \o Response
           u == v \o Urc
<1>1. /\ x \in Seq(Chars) /\ a \in Nat
      /\ \A i \in 1 .. a : x[i] \notin {"O", Comma, Space}
  BY AheadAt
<1>2. Response \in Seq(Chars) /\ Len(Response) = 53
  BY ModemTexts, ResponseAt
<1>3. v \in Seq(Chars) /\ Joined(v, x, a, Response, 53)
  <2>1. 53 \in Nat /\ a \in Nat /\ x \in Seq(Chars)
    BY <1>1
  <2> QED BY <1>2, <2>1, Join, Zenon
<1> HIDE DEF v, a
<1>4. u \in Seq(Chars) /\ Joined(u, v, a + 53, Urc, 9)
  <2>1. 9 \in Nat /\ a + 53 \in Nat
    BY <1>1
  <2>2. Len(v) = a + 53
    BY <1>3 DEF Joined
  <2> QED BY <1>3, <2>1, <2>2, UrcAt, Join, Zenon
<1> HIDE DEF u
<1>5. ASSUME NEW i \in 1 .. a PROVE u[i] \notin {"O", Comma, Space}
  <2>1. i \in 1 .. a + 53
    BY <1>1
  <2>2. u[i] = v[i]
    BY <1>4, <2>1 DEF Joined
  <2>3. v[i] = x[i]
    BY <1>3 DEF Joined
  <2>4. x[i] \notin {"O", Comma, Space}
    BY <1>1
  <2> QED BY <2>2, <2>3, <2>4
<1>6. ASSUME NEW j \in 1 .. 53 PROVE u[a + j] = Response[j]
  <2>1. a + j \in 1 .. a + 53
    BY <1>1
  <2>2. u[a + j] = v[a + j]
    BY <1>4, <2>1, Zenon DEF Joined
  <2>3. v[a + j] = Response[j]
    BY <1>3, Zenon DEF Joined
  <2> QED BY <2>2, <2>3
<1>7. ASSUME NEW j \in 1 .. 9 PROVE u[(a + 53) + j] # "O"
  <2>1. u[(a + 53) + j] = Urc[j]
    BY <1>4, Zenon DEF Joined
  <2> QED BY <2>1, UrcAt
<1>8. ASSUME NEW i \in 1 .. a + 62
      PROVE  \/ i \in 1 .. a
             \/ \E j \in 1 .. 53 : i = a + j
             \/ \E j \in 1 .. 9 : i = (a + 53) + j
  <2>1. CASE i =< a
    BY <1>1, <2>1
  <2>2. CASE i > a /\ i =< a + 53
    <3>1. i - a \in 1 .. 53 /\ i = a + (i - a)
      BY <1>1, <2>2
    <3> QED BY <3>1
  <2>3. CASE i > a + 53
    <3>1. i - (a + 53) \in 1 .. 9 /\ i = (a + 53) + (i - (a + 53))
      BY <1>1, <2>3
    <3> QED BY <3>1
  <2> QED BY <1>1, <2>1, <2>2, <2>3
<1>9. ASSUME NEW i \in 1 .. a + 62, u[i] = "O" PROVE i = a + 50
  <2>1. CASE i \in 1 .. a
    BY <1>5, <1>9, <2>1
  <2>2. ASSUME NEW j \in 1 .. 53, i = a + j PROVE i = a + 50
    <3>1. Response[j] = "O"
      BY <1>6, <1>9, <2>2
    <3> QED BY <2>2, <3>1, ResponseChars
  <2>3. ASSUME NEW j \in 1 .. 9, i = (a + 53) + j PROVE FALSE
    BY <1>7, <1>9, <2>3
  <2> QED BY <1>8, <2>1, <2>2, <2>3
<1>10. ASSUME NEW i \in 1 .. a + 49, u[i] \in {Space, Comma}
       PROVE  \E j \in 1 .. 53 : i = a + j /\ Response[j] = u[i]
  <2>1. i \in 1 .. a + 62 /\ ~ \E j \in 1 .. 9 : i = (a + 53) + j
    BY <1>1
  <2>2. i \notin 1 .. a
    BY <1>5, <1>10
  <2>3. PICK j \in 1 .. 53 : i = a + j
    BY <1>8, <2>1, <2>2
  <2> QED BY <1>6, <2>3
<1>11. ASSUME NEW i \in 1 .. a + 49, u[i] = Space PROVE i = a + 4
  <2>1. PICK j \in 1 .. 53 : i = a + j /\ Response[j] = Space
    BY <1>10, <1>11
  <2> QED BY <2>1, ResponseChars
<1>12. ASSUME NEW i \in 1 .. a + 49, u[i] = Comma
       PROVE  \E m \in 1 .. 20 : i = a + 4 + 2 * m
  <2>1. PICK j \in 1 .. 53 : i = a + j /\ Response[j] = Comma
    BY <1>10, <1>12
  <2>2. PICK m \in 1 .. 20 : j = 4 + 2 * m
    BY <2>1, ResponseChars
  <2>3. i = a + 4 + 2 * m
    BY <1>1, <2>1, <2>2
  <2> QED BY <2>3
<1>13. ASSUME NEW k \in 1 .. 20 PROVE u[a + 4 + (2 * k - 1)] = Layout[k]
  <2>1. PICK j \in 1 .. 53 : j = 4 + (2 * k - 1)
    OBVIOUS
  <2>2. u[a + j] = Response[j] /\ Response[j] = Layout[k]
    BY <1>6, <2>1, ResponseChars
  <2>3. a + 4 + (2 * k - 1) = a + j
    BY <1>1, <2>1
  <2> QED BY <2>2, <2>3
<1>14. u \in Seq(Chars) /\ Len(u) = a + 62
  <2>1. Len(u) = (a + 53) + 9
    BY <1>4 DEF Joined
  <2> QED BY <1>1, <1>4, <2>1
<1> QED BY <1>9, <1>11, <1>12, <1>13, <1>14 DEF a, u, v

\* What is left of the answer of a modem, up to the final status OK, has its
\* characters in order: nothing behind the status is there yet.
LEMMA PlacesInOrder ==
  ASSUME NEW x \in {<<>>, Echo}, NEW s \in Seq(Chars), NEW h,
         LeftOf(s, x \o Response \o Urc, h), sim8xxGetStatus(s) = "OK"
  PROVE  \E g : InOrder(s, g)
<1> DEFINE n == Len(s)
           a == Len(x)
           u == x \o Response \o Urc
           g == [i \in 1 .. n |-> h[i] - (a + 4)]
<1>0. n \in Nat /\ a \in Nat
  BY AheadAt
<1>1. /\ Len(u) = a + 62
      /\ \A i \in 1 .. a + 62 : u[i] = "O" => i = a + 50
      /\ \A i \in 1 .. a + 49 : u[i] = Space => i = a + 4
      /\ \A i \in 1 .. a + 49 :
           u[i] = Comma => \E m \in 1 .. 20 : i = a + 4 + 2 * m
      /\ \A k \in 1 .. 20 : u[a + 4 + (2 * k - 1)] = Layout[k]
  BY SentChars
<1>2. n >= 4 /\ s[n - 3] = "O" /\ s[n - 2] = "K" /\ s[n - 1] = Cr /\ s[n] = Lf
  BY OkText
<1> HIDE DEF n, u, a
<1>3. /\ h \in [1 .. n -> 1 .. a + 62]
      /\ \A i, j \in 1 .. n : i < j => h[i] < h[j]
      /\ \A i \in 1 .. n : s[i] = u[h[i]]
  BY <1>1 DEF LeftOf, n, u
<1>4. n - 3 \in 1 .. n /\ h[n - 3] = a + 50
  <2>1. n - 3 \in 1 .. n
    BY <1>0, <1>2
  <2>2. PICK j \in 1 .. a + 62 : h[n - 3] = j
    BY <1>3, <2>1
  <2>3. u[j] = "O"
    BY <1>2, <1>3, <2>1, <2>2
  <2> QED BY <1>1, <2>1, <2>2, <2>3
<1>5. ASSUME NEW i \in 1 .. n, s[i] \in {Space, Comma}
      PROVE  i < n - 3 /\ h[i] \in 1 .. a + 49
  <2>1. "O" \notin {Space, Comma} /\ "K" \notin {Space, Comma} /\ Cr \notin {Space, Comma}
        /\ Lf \notin {Space, Comma}
    BY Zenon DEF Space, Cr, Lf, Comma
  <2>2. i # n - 3 /\ i # n - 2 /\ i # n - 1 /\ i # n
    BY <1>2, <1>5, <2>1, Zenon
  <2>3. i < n - 3
    BY <1>0, <1>2, <2>2
  <2>4. h[i] < a + 50 /\ h[i] \in 1 .. a + 62
    BY <1>3, <1>4, <2>3
  <2>5. \A j \in 1 .. a + 62 : j < a + 50 => j \in 1 .. a + 49
    BY <1>0
  <2> QED BY <2>3, <2>4, <2>5
<1>6. ASSUME NEW i \in 1 .. n, s[i] = Space PROVE g[i] = 0 /\ i < n
  <2>1. i < n - 3 /\ h[i] \in 1 .. a + 49 /\ u[h[i]] = Space
    BY <1>3, <1>5, <1>6
  <2>2. h[i] = a + 4
    BY <1>1, <2>1, Zenon
  <2>3. g[i] = (a + 4) - (a + 4)
    BY <2>2
  <2> QED BY <1>0, <2>1, <2>3
<1>7. ASSUME NEW i \in 1 .. n, s[i] = Comma
      PROVE  i < n /\ \E j \in 1 .. 20 : g[i] = 2 * j
  <2>1. i < n - 3 /\ h[i] \in 1 .. a + 49 /\ u[h[i]] = Comma
    BY <1>3, <1>5, <1>7
  <2>2. PICK m \in 1 .. 20 : h[i] = a + 4 + 2 * m
    BY <1>1, <2>1, Zenon
  <2>3. g[i] = (a + 4 + 2 * m) - (a + 4)
    BY <2>2
  <2>4. g[i] = 2 * m
    BY <1>0, <2>3
  <2> HIDE DEF g
  <2>5. i < n
    BY <1>0, <2>1
  <2> QED BY <2>4, <2>5, Zenon
<1>8. ASSUME NEW i \in 1 .. n, NEW k \in 1 .. 20, g[i] = 2 * k - 1
      PROVE  s[i] = Layout[k]
  <2>1. PICK j \in 1 .. a + 62 : h[i] = j
    BY <1>3
  <2>2. j - (a + 4) = 2 * k - 1
    BY <1>8, <2>1
  <2>3. j = a + 4 + (2 * k - 1)
    BY <1>0, <2>2
  <2> HIDE DEF g
  <2>4. s[i] = u[a + 4 + (2 * k - 1)]
    BY <1>3, <2>1, <2>3, Zenon
  <2> QED BY <1>1, <2>4, Zenon
<1>9. \A i \in 1 .. n : g[i] \in Int
  <2> SUFFICES ASSUME NEW i \in 1 .. n PROVE g[i] \in Int
    OBVIOUS
  <2>1. PICK j \in 1 .. a + 62 : h[i] = j
    BY <1>3
  <2>2. j - (a + 4) \in Int
    BY <1>0
  <2> QED BY <2>1, <2>2
<1>10. ASSUME NEW i \in 1 .. n, NEW j \in 1 .. n, i < j PROVE g[i] < g[j]
  <2>1. PICK k \in 1 .. a + 62, l \in 1 .. a + 62 : h[i] = k /\ h[j] = l
    BY <1>3
  <2>2. k < l
    BY <1>3, <1>10, <2>1
  <2>3. g[i] = k - (a + 4) /\ g[j] = l - (a + 4)
    BY <2>1
  <2> HIDE DEF g
  <2> QED BY <1>0, <2>2, <2>3
<1>11. g \in [1 .. n -> Int]
  <2>1. g = [i \in 1 .. n |-> g[i]]
    OBVIOUS
  <2> HIDE DEF g
  <2> QED BY <1>9, <2>1
<1> HIDE DEF g
<1>12. InOrder(s, g)
  <2>1. \A i, j \in 1 .. n : i < j => g[i] < g[j]
    BY <1>10
  <2>2. \A i \in 1 .. n : s[i] = Space => g[i] = 0 /\ i < n
    BY <1>6
  <2>3. \A i \in 1 .. n : s[i] = Comma => i < n /\ \E j \in 1 .. 20 : g[i] = 2 * j
    BY <1>7
  <2>4. \A i \in 1 .. n, k \in 1 .. 20 : g[i] = 2 * k - 1 => s[i] = Layout[k]
    BY <1>8
  <2> QED BY <1>11, <2>1, <2>2, <2>3, <2>4, Zenon DEF InOrder, n
<1> QED BY <1>12

\* A text without a space is rejected.
LEMMA NoSpaceRejected ==
  ASSUME NEW S, NEW s \in Seq(S), \A i \in 1 .. Len(s) : s[i] # Space
  PROVE  ~atCgnsinfParse(s).ok
<1>1. PICK P \in [0 .. 21 -> ParseState(S)] :
        /\ P[0] = ParseBegin(s)
        /\ \A k \in 1 .. 21 : P[k] = atGetNext(s, P[k - 1], Layout[k])
        /\ atCgnsinfParse(s) = P[21]
  BY ParseSteps
<1>2. ~P[0].ok
  <2> DEFINE r == strchr(s, 1, Space)
  <2>1. r = 0
    <3>1. 1 \in Nat \ {0}
      OBVIOUS
    <3>2. \/ r = 0 /\ \A j \in 1 .. Len(s) : s[j] # Space
          \/ /\ r \in 1 .. Len(s) /\ s[r] = Space
             /\ \A j \in 1 .. r - 1 : s[j] # Space
      BY <3>1, StrchrFacts
    <3> HIDE DEF r
    <3> QED BY <3>2
  <2>2. P[0].ok = (r # 0)
    BY <1>1 DEF ParseBegin
  <2>3. (r # 0) = FALSE
    BY <2>1
  <2> QED BY <2>2, <2>3, Zenon
<1> DEFINE A == {k \in Nat : k =< 21 => ~P[k].ok}
<1>3. 0 \in A
  BY <1>2
<1>4. ASSUME NEW k \in Nat, k \in A PROVE k + 1 \in A
  <2> SUFFICES ASSUME k + 1 =< 21 PROVE ~P[k + 1].ok
    OBVIOUS
  <2>1. k + 1 \in 1 .. 21 /\ (k + 1) - 1 = k /\ k =< 21
    OBVIOUS
  <2>2. P[k + 1] = atGetNext(s, P[k], Layout[k + 1]) /\ ~P[k].ok
    BY <1>1, <1>4, <2>1
  <2>3. P[k + 1] = P[k]
    BY <2>2 DEF atGetNext
  <2> QED BY <2>2, <2>3
<1>5. Nat \subseteq A
  <2> HIDE DEF A
  <2> QED BY <1>3, <1>4, SetInduction
<1>6. ~P[21].ok
  BY <1>5
<1> QED BY <1>1, <1>6

\* The inductive invariant: what has come and what is still to come is what
\* is left of the text ahead, the response and a line behind it, unless
\* somebody types.
LeftInv ==
  /\ ahead \in {<<>>, Echo, Urc} \cup Remains
  /\ \/ \E h : LeftOf(text \o todo, ahead \o Response \o Urc, h)
     \/ todo = <<>> /\ text \in Seq(StatusChars \cup NumberChars)

\* What may be ahead of a response is a text.
LEMMA AheadText ==
  ASSUME NEW x \in {<<>>, Echo, Urc} \cup Remains
  PROVE  x \in Seq(Chars)
<1>1. <<>> \in Seq(Chars)
  OBVIOUS
<1>2. x = <<>> \/ x = Echo \/ x = Urc \/ x \in Remains
  OBVIOUS
<1> QED BY <1>1, <1>2, ModemTexts, Zenon

\* Receiving moves a character, losing drops a run; what is typed has no
\* place in a response, and no space.
LEMMA LeftInductive == Spec => [](TextInv /\ LeftInv)
<1>1. Init => LeftInv
  <2> SUFFICES ASSUME Init PROVE LeftInv
    OBVIOUS
  <2>1. ahead \in {<<>>, Echo, Urc} \cup Remains /\ text = ahead
    BY DEF Init
  <2>2. \/ todo = Response \/ todo = Response \o Urc
        \/ todo = <<>> /\ ahead = <<>>
    BY DEF Init
  <2>3. ahead \in Seq(Chars) /\ Response \in Seq(Chars) /\ Urc \in Seq(Chars)
    BY <2>1, ModemTexts, AheadText, Zenon
  <2>4. CASE todo = Response
    <3>1. ahead \o Response \in Seq(Chars)
      BY <2>3
    <3>2. \E h : LeftOf(ahead \o Response, (ahead \o Response) \o Urc, h)
      BY <2>3, <3>1, LeftOfPrefix
    <3> QED BY <2>1, <2>4, <3>2 DEF LeftInv
  <2>5. CASE todo = Response \o Urc
    <3>1. ahead \o (Response \o Urc) = (ahead \o Response) \o Urc
      BY <2>3, ConcatAssociative
    <3> DEFINE u == (ahead \o Response) \o Urc
    <3>2. u \in Seq(Chars) /\ <<>> \in Seq(Chars)
      BY <2>3
    <3>3. u \o <<>> = u
      BY <3>2, ConcatEmptySeq
    <3>4. \E h : LeftOf(u, u \o <<>>, h)
      <4> HIDE DEF u
      <4> QED BY <3>2, LeftOfPrefix
    <3>5. \E h : LeftOf(u, u, h)
      BY <3>3, <3>4
    <3> QED BY <2>1, <2>5, <3>1, <3>5 DEF LeftInv
  <2>6. CASE todo = <<>> /\ ahead = <<>>
    BY <2>1, <2>6 DEF LeftInv
  <2> QED BY <2>2, <2>4, <2>5, <2>6
<1>2. TextInv /\ LeftInv /\ [Next]_vars => LeftInv'
  <2> SUFFICES ASSUME TextInv, LeftInv, [Next]_vars PROVE LeftInv'
    OBVIOUS
  <2>0. /\ text \in Seq(Chars) /\ todo \in Seq(Chars)
        /\ ahead \o Response \o Urc \in Seq(Chars)
    <3>1. ahead \in Seq(Chars)
      BY AheadText DEF LeftInv
    <3> QED BY <3>1, ModemTexts DEF TextInv
  <2>1. CASE Receive
    <3>1. /\ todo # <<>> /\ text' = Append(text, Head(todo)) /\ todo' = Tail(todo)
          /\ ahead' = ahead
      BY <2>1 DEF Receive
    <3>2. PICK h : LeftOf(text \o todo, ahead \o Response \o Urc, h)
      BY <3>1 DEF LeftInv
    <3>3. text' \o todo' = text \o todo
      BY <2>0, <3>1, ReceivedSame
    <3> QED BY <3>1, <3>2, <3>3 DEF LeftInv
  <2>2. ASSUME NEW n \in 1 .. Len(Response) + Len(Urc), Lose(n) PROVE LeftInv'
    <3>1. /\ n \in 1 .. Len(todo) /\ todo' = SubSeq(todo, n + 1, Len(todo))
          /\ text' = text /\ ahead' = ahead
      BY <2>2 DEF Lose
    <3>2. PICK h : LeftOf(text \o todo, ahead \o Response \o Urc, h)
      BY <3>1 DEF LeftInv
    <3> DEFINE u == ahead \o Response \o Urc
    <3>3. \E g : LeftOf(text \o SubSeq(todo, n + 1, Len(todo)), u, g)
      <4>1. u \in Seq(Chars) /\ LeftOf(text \o todo, u, h)
        BY <2>0, <3>2
      <4> HIDE DEF u
      <4> QED BY <2>0, <3>1, <4>1, LeftOfLess
    <3> QED BY <3>1, <3>3 DEF LeftInv
  <2>3. ASSUME NEW c \in StatusChars \cup NumberChars, Typed(c) PROVE LeftInv'
    <3> DEFINE T == StatusChars \cup NumberChars
    <3>1. /\ todo = <<>> /\ todo' = todo /\ ahead' = ahead /\ text' = Append(text, c)
          /\ \A i \in 1 .. Len(text) : text[i] \in T
      BY <2>3 DEF Typed
    <3>2. text \in Seq(T)
      <4>1. text \in Seq(Chars) /\ \A i \in 1 .. Len(text) : text[i] \in T
        BY <2>0, <3>1
      <4> HIDE DEF T
      <4> QED BY <4>1
    <3>3. Append(text, c) \in Seq(T)
      BY <3>2
    <3> QED BY <3>1, <3>3 DEF LeftInv
  <2>4. CASE UNCHANGED vars
    BY <2>4 DEF vars, LeftInv
  <2> QED BY <2>1, <2>2, <2>3, <2>4 DEF Next
<1> QED BY <1>1, <1>2, TextInductive, PTL DEF Spec

\* What is ahead of a response and has no space in it.
LEMMA AheadWithoutSpace ==
  ASSUME ahead \in {<<>>, Echo, Urc} \cup Remains, Space \notin ToSet(ahead)
  PROVE  ahead \in {<<>>, Echo}
<1>1. ahead # Urc
  <2>1. Urc[4] = Space /\ 4 \in 1 .. Len(Urc)
    BY UrcAt
  <2> QED BY <2>1 DEF ToSet
<1>2. ahead \notin Remains
  <2> SUFFICES ASSUME ahead \in Remains PROVE FALSE
    OBVIOUS
  <2>1. PICK n \in 5 .. Len(Response) - 4 : ahead = SubSeq(Response, 1, n)
    BY DEF Remains
  <2>2. n \in 5 .. 49 /\ Response[4] = Space /\ Response \in Seq(Chars) /\ Len(Response) = 53
    BY ResponseAt, ModemTexts
  <2>3. ahead[4] = Space /\ 4 \in 1 .. Len(ahead)
    BY <2>1, <2>2
  <2> QED BY <2>3 DEF ToSet
<1> QED BY <1>1, <1>2

\* However many runs of characters are lost, a response that is accepted has
\* every value in its own field, or none there: the status OK comes last, so
\* every comma is the response's, and twenty of them have all their places.
THEOREM InPlaceSafe == Spec => []AcceptedInPlace
<1>1. TextInv /\ LeftInv => AcceptedInPlace
  <2> SUFFICES ASSUME TextInv, LeftInv, Readable, Parsed.ok, Space \notin ToSet(ahead)
               PROVE  \A f \in Fields \ {"vpa"} : Parsed.data[f] \in {<<>>, <<f>>}
    BY DEF AcceptedInPlace
  <2>0. ahead \in {<<>>, Echo}
    BY AheadWithoutSpace DEF LeftInv
  <2>1. text \in Seq(Chars) /\ todo \in Seq(Chars) /\ sim8xxGetStatus(text) = "OK"
        /\ atCgnsinfParse(text).ok
    BY DEF TextInv, Readable, Parsed
  <2>2. CASE todo = <<>> /\ text \in Seq(StatusChars \cup NumberChars)
    <3>1. Space \notin StatusChars \cup NumberChars
      BY Zenon DEF Space, StatusChars, NumberChars, Cr, Lf
    <3>2. \A i \in 1 .. Len(text) : text[i] # Space
      <4> DEFINE T == StatusChars \cup NumberChars
      <4>1. text \in Seq(T)
        BY <2>2
      <4> HIDE DEF T
      <4>2. \A i \in 1 .. Len(text) : text[i] \in T
        BY <4>1
      <4> QED BY <3>1, <4>2 DEF T
    <3> QED BY <2>1, <3>2, NoSpaceRejected
  <2>3. ASSUME NEW h, LeftOf(text \o todo, ahead \o Response \o Urc, h)
        PROVE  \A f \in Fields \ {"vpa"} : Parsed.data[f] \in {<<>>, <<f>>}
    <3> DEFINE u == ahead \o Response \o Urc
               w == text \o todo
               g == [i \in 1 .. Len(text) |-> h[i]]
    <3>1. /\ Len(text) \in Nat /\ Len(todo) \in Nat /\ Len(w) = Len(text) + Len(todo)
          /\ \A i \in 1 .. Len(text) : w[i] = text[i]
      BY <2>1
    <3>2. /\ h \in [1 .. Len(w) -> 1 .. Len(u)]
          /\ \A i, j \in 1 .. Len(w) : i < j => h[i] < h[j]
          /\ \A i \in 1 .. Len(w) : w[i] = u[h[i]]
      BY <2>3 DEF LeftOf
    <3> HIDE DEF w, u
    <3>3. \A i \in 1 .. Len(text) : i \in 1 .. Len(w)
      BY <3>1
    <3>4. LeftOf(text, u, g)
      BY <3>1, <3>2, <3>3 DEF LeftOf
    <3> HIDE DEF g
    <3>5. PICK p : InOrder(text, p)
      BY <2>0, <2>1, <3>4, PlacesInOrder DEF u
    <3> QED BY <2>1, <3>5, FieldsInPlace DEF Parsed
  <2> QED BY <2>2, <2>3 DEF LeftInv
<1> QED BY <1>1, LeftInductive, PTL

-----------------------------------------------------------------------------
(* A whole response.                                                       *)

\* Where strchr stops.
LEMMA StrchrIs ==
  ASSUME NEW S, NEW s \in Seq(S), NEW i \in Nat \ {0}, NEW c,
         NEW r \in i .. Len(s), s[r] = c, \A j \in i .. r - 1 : s[j] # c
  PROVE  strchr(s, i, c) = r
<1> DEFINE q == strchr(s, i, c)
<1>1. \/ q = 0 /\ \A j \in i .. Len(s) : s[j] # c
      \/ /\ q \in i .. Len(s) /\ s[q] = c
         /\ \A j \in i .. q - 1 : s[j] # c
  BY StrchrFacts
<1> HIDE DEF q
<1>2. q \in i .. Len(s) /\ s[q] = c /\ \A j \in i .. q - 1 : s[j] # c
  BY <1>1
<1>3. ~(q < r)
  <2> SUFFICES ASSUME q < r PROVE FALSE
    OBVIOUS
  <2>1. q \in i .. r - 1
    BY <1>2
  <2> QED BY <1>2, <2>1
<1>4. ~(r < q)
  <2> SUFFICES ASSUME r < q PROVE FALSE
    OBVIOUS
  <2>1. r \in i .. q - 1
    BY <1>2
  <2> QED BY <1>2, <2>1
<1>5. q = r
  BY <1>2, <1>3, <1>4
<1> QED BY <1>5 DEF q

\* The step from p to r takes the one character c for the value of field f.
TakesOne(p, r, f, c) ==
  /\ r.ok
  /\ r.start = p.start + 2
  /\ \A x \in Fields : r.data[x] = IF x = f THEN <<c>> ELSE p.data[x]

\* A field of one character, with its delimiter.
LEMMA GetNextOne ==
  ASSUME NEW S, NEW s \in Seq(S), NEW p \in ParseState(S), NEW f,
         NEW i \in Nat \ {0}, p.ok, p.start = i, i + 1 =< Len(s),
         s[i] # Delim(f), s[i + 1] = Delim(f)
  PROVE  TakesOne(p, atGetNext(s, p, f), f, s[i])
<1> DEFINE end == strchr(s, i, Delim(f))
           v == SubSeq(s, i, end - 1)
           d == [x \in Fields |-> IF x = f THEN v ELSE p.data[x]]
           r == atGetNext(s, p, f)
<1>1. end = i + 1
  <2>1. i + 1 \in i .. Len(s)
    OBVIOUS
  <2>2. \A j \in i .. (i + 1) - 1 : s[j] # Delim(f)
    <3>1. \A j \in i .. (i + 1) - 1 : j = i
      OBVIOUS
    <3> QED BY <3>1
  <2> QED BY <2>1, <2>2, StrchrIs
<1>2. end # 0 /\ end - 1 = i /\ end + 1 = i + 2
  <2> HIDE DEF end
  <2> QED BY <1>1
<1>3. r = [ok |-> TRUE, start |-> end + 1, data |-> d]
  <2>1. ~(~p.ok \/ p.start > Len(s))
    OBVIOUS
  <2>2. end = strchr(s, p.start, Delim(f)) /\ d = [x \in Fields |->
           IF x = f THEN SubSeq(s, p.start, end - 1) ELSE p.data[x]]
    OBVIOUS
  <2> QED BY <1>2, <2>1, <2>2 DEF atGetNext
<1>4. v = <<s[i]>>
  <2>1. v = SubSeq(s, i, i)
    BY <1>2
  <2>2. \A j \in i .. i : s[j] \in S
    OBVIOUS
  <2>3. i \in Nat
    OBVIOUS
  <2> DEFINE w == SubSeq(s, i, i)
  <2>4. /\ w \in Seq(S) /\ Len(w) = IF i =< i THEN i - i + 1 ELSE 0
        /\ \A j \in 1 .. i - i + 1 : w[j] = s[i + j - 1]
    BY <2>2, <2>3, SubSeqProperties
  <2> HIDE DEF v, w
  <2>5. Len(w) = 1 /\ w[1] = s[i]
    BY <2>4
  <2>6. w = <<s[i]>>
    BY <2>4, <2>5
  <2> QED BY <2>1, <2>6 DEF w
<1> HIDE DEF end, v
<1>5. r.ok /\ r.start = i + 2 /\ r.data = d
  <2> HIDE DEF d, r
  <2> QED BY <1>2, <1>3
<1>6. \A x \in Fields : d[x] = IF x = f THEN <<s[i]>> ELSE p.data[x]
  BY <1>4
<1> HIDE DEF r, d
<1>7. TakesOne(p, r, f, s[i])
  BY <1>5, <1>6 DEF TakesOne
<1> QED BY <1>7 DEF r

\* A whole response, with or without an echo.
LEMMA WholeChars ==
  ASSUME NEW x \in {<<>>, Echo}
  PROVE  LET u == x \o Response
             a == Len(x)
         IN /\ u \in Seq(Chars) /\ Len(u) = a + 53 /\ a \in Nat
            /\ \A i \in 1 .. a : u[i] \notin {"O", Comma, Space}
            /\ \A j \in 1 .. 53 : u[a + j] = Response[j]
<1> DEFINE a == Len(x)
           u == x \o Response
<1>1. /\ x \in Seq(Chars) /\ a \in Nat
      /\ \A i \in 1 .. a : x[i] \notin {"O", Comma, Space}
  BY AheadAt
<1>2. Response \in Seq(Chars) /\ Len(Response) = 53
  BY ModemTexts, ResponseAt
<1>3. u \in Seq(Chars) /\ Joined(u, x, a, Response, 53)
  <2>1. 53 \in Nat /\ a \in Nat /\ x \in Seq(Chars)
    BY <1>1
  <2> QED BY <1>2, <2>1, Join, Zenon
<1> HIDE DEF u, a
<1>4. \A i \in 1 .. a : u[i] = x[i]
  BY <1>3, Zenon DEF Joined
<1>5. \A j \in 1 .. 53 : u[a + j] = Response[j]
  BY <1>3, Zenon DEF Joined
<1>6. Len(u) = a + 53
  BY <1>3, Zenon DEF Joined
<1> QED BY <1>1, <1>3, <1>4, <1>5, <1>6, Zenon DEF u, a

\* A whole response is accepted, and every field has its value.
LEMMA WholeParsed ==
  ASSUME NEW x \in {<<>>, Echo}
  PROVE  /\ atCgnsinfParse(x \o Response).ok
         /\ \A f \in Fields : atCgnsinfParse(x \o Response).data[f] = <<f>>
<1> DEFINE u == x \o Response
           a == Len(x)
<1>1. /\ u \in Seq(Chars) /\ Len(u) = a + 53 /\ a \in Nat
      /\ \A i \in 1 .. a : u[i] \notin {"O", Comma, Space}
      /\ \A j \in 1 .. 53 : u[a + j] = Response[j]
  BY WholeChars
<1> HIDE DEF u, a
<1>2. PICK P \in [0 .. 21 -> ParseState(Chars)] :
        /\ P[0] = ParseBegin(u)
        /\ \A k \in 1 .. 21 : P[k] = atGetNext(u, P[k - 1], Layout[k])
        /\ atCgnsinfParse(u) = P[21]
  BY <1>1, ParseSteps
<1>3. strchr(u, 1, Space) = a + 4
  <2>1. u[a + 4] = Space
    <3>1. 4 \in 1 .. 53
      OBVIOUS
    <3> QED BY <1>1, <3>1, ResponseAt
  <2>2. ASSUME NEW j \in 1 .. (a + 4) - 1 PROVE u[j] # Space
    <3>1. CASE j =< a
      <4>1. j \in 1 .. a
        BY <1>1, <3>1
      <4> QED BY <1>1, <4>1
    <3>2. CASE j > a
      <4>1. PICK i \in 1 .. 3 : j = a + i
        <5>1. j - a \in 1 .. 3 /\ j = a + (j - a)
          BY <1>1, <3>2
        <5> QED BY <5>1
      <4>2. i \in 1 .. 53 /\ i # 4
        OBVIOUS
      <4>3. u[j] = Response[i]
        BY <1>1, <4>1, <4>2
      <4> QED BY <4>2, <4>3, ResponseChars
    <3> QED BY <1>1, <3>1, <3>2
  <2>3. 1 \in Nat \ {0} /\ a + 4 \in 1 .. Len(u)
    BY <1>1
  <2>4. u \in Seq(Chars) /\ \A j \in 1 .. (a + 4) - 1 : u[j] # Space
    BY <1>1, <2>2
  <2>5. PICK r \in Nat : r = a + 4
    BY <1>1
  <2>6. r \in 1 .. Len(u) /\ u[r] = Space /\ \A j \in 1 .. r - 1 : u[j] # Space
    BY <2>1, <2>3, <2>4, <2>5
  <2>7. strchr(u, 1, Space) = r
    BY <2>3, <2>4, <2>6, StrchrIs
  <2> QED BY <2>5, <2>7
<1>4. P[0].ok /\ P[0].start = a + 5
  <2>1. P[0].ok = (strchr(u, 1, Space) # 0) /\ P[0].start = strchr(u, 1, Space) + 1
    BY <1>2 DEF ParseBegin
  <2>2. (strchr(u, 1, Space) # 0) = TRUE
    BY <1>1, <1>3
  <2>3. P[0].ok
    BY <2>1, <2>2, Zenon
  <2>4. (a + 4) + 1 = a + 5
    BY <1>1
  <2> QED BY <1>3, <2>1, <2>3, <2>4
\* The value and the delimiter of field k.
<1>5. ASSUME NEW k \in 1 .. 21
      PROVE  /\ u[a + 5 + 2 * (k - 1)] = Layout[k]
             /\ u[a + 5 + 2 * (k - 1) + 1] = Delim(Layout[k])
             /\ Layout[k] # Delim(Layout[k])
  <2> DEFINE j == 2 * k - 1
  <2>1. j \in 1 .. 41 /\ j % 2 = 1 /\ (j + 1) \div 2 = k /\ 4 + j \in 1 .. 53
    OBVIOUS
  <2>2. a + 5 + 2 * (k - 1) = a + (4 + j)
    BY <1>1
  <2> HIDE DEF j
  <2>3. Response[4 + j] = Layout[k]
    BY <2>1, ResponseAt
  <2>4. u[a + (4 + j)] = Layout[k]
    BY <1>1, <2>1, <2>3
  <2>5. CASE k = 21
    <3>1. a + 5 + 2 * (k - 1) + 1 = a + 46 /\ 46 \in 1 .. 53
      BY <1>1, <2>5
    <3>2. u[a + 46] = Cr
      BY <1>1, <3>1, ResponseAt
    <3>3. Delim(Layout[k]) = Cr
      BY <2>5, LayoutFacts DEF Delim
    <3>4. Layout[k] # Cr
      BY LayoutWords
    <3> QED BY <2>2, <2>4, <3>1, <3>2, <3>3, <3>4
  <2>6. CASE k \in 1 .. 20
    <3> DEFINE i == 2 * k
    <3>1. i \in 1 .. 41 /\ i % 2 # 1 /\ 4 + i \in 1 .. 53
      BY <2>6
    <3>2. a + 5 + 2 * (k - 1) + 1 = a + (4 + i)
      BY <1>1
    <3> HIDE DEF i
    <3>3. Response[4 + i] = Comma
      BY <3>1, ResponseAt
    <3>4. u[a + (4 + i)] = Comma
      BY <1>1, <3>1, <3>3
    <3>5. Delim(Layout[k]) = Comma
      BY <2>6, LayoutFacts
    <3>6. Layout[k] # Comma
      BY LayoutWords
    <3> QED BY <2>2, <2>4, <3>2, <3>4, <3>5, <3>6
  <2>7. k = 21 \/ k \in 1 .. 20
    OBVIOUS
  <2> QED BY <2>5, <2>6, <2>7
<1> DEFINE Taken(k) == /\ P[k].ok /\ P[k].start = a + 5 + 2 * k
                       /\ \A j \in 1 .. k :
                            Layout[j] \in Fields => P[k].data[Layout[j]] = <<Layout[j]>>
           A == {k \in Nat : k =< 21 => Taken(k)}
<1>6. 0 \in A
  <2>1. a + 5 + 2 * 0 = a + 5
    BY <1>1
  <2> QED BY <1>4, <2>1
<1>7. ASSUME NEW i \in Nat, i \in A PROVE i + 1 \in A
  <2> SUFFICES ASSUME i + 1 =< 21 PROVE Taken(i + 1)
    OBVIOUS
  <2>1. i \in 0 .. 21 /\ i + 1 \in 1 .. 21 /\ (i + 1) - 1 = i /\ i + 1 \in Nat /\ i =< 21
    OBVIOUS
  <2>2. Taken(i)
    BY <1>7, <2>1
  <2> DEFINE b == a + 5 + 2 * i
  <2>3. b \in Nat \ {0} /\ b + 1 =< Len(u) /\ b + 2 = a + 5 + 2 * (i + 1)
    BY <1>1, <2>1
  <2>4. u[b] = Layout[i + 1] /\ u[b + 1] = Delim(Layout[i + 1])
        /\ u[b] # Delim(Layout[i + 1])
    BY <1>5, <2>1
  <2>5. P[i] \in ParseState(Chars) /\ P[i].ok /\ P[i].start = b
    BY <2>1, <2>2
  <2>6. P[i + 1] = atGetNext(u, P[i], Layout[i + 1])
    BY <1>2, <2>1
  <2> HIDE DEF b
  <2>7. TakesOne(P[i], P[i + 1], Layout[i + 1], u[b])
    <3>1. PICK p \in ParseState(Chars) : p = P[i]
      BY <2>5
    <3>2. TakesOne(p, atGetNext(u, p, Layout[i + 1]), Layout[i + 1], u[b])
      BY <1>1, <2>3, <2>4, <2>5, <3>1, GetNextOne
    <3> QED BY <2>6, <3>1, <3>2
  <2>8. P[i + 1].ok /\ P[i + 1].start = a + 5 + 2 * (i + 1)
    <3>1. P[i + 1].ok /\ P[i + 1].start = b + 2
      BY <2>5, <2>7 DEF TakesOne
    <3> QED BY <2>3, <3>1
  <2>9. ASSUME NEW j \in 1 .. i + 1, Layout[j] \in Fields
        PROVE  P[i + 1].data[Layout[j]] = <<Layout[j]>>
    <3>1. P[i + 1].data[Layout[j]] =
            IF Layout[j] = Layout[i + 1] THEN <<Layout[i + 1]>> ELSE P[i].data[Layout[j]]
      BY <2>4, <2>7, <2>9 DEF TakesOne
    <3>2. CASE j = i + 1
      BY <3>1, <3>2
    <3>3. CASE j # i + 1
      <4>1. j \in 1 .. i
        BY <3>3
      <4>2. P[i].data[Layout[j]] = <<Layout[j]>>
        BY <2>2, <2>9, <4>1
      <4> QED BY <3>1, <4>2
    <3> QED BY <3>2, <3>3
  <2> QED BY <2>8, <2>9
<1>8. Nat \subseteq A
  <2> HIDE DEF A
  <2> QED BY <1>6, <1>7, SetInduction
<1>9. Taken(21)
  <2>1. 21 \in Nat /\ 21 =< 21
    OBVIOUS
  <2> HIDE DEF Taken
  <2> QED BY <1>8, <2>1
<1>10. ASSUME NEW f \in Fields PROVE P[21].data[f] = <<f>>
  <2>1. PICK j \in 1 .. 21 : f = Layout[j]
    <3>1. Len(Layout) = 21
      BY DEF Layout
    <3> QED BY <3>1 DEF Fields
  <2> QED BY <1>9, <2>1
<1> QED BY <1>2, <1>9, <1>10 DEF u

\* The status of a whole response is OK.
LEMMA WholeStatus ==
  ASSUME NEW x \in {<<>>, Echo}
  PROVE  sim8xxGetStatus(x \o Response) = "OK"
<1> DEFINE u == x \o Response
           a == Len(x)
           B == Breaks(u) \ {Len(u) - 1}
<1>1. /\ u \in Seq(Chars) /\ Len(u) = a + 53 /\ a \in Nat
      /\ \A j \in 1 .. 53 : u[a + j] = Response[j]
  BY WholeChars
<1> HIDE DEF u, a
<1>0. a \in Nat /\ u \in Seq(Chars) /\ Len(u) = a + 53
  BY <1>1
<1>2. /\ u[a + 48] = Cr /\ u[a + 49] = Lf /\ u[a + 50] = "O" /\ u[a + 51] = "K"
      /\ u[a + 52] = Cr /\ u[a + 53] = Lf
  <2>1. 48 \in 1 .. 53 /\ 49 \in 1 .. 53 /\ 50 \in 1 .. 53 /\ 51 \in 1 .. 53
        /\ 52 \in 1 .. 53 /\ 53 \in 1 .. 53
    OBVIOUS
  <2> QED BY <1>1, <2>1, ResponseAt, Zenon
<1>3. Len(u) - 1 = a + 52 /\ Len(u) - 2 = a + 51 /\ (a + 52) + 1 = a + 53
      /\ (a + 48) + 1 = a + 49
  BY <1>0
<1>4. a + 48 \in Breaks(u) /\ a + 52 \in Breaks(u)
  <2>1. a + 48 \in 1 .. Len(u) - 1 /\ a + 52 \in 1 .. Len(u) - 1
    BY <1>0
  <2> QED BY <1>2, <1>3, <2>1 DEF Breaks
<1>5. EndsInCrLf(u)
  BY <1>0, <1>3, <1>4 DEF EndsInCrLf
<1>6. Max(B) = a + 48
  <2>1. a + 48 \in B
    BY <1>0, <1>3, <1>4
  <2>2. \A i \in B : i \in 1 .. a + 51
    BY <1>0 DEF Breaks
  <2>3. B \in SUBSET (1 .. a + 51) /\ a + 51 \in Nat
    <3> HIDE DEF B
    <3>1. a + 51 \in Nat
      BY <1>0
    <3> QED BY <2>2, <3>1
  <2>4. a + 49 \notin B /\ a + 50 \notin B /\ a + 51 \notin B
    BY <1>2 DEF Breaks, Cr, Lf
  <2> HIDE DEF B
  <2>5. Max(B) \in B /\ Max(B) >= a + 48
    BY <2>1, <2>3, MaxExists
  <2>6. PICK m \in 1 .. a + 51 : m = Max(B)
    BY <2>2, <2>5
  <2>7. m >= a + 48 /\ m # a + 49 /\ m # a + 50 /\ m # a + 51
    BY <2>4, <2>5, <2>6
  <2>8. m = a + 48
    BY <1>0, <2>7
  <2> QED BY <2>6, <2>8
<1>7. LastLine(u) = SubSeq(u, a + 50, a + 51)
  <2>1. B # {}
    BY <1>0, <1>3, <1>4
  <2>2. LastLine(u) = SubSeq(u, Max(B) + 2, Len(u) - 2)
    BY <2>1 DEF LastLine
  <2>3. (a + 48) + 2 = a + 50
    BY <1>0
  <2> HIDE DEF B
  <2> QED BY <1>3, <1>6, <2>2, <2>3
<1>8. SubSeq(u, a + 50, a + 51) = <<"O", "K">>
  <2> DEFINE m == a + 50
             k == a + 51
             w == SubSeq(u, m, k)
  <2>1. m \in Nat /\ k \in Nat /\ k - m + 1 = 2 /\ m =< k
    BY <1>0
  <2>2. \A j \in m .. k : u[j] \in Chars
    <3>1. \A j \in m .. k : j \in 1 .. Len(u)
      BY <1>0
    <3>2. \A j \in 1 .. Len(u) : u[j] \in Chars
      BY <1>0
    <3> QED BY <3>1, <3>2, Zenon
  <2> HIDE DEF m, k
  <2>3. /\ w \in Seq(Chars) /\ Len(w) = IF m =< k THEN k - m + 1 ELSE 0
        /\ \A j \in 1 .. k - m + 1 : w[j] = u[m + j - 1]
    BY <1>0, <2>1, <2>2, SubSeqProperties
  <2> HIDE DEF w
  <2>4. Len(w) = 2 /\ w[1] = u[m + 1 - 1] /\ w[2] = u[m + 2 - 1]
    BY <2>1, <2>3
  <2>5. m + 1 - 1 = a + 50 /\ m + 2 - 1 = a + 51
    BY <1>0 DEF m
  <2>6. w[1] = "O" /\ w[2] = "K"
    BY <1>2, <2>4, <2>5
  <2>7. w = <<"O", "K">>
    BY <2>3, <2>4, <2>6
  <2> QED BY <2>7 DEF w, m, k
<1>9. Breaks(u) \ {2, Len(u) - 1} # {}
  <2>1. a + 48 # 2 /\ a + 48 # a + 52
    BY <1>0
  <2>2. a + 48 \in Breaks(u) \ {2, Len(u) - 1}
    BY <1>3, <1>4, <2>1, Zenon
  <2> QED BY <2>2
<1>10. sim8xxGetStatus(u) = StatusOf(LastLine(u))
  BY <1>0, <1>5, <1>9, StatusOfText
<1> QED BY <1>7, <1>8, <1>10 DEF StatusOf, u

\* The status is there with the last character of the response, not before.
LEMMA StatusWithLast ==
  ASSUME NEW x \in {<<>>, Echo}, NEW s \in Seq(Chars), IsPrefix(s, x \o Response),
         sim8xxGetStatus(s) = "OK"
  PROVE  s = x \o Response
<1> DEFINE u == x \o Response
           a == Len(x)
           n == Len(s)
<1>1. /\ u \in Seq(Chars) /\ Len(u) = a + 53 /\ a \in Nat
      /\ \A i \in 1 .. a : u[i] \notin {"O", Comma, Space}
      /\ \A j \in 1 .. 53 : u[a + j] = Response[j]
  BY WholeChars
<1>2. n \in Nat /\ n >= 4 /\ s[n - 3] = "O"
  BY OkText
<1> HIDE DEF u
<1>3. n =< Len(u) /\ s = SubSeq(u, 1, n)
  <2>1. n =< Len(u) /\ SubSeq(s, 1, n) = SubSeq(u, 1, n)
    BY DEF IsPrefix, u
  <2>2. SubSeq(s, 1, Len(s)) = s
    BY SubSeqFull
  <2> QED BY <2>1, <2>2
<1> HIDE DEF a, n
<1>4. \A i \in 1 .. n : s[i] = u[i]
  <2>1. n \in 0 .. Len(u)
    BY <1>1, <1>2, <1>3
  <2> DEFINE w == SubSeq(u, 1, n)
  <2>2. \A i \in 1 .. n : w[i] = u[i]
    BY <1>1, <2>1
  <2> HIDE DEF w
  <2> QED BY <1>3, <2>2 DEF w
<1>5. n = a + 53
  <2>1. n - 3 \in 1 .. n /\ n - 3 \in 1 .. a + 50
    BY <1>1, <1>2, <1>3
  <2>2. u[n - 3] = "O"
    BY <1>2, <1>4, <2>1
  <2>3. ~(n - 3 =< a)
    <3> SUFFICES ASSUME n - 3 =< a PROVE FALSE
      OBVIOUS
    <3>1. n - 3 \in 1 .. a
      BY <1>1, <2>1
    <3> QED BY <1>1, <2>2, <3>1
  <2>4. PICK j \in 1 .. 53 : n - 3 = a + j
    <3>1. (n - 3) - a \in 1 .. 53 /\ n - 3 = a + ((n - 3) - a)
      BY <1>1, <1>2, <2>1, <2>3
    <3> QED BY <3>1
  <2>5. Response[j] = "O"
    BY <1>1, <2>2, <2>4
  <2>6. j = 50
    BY <2>5, ResponseChars
  <2> QED BY <1>1, <1>2, <2>4, <2>6
<1>6. s = u
  BY <1>1, <1>4, <1>5, SeqEqual DEF n
<1> QED BY <1>6 DEF u

\* A response that arrives whole, with or without an echo, has a status with
\* its last character and not before, and is read right.
THEOREM WholeReadSafe == Spec => []WholeResponseRead
<1>1. TextInv => WholeResponseRead
  <2> SUFFICES ASSUME text \in Seq(Chars), ahead \in {<<>>, Echo},
                      IsPrefix(text, ahead \o Response)
               PROVE  /\ Readable <=> text = ahead \o Response
                      /\ Readable => Parsed.ok /\ \A f \in Fields : Parsed.data[f] = <<f>>
    BY DEF TextInv, WholeResponseRead
  <2>1. Readable => text = ahead \o Response
    BY StatusWithLast DEF Readable
  <2>2. text = ahead \o Response => Readable
    BY WholeStatus DEF Readable
  <2>3. Readable => Parsed.ok /\ \A f \in Fields : Parsed.data[f] = <<f>>
    BY <2>1, WholeParsed DEF Parsed
  <2> QED BY <2>1, <2>2, <2>3
<1> QED BY <1>1, TextInductive, PTL

-----------------------------------------------------------------------------
(* Numbers.                                                                *)

\* Digits from left to right, each behind ten times the digits before it.
Horner(s) == FoldLeft(LAMBDA v, c : 10 * v + Digit(c), 0, s)

\* The values on the way.
IsHorner(H, s) ==
  /\ H \in [0 .. Len(s) -> Int] /\ H[0] = 0
  /\ \A k \in 1 .. Len(s) : H[k] = 10 * H[k - 1] + Digit(s[k])

\* Reading digits takes one step for each.
LEMMA HornerSteps ==
  ASSUME NEW S, NEW s \in Seq(S), \A i \in 1 .. Len(s) : Digit(s[i]) \in Int
  PROVE  \E H : IsHorner(H, s) /\ Horner(s) = H[Len(s)]
<1> DEFINE n == Len(s)
           d == [k \in 1 .. n |-> Digit(s[k])]
           F == [k \in 1 .. n |-> [v \in Int |-> 10 * v + d[k]]]
           Steps(it) ==
             it = [D \in SUBSET (1 .. n) |->
                     IF D = {} THEN 0
                     ELSE 10 * it[D \ {Max(D)}] + Digit(s[Max(D)])]
           iter == CHOOSE it : Steps(it)
           H == [k \in 0 .. n |-> iter[1 .. k]]
<1>1. n \in Nat /\ d \in [1 .. n -> Int]
  OBVIOUS
<1>2. F \in [1 .. n -> [Int -> Int]]
  <2> HIDE DEF d, n
  <2>1. \A k \in 1 .. n : [v \in Int |-> 10 * v + d[k]] \in [Int -> Int]
    BY <1>1
  <2> QED BY <2>1
<1>3. PICK W : IsFold(W, Int, 0, n, F)
  <2>1. 0 \in Int
    OBVIOUS
  <2> HIDE DEF F, n
  <2> QED BY <1>1, <1>2, <2>1, FoldExists
<1>4. Steps(W)
  <2>1. ASSUME NEW D \in SUBSET (1 .. n), D # {}
        PROVE  W[D] = 10 * W[D \ {Max(D)}] + Digit(s[Max(D)])
    <3>1. Max(D) \in 1 .. n
      BY <1>1, <2>1, MaxExists
    <3>2. W[D \ {Max(D)}] \in Int
      BY <1>3 DEF IsFold
    <3>3. W[D] = F[Max(D)][W[D \ {Max(D)}]]
      BY <1>3, <2>1 DEF IsFold
    <3>4. F[Max(D)] = [v \in Int |-> 10 * v + d[Max(D)]]
      BY <3>1
    <3>5. d[Max(D)] = Digit(s[Max(D)])
      BY <3>1
    <3> HIDE DEF F, d, n
    <3> QED BY <3>2, <3>3, <3>4, <3>5
  <2>2. ASSUME NEW D \in SUBSET (1 .. n)
        PROVE  W[D] = IF D = {} THEN 0
                      ELSE 10 * W[D \ {Max(D)}] + Digit(s[Max(D)])
    <3>1. D = {} => W[D] = 0
      BY <1>3 DEF IsFold
    <3> HIDE DEF n, F
    <3> QED BY <2>1, <3>1, Zenon
  <2>3. W \in [SUBSET (1 .. n) -> Int]
    BY <1>3 DEF IsFold
  <2> HIDE DEF F, n
  <2> QED BY <2>2, <2>3
<1>5. Steps(iter)
  <2> HIDE DEF Steps
  <2> QED BY <1>4
<1>6. Horner(s) = iter[1 .. n]
  <2>1. DOMAIN s = 1 .. n
    OBVIOUS
  <2>2. Horner(s) =
          (CHOOSE it : it = [D \in SUBSET (DOMAIN s) |->
              IF D = {} THEN 0
              ELSE 10 * it[D \ {Max(D)}] + Digit(s[Max(D)])])[DOMAIN s]
    BY Zenon DEF Horner, FoldLeft, MapThenFoldSet
  <2> QED BY <2>1, <2>2
<1> HIDE DEF iter, d, F
<1>7. H[0] = 0
  <2>1. 1 .. 0 = {} /\ {} \in SUBSET (1 .. n) /\ 0 \in 0 .. n
    BY <1>1
  <2>2. iter[{}] = 0
    BY <1>5, <2>1
  <2> QED BY <2>1, <2>2
<1>8. ASSUME NEW k \in 1 .. n PROVE H[k] = 10 * H[k - 1] + Digit(s[k])
  <2> HIDE DEF n
  <2>1. /\ 1 .. k \in SUBSET (1 .. n) /\ 1 .. k # {} /\ Max(1 .. k) = k
        /\ (1 .. k) \ {k} = 1 .. (k - 1)
    BY <1>1, Upto
  <2>2. iter[1 .. k] = 10 * iter[(1 .. k) \ {Max(1 .. k)}] + Digit(s[Max(1 .. k)])
    BY <1>5, <2>1, Zenon
  <2>3. k \in 0 .. n /\ k - 1 \in 0 .. n
    BY <1>1
  <2>4. H[k] = iter[1 .. k] /\ H[k - 1] = iter[1 .. (k - 1)]
    BY <2>3
  <2> HIDE DEF H
  <2>5. iter[1 .. k] = 10 * iter[1 .. (k - 1)] + Digit(s[k])
    BY <2>1, <2>2, Zenon
  <2> QED BY <2>4, <2>5, Zenon
<1>9. H[n] = Horner(s)
  BY <1>1, <1>6
<1>10. \A k \in 0 .. n : H[k] \in Int
  <2> HIDE DEF H
  <2> DEFINE A == {k \in Nat : k =< n => H[k] \in Int}
  <2>1. 0 \in A
    BY <1>7
  <2>2. ASSUME NEW k \in Nat, k \in A PROVE k + 1 \in A
    <3> SUFFICES ASSUME k + 1 =< n PROVE H[k + 1] \in Int
      OBVIOUS
    <3>1. k + 1 \in 1 .. n /\ (k + 1) - 1 = k /\ k =< n
      BY <1>1
    <3>2. H[k] \in Int
      BY <2>2, <3>1
    <3>3. H[k + 1] = 10 * H[k] + Digit(s[k + 1])
      BY <1>8, <3>1
    <3>4. Digit(s[k + 1]) \in Int
      BY <3>1
    <3> QED BY <3>2, <3>3, <3>4
  <2>3. Nat \subseteq A
    <3> HIDE DEF A
    <3> QED BY <2>1, <2>2, SetInduction
  <2> QED BY <2>3
<1>11. H \in [0 .. n -> Int]
  <2>1. H = [k \in 0 .. n |-> H[k]]
    OBVIOUS
  <2> HIDE DEF H
  <2> QED BY <1>10, <2>1
<1> HIDE DEF H
<1>12. IsHorner(H, s)
  BY <1>7, <1>8, <1>11 DEF IsHorner
<1> QED BY <1>9, <1>12

\* A sum from left to right, and the values on the way.
SumOf(t) == FoldLeft(+, 0, t)
IsSum(H, t, n) ==
  /\ H \in [0 .. n -> Int] /\ H[0] = 0
  /\ \A k \in 1 .. n : H[k] = H[k - 1] + t[k]

\* A sum takes one step for each number.
LEMMA SumSteps ==
  ASSUME NEW n \in Nat, NEW t \in [1 .. n -> Int]
  PROVE  \E H : IsSum(H, t, n) /\ SumOf(t) = H[n]
<1> DEFINE F == [k \in 1 .. n |-> [v \in Int |-> v + t[k]]]
           Steps(it) ==
             it = [D \in SUBSET (1 .. n) |->
                     IF D = {} THEN 0 ELSE it[D \ {Max(D)}] + t[Max(D)]]
           iter == CHOOSE it : Steps(it)
           H == [k \in 0 .. n |-> iter[1 .. k]]
<1>2. F \in [1 .. n -> [Int -> Int]]
  <2>1. \A k \in 1 .. n : [v \in Int |-> v + t[k]] \in [Int -> Int]
    OBVIOUS
  <2> QED BY <2>1
<1>3. PICK W : IsFold(W, Int, 0, n, F)
  <2>1. 0 \in Int
    OBVIOUS
  <2> HIDE DEF F
  <2> QED BY <1>2, <2>1, FoldExists
<1>4. Steps(W)
  <2>1. ASSUME NEW D \in SUBSET (1 .. n), D # {}
        PROVE  W[D] = W[D \ {Max(D)}] + t[Max(D)]
    <3>1. Max(D) \in 1 .. n
      BY <2>1, MaxExists
    <3>2. W[D \ {Max(D)}] \in Int
      BY <1>3 DEF IsFold
    <3>3. W[D] = F[Max(D)][W[D \ {Max(D)}]]
      BY <1>3, <2>1 DEF IsFold
    <3>4. F[Max(D)] = [v \in Int |-> v + t[Max(D)]]
      BY <3>1
    <3> HIDE DEF F
    <3> QED BY <3>2, <3>3, <3>4
  <2>2. ASSUME NEW D \in SUBSET (1 .. n)
        PROVE  W[D] = IF D = {} THEN 0 ELSE W[D \ {Max(D)}] + t[Max(D)]
    <3>1. D = {} => W[D] = 0
      BY <1>3 DEF IsFold
    <3> HIDE DEF F
    <3> QED BY <2>1, <3>1, Zenon
  <2>3. W \in [SUBSET (1 .. n) -> Int]
    BY <1>3 DEF IsFold
  <2> HIDE DEF F
  <2> QED BY <2>2, <2>3
<1>5. Steps(iter)
  <2> HIDE DEF Steps
  <2> QED BY <1>4
<1>6. SumOf(t) = iter[1 .. n]
  <2>1. DOMAIN t = 1 .. n
    OBVIOUS
  <2>2. SumOf(t) =
          (CHOOSE it : it = [D \in SUBSET (DOMAIN t) |->
              IF D = {} THEN 0 ELSE it[D \ {Max(D)}] + t[Max(D)]])[DOMAIN t]
    BY Zenon DEF SumOf, FoldLeft, MapThenFoldSet
  <2> QED BY <2>1, <2>2
<1> HIDE DEF iter, F
<1>7. H[0] = 0
  <2>1. 1 .. 0 = {} /\ {} \in SUBSET (1 .. n) /\ 0 \in 0 .. n
    OBVIOUS
  <2>2. iter[{}] = 0
    BY <1>5, <2>1
  <2> QED BY <2>1, <2>2
<1>8. ASSUME NEW k \in 1 .. n PROVE H[k] = H[k - 1] + t[k]
  <2>1. /\ 1 .. k \in SUBSET (1 .. n) /\ 1 .. k # {} /\ Max(1 .. k) = k
        /\ (1 .. k) \ {k} = 1 .. (k - 1)
    BY Upto
  <2>2. iter[1 .. k] = iter[(1 .. k) \ {Max(1 .. k)}] + t[Max(1 .. k)]
    BY <1>5, <2>1, Zenon
  <2>3. k \in 0 .. n /\ k - 1 \in 0 .. n
    OBVIOUS
  <2>4. H[k] = iter[1 .. k] /\ H[k - 1] = iter[1 .. (k - 1)]
    BY <2>3
  <2> HIDE DEF H
  <2>5. iter[1 .. k] = iter[1 .. (k - 1)] + t[k]
    BY <2>1, <2>2, Zenon
  <2> QED BY <2>4, <2>5, Zenon
<1>9. H[n] = SumOf(t)
  BY <1>6
<1>10. \A k \in 0 .. n : H[k] \in Int
  <2> HIDE DEF H
  <2> DEFINE A == {k \in Nat : k =< n => H[k] \in Int}
  <2>1. 0 \in A
    BY <1>7
  <2>2. ASSUME NEW k \in Nat, k \in A PROVE k + 1 \in A
    <3> SUFFICES ASSUME k + 1 =< n PROVE H[k + 1] \in Int
      OBVIOUS
    <3>1. k + 1 \in 1 .. n /\ (k + 1) - 1 = k /\ k =< n
      OBVIOUS
    <3>2. H[k] \in Int
      BY <2>2, <3>1
    <3>3. H[k + 1] = H[k] + t[k + 1]
      BY <1>8, <3>1
    <3> QED BY <3>1, <3>2, <3>3
  <2>3. Nat \subseteq A
    <3> HIDE DEF A
    <3> QED BY <2>1, <2>2, SetInduction
  <2> QED BY <2>3
<1>11. H \in [0 .. n -> Int]
  <2>1. H = [k \in 0 .. n |-> H[k]]
    OBVIOUS
  <2> HIDE DEF H
  <2> QED BY <1>10, <2>1
<1> HIDE DEF H
<1>12. IsSum(H, t, n)
  BY <1>7, <1>8, <1>11 DEF IsSum
<1> QED BY <1>9, <1>12

\* The powers of ten.
IsPower(p, n) == p = [k \in 0 .. n |-> IF k = 0 THEN 1 ELSE 10 * p[k - 1]]

\* The definition of the powers of ten defines them.
LEMMA PowerExists ==
  ASSUME NEW n \in Nat
  PROVE  \E p \in [0 .. n -> Int] : IsPower(p, n)
<1> DEFINE F == [k \in 1 .. n |-> [v \in Int |-> 10 * v]]
<1>1. F \in [1 .. n -> [Int -> Int]]
  OBVIOUS
<1>2. PICK W : IsFold(W, Int, 1, n, F)
  <2>1. 1 \in Int
    OBVIOUS
  <2> HIDE DEF F
  <2> QED BY <1>1, <2>1, FoldExists
<1> DEFINE p == [k \in 0 .. n |-> W[1 .. k]]
<1>3. \A k \in 0 .. n : 1 .. k \in SUBSET (1 .. n)
  OBVIOUS
<1>4. p \in [0 .. n -> Int]
  BY <1>2, <1>3 DEF IsFold
<1>5. p[0] = 1
  <2>1. 1 .. 0 = {} /\ 0 \in 0 .. n /\ {} \in SUBSET (1 .. n)
    OBVIOUS
  <2>2. W[{}] = 1
    BY <1>2, <2>1 DEF IsFold
  <2> QED BY <2>1, <2>2
<1>6. ASSUME NEW k \in 1 .. n PROVE p[k] = 10 * p[k - 1]
  <2>1. /\ 1 .. k \in SUBSET (1 .. n) /\ 1 .. k # {} /\ Max(1 .. k) = k
        /\ (1 .. k) \ {k} = 1 .. (k - 1)
    BY Upto
  <2>2. W[1 .. k] = F[Max(1 .. k)][W[(1 .. k) \ {Max(1 .. k)}]]
    <3> HIDE DEF F
    <3> QED BY <1>2, <2>1 DEF IsFold
  <2>3. W[1 .. k] = F[k][W[1 .. (k - 1)]]
    BY <2>1, <2>2, Zenon
  <2>4. k \in 0 .. n /\ k - 1 \in 0 .. n
    OBVIOUS
  <2>5. p[k] = W[1 .. k] /\ p[k - 1] = W[1 .. (k - 1)] /\ W[1 .. (k - 1)] \in Int
    BY <1>4, <2>4
  <2> QED BY <2>3, <2>5
<1> HIDE DEF p
<1>7. \A k \in 0 .. n : p[k] = IF k = 0 THEN 1 ELSE 10 * p[k - 1]
  <2>1. \A k \in 0 .. n : k = 0 \/ k \in 1 .. n
    OBVIOUS
  <2>2. \A k \in 1 .. n : k # 0
    OBVIOUS
  <2> QED BY <1>5, <1>6, <2>1, <2>2, Zenon
<1>8. IsPower(p, n)
  <2> DEFINE R(k) == IF k = 0 THEN 1 ELSE 10 * p[k - 1]
  <2>1. \A k \in 0 .. n : p[k] = R(k)
    BY <1>7
  <2>2. p = [k \in 0 .. n |-> R(k)]
    <3> HIDE DEF R
    <3> QED BY <1>4, <2>1
  <2> QED BY <2>2 DEF IsPower
<1> QED BY <1>4, <1>8

\* Ten times a number with one digit more, in powers of ten.
LEMMA OneDigitMore ==
  ASSUME NEW h \in Int, NEW p \in Int, NEW q \in Int, NEW d \in Int, q = 10 * p
  PROVE  h * q + d * p = (10 * h + d) * p
OBVIOUS

\* Both ways to read digits give the same number.
LEMMA HornerIsPlaceValue ==
  ASSUME NEW S, NEW s \in Seq(S), \A i \in 1 .. Len(s) : Digit(s[i]) \in Int
  PROVE  Horner(s) = PlaceValue(s)
<1> DEFINE n == Len(s)
           p == CHOOSE q : IsPower(q, n)
           t == [i \in 1 .. n |-> Digit(s[i]) * p[n - i]]
<1>1. n \in Nat
  OBVIOUS
<1>2. IsPower(p, n)
  BY <1>1, PowerExists
<1>3. PlaceValue(s) = SumOf(t)
  BY Zenon DEF PlaceValue, SumOf, IsPower
<1> HIDE DEF p
<1>4. p[0] = 1 /\ \A k \in 1 .. n : p[k] = 10 * p[k - 1]
  <2>1. 0 \in 0 .. n /\ \A k \in 1 .. n : k \in 0 .. n /\ k # 0
    BY <1>1
  <2>2. \A k \in 0 .. n : p[k] = IF k = 0 THEN 1 ELSE 10 * p[k - 1]
    BY <1>2, Zenon DEF IsPower
  <2> QED BY <2>1, <2>2, Zenon
<1>5. \A k \in 0 .. n : p[k] \in Int
  <2> DEFINE A == {k \in Nat : k =< n => p[k] \in Int}
  <2>1. 0 \in A
    BY <1>4
  <2>2. ASSUME NEW k \in Nat, k \in A PROVE k + 1 \in A
    <3> SUFFICES ASSUME k + 1 =< n PROVE p[k + 1] \in Int
      OBVIOUS
    <3>1. k + 1 \in 1 .. n /\ (k + 1) - 1 = k /\ k =< n
      BY <1>1
    <3>2. p[k] \in Int /\ p[k + 1] = 10 * p[k]
      BY <1>4, <2>2, <3>1
    <3> QED BY <3>2
  <2>3. Nat \subseteq A
    <3> HIDE DEF A
    <3> QED BY <2>1, <2>2, SetInduction
  <2> QED BY <2>3
<1>6. t \in [1 .. n -> Int]
  <2>1. ASSUME NEW i \in 1 .. n PROVE Digit(s[i]) * p[n - i] \in Int
    <3>1. n - i \in 0 .. n
      BY <1>1
    <3>2. p[n - i] \in Int /\ Digit(s[i]) \in Int
      BY <1>5, <3>1
    <3> QED BY <3>2
  <2> QED BY <2>1
<1>7. PICK Z : IsSum(Z, t, n) /\ SumOf(t) = Z[n]
  <2> HIDE DEF t, n
  <2> QED BY <1>1, <1>6, SumSteps
<1>8. PICK H : IsHorner(H, s) /\ Horner(s) = H[n]
  BY HornerSteps
<1>9. \A k \in 1 .. n : t[k] = Digit(s[k]) * p[n - k]
  OBVIOUS
<1> HIDE DEF t
<1> DEFINE A == {k \in Nat : k =< n => Z[k] = H[k] * p[n - k]}
<1>10. 0 \in A
  <2>1. Z[0] = 0 /\ H[0] = 0
    BY <1>7, <1>8 DEF IsSum, IsHorner
  <2>2. p[n - 0] \in Int
    BY <1>1, <1>5
  <2>3. 0 * p[n - 0] = 0
    BY <2>2
  <2> QED BY <2>1, <2>3
<1>11. ASSUME NEW k \in Nat, k \in A PROVE k + 1 \in A
  <2> SUFFICES ASSUME k + 1 =< n PROVE Z[k + 1] = H[k + 1] * p[n - (k + 1)]
    OBVIOUS
  <2>1. /\ k + 1 \in 1 .. n /\ (k + 1) - 1 = k /\ k =< n /\ k \in 0 .. n
        /\ n - k \in 1 .. n /\ (n - k) - 1 = n - (k + 1) /\ n - (k + 1) \in 0 .. n
    BY <1>1
  <2>2. Z[k] = H[k] * p[n - k]
    BY <1>11, <2>1
  <2>3. Z[k + 1] = Z[k] + t[k + 1]
    BY <1>7, <2>1 DEF IsSum
  <2>4. H[k + 1] = 10 * H[k] + Digit(s[k + 1]) /\ H[k] \in Int
    BY <1>8, <2>1 DEF IsHorner
  <2>5. p[n - k] = 10 * p[n - (k + 1)] /\ p[n - k] \in Int /\ p[n - (k + 1)] \in Int
    <3>1. n - k \in 0 .. n
      BY <1>1, <2>1
    <3>2. p[n - k] = 10 * p[(n - k) - 1]
      BY <1>4, <2>1
    <3> QED BY <1>5, <2>1, <3>1, <3>2
  <2>6. t[k + 1] = Digit(s[k + 1]) * p[n - (k + 1)] /\ Digit(s[k + 1]) \in Int
    BY <1>9, <2>1
  <2>7. H[k] * p[n - k] + Digit(s[k + 1]) * p[n - (k + 1)]
          = (10 * H[k] + Digit(s[k + 1])) * p[n - (k + 1)]
    BY <2>4, <2>5, <2>6, OneDigitMore
  <2> QED BY <2>2, <2>3, <2>4, <2>6, <2>7, Zenon
<1>12. Nat \subseteq A
  <2> HIDE DEF A
  <2> QED BY <1>10, <1>11, SetInduction
<1>13. Z[n] = H[n] * p[n - n]
  BY <1>1, <1>12
<1>14. p[n - n] = 1 /\ H[n] \in Int
  <2>1. n - n = 0 /\ n \in 0 .. n
    BY <1>1
  <2> QED BY <1>4, <1>8, <2>1 DEF IsHorner
<1>15. Z[n] = H[n]
  BY <1>13, <1>14
<1> QED BY <1>3, <1>7, <1>8, <1>15

\* A numeral without its first point.
Digits(s) ==
  IF strchr(s, 1, ".") = 0 THEN s ELSE RemoveAt(s, strchr(s, 1, "."))

\* What the characters of a numeral count.
LEMMA DigitFacts ==
  /\ \A c \in NumberChars : Digit(c) \in Int
  /\ \A c \in NumberChars : c # "-" /\ c # "." => Digit(c) \in 0 .. 9
  /\ Digit("-") = -3
<1>1. /\ Digit("-") = -3 /\ Digit(".") = -2 /\ Digit("0") = 0 /\ Digit("1") = 1
      /\ Digit("9") = 9
  BY DEF Digit
<1> QED BY <1>1 DEF NumberChars

\* Character by character, a numeral without its first point.
LEMMA DigitsAt ==
  ASSUME NEW S, NEW s \in Seq(S)
  PROVE  LET q == strchr(s, 1, ".")
         IN /\ Digits(s) \in Seq(S)
            /\ q \in Nat /\ q =< Len(s)
            /\ Len(Digits(s)) = IF q = 0 THEN Len(s) ELSE Len(s) - 1
            /\ \A i \in 1 .. Len(Digits(s)) :
                 Digits(s)[i] = IF q = 0 \/ i < q THEN s[i] ELSE s[i + 1]
<1> DEFINE n == Len(s)
           q == strchr(s, 1, ".")
           x == SubSeq(s, 1, q - 1)
           y == SubSeq(s, q + 1, n)
<1>1. n \in Nat /\ (q = 0 \/ q \in 1 .. n)
  <2>1. 1 \in Nat \ {0}
    OBVIOUS
  <2>2. q = 0 \/ q \in 1 .. n
    BY <2>1, StrchrFacts
  <2> QED BY <2>2
<1>2. \A i \in 1 .. n : s[i] \in S
  OBVIOUS
<1>3. CASE q = 0
  BY <1>1, <1>3 DEF Digits
<1>4. CASE q # 0
  <2>0. Digits(s) = x \o y
    BY <1>4 DEF Digits, RemoveAt
  <2> HIDE DEF q, n
  <2>1. q \in Nat /\ q >= 1 /\ q =< n
    BY <1>1, <1>4
  <2>2. x \in Seq(S) /\ Len(x) = q - 1 /\ \A i \in 1 .. q - 1 : x[i] = s[i]
    <3>1. /\ x \in Seq(S) /\ Len(x) = IF 1 =< q - 1 THEN q - 1 - 1 + 1 ELSE 0
          /\ \A i \in 1 .. q - 1 - 1 + 1 : x[i] = s[1 + i - 1]
      <4>1. \A i \in 1 .. q - 1 : s[i] \in S
        BY <1>1, <1>2, <2>1
      <4>2. 1 \in Nat /\ q - 1 \in Nat
        BY <2>1
      <4> QED BY <4>1, <4>2, SubSeqProperties
    <3> HIDE DEF x
    <3>2. Len(x) = q - 1
      BY <2>1, <3>1
    <3>3. \A i \in 1 .. q - 1 : i \in 1 .. q - 1 - 1 + 1 /\ 1 + i - 1 = i
      BY <2>1
    <3> QED BY <3>1, <3>2, <3>3
  <2>3. y \in Seq(S) /\ Len(y) = n - q /\ \A i \in 1 .. n - q : y[i] = s[q + i]
    <3>1. /\ y \in Seq(S) /\ Len(y) = IF q + 1 =< n THEN n - (q + 1) + 1 ELSE 0
          /\ \A i \in 1 .. n - (q + 1) + 1 : y[i] = s[q + 1 + i - 1]
      <4>1. \A i \in q + 1 .. n : s[i] \in S
        BY <1>1, <1>2, <2>1
      <4>2. q + 1 \in Nat /\ n \in Nat
        BY <1>1, <2>1
      <4> QED BY <4>1, <4>2, SubSeqProperties
    <3> HIDE DEF y
    <3>2. Len(y) = n - q
      BY <1>1, <2>1, <3>1
    <3>3. \A i \in 1 .. n - q : i \in 1 .. n - (q + 1) + 1 /\ q + 1 + i - 1 = q + i
      BY <1>1, <2>1
    <3> QED BY <3>1, <3>2, <3>3
  <2> DEFINE z == x \o y
  <2> HIDE DEF x, y
  <2>4. z \in Seq(S) /\ Joined(z, x, q - 1, y, n - q)
    <3>1. q - 1 \in Nat /\ n - q \in Nat
      BY <1>1, <2>1
    <3> QED BY <2>2, <2>3, <3>1, Join
  <2> HIDE DEF z
  <2>5. Len(z) = n - 1
    <3>1. Len(z) = (q - 1) + (n - q)
      BY <2>4 DEF Joined
    <3> QED BY <1>1, <2>1, <3>1
  <2>6. ASSUME NEW i \in 1 .. n - 1 PROVE z[i] = IF i < q THEN s[i] ELSE s[i + 1]
    <3>1. CASE i < q
      <4>1. i \in 1 .. q - 1
        BY <2>1, <3>1
      <4>2. z[i] = x[i]
        BY <2>4, <4>1 DEF Joined
      <4> QED BY <2>2, <3>1, <4>1, <4>2
    <3>2. CASE ~(i < q)
      <4>1. PICK j \in 1 .. n - q : i = (q - 1) + j
        <5>1. i - (q - 1) \in 1 .. n - q /\ i = (q - 1) + (i - (q - 1))
          BY <1>1, <2>1, <3>2
        <5> QED BY <5>1
      <4>2. z[i] = y[j]
        BY <2>4, <4>1 DEF Joined
      <4>3. y[j] = s[q + j] /\ q + j = i + 1
        BY <2>1, <2>3, <4>1
      <4> QED BY <3>2, <4>2, <4>3
    <3> QED BY <3>1, <3>2
  <2>7. Digits(s) = z
    BY <2>0 DEF z
  <2>8. /\ Digits(s) \in Seq(S) /\ q \in Nat /\ q =< n
        /\ Len(Digits(s)) = IF q = 0 THEN n ELSE n - 1
    BY <1>4, <2>1, <2>4, <2>5, <2>7
  <2>9. \A i \in 1 .. Len(Digits(s)) :
          Digits(s)[i] = IF q = 0 \/ i < q THEN s[i] ELSE s[i + 1]
    BY <1>4, <2>5, <2>6, <2>7
  <2> QED BY <2>8, <2>9 DEF q, n
<1> QED BY <1>3, <1>4

\* atAsciiToDouble reads the digits from left to right.
LEMMA ReadsDigits ==
  ASSUME NEW S, NEW s \in Seq(S)
  PROVE  LET q == strchr(s, 1, ".")
         IN atAsciiToDouble(s) = [num |-> Horner(Digits(s)),
                                  places |-> IF q = 0 THEN 0 ELSE Len(s) - q]
<1> DEFINE q == strchr(s, 1, ".")
           whole == IF q = 0 THEN s ELSE SubSeq(s, 1, q - 1)
           frac == IF q = 0 THEN <<>> ELSE SubSeq(s, q + 1, Len(s))
<1>1. atAsciiToDouble(s) = [num |-> Horner(whole \o frac), places |-> Len(frac)]
  BY Zenon DEF atAsciiToDouble, Horner
<1>2. whole \o frac = Digits(s)
  <2>1. CASE q = 0
    <3>1. s \o <<>> = s
      BY ConcatEmptySeq
    <3> QED BY <2>1, <3>1 DEF Digits
  <2>2. CASE q # 0
    BY <2>2 DEF Digits, RemoveAt
  <2> QED BY <2>1, <2>2
<1>3. Len(frac) = IF q = 0 THEN 0 ELSE Len(s) - q
  <2>1. CASE q = 0
    BY <2>1
  <2>2. CASE q # 0
    <3> DEFINE n == Len(s)
               y == SubSeq(s, q + 1, n)
    <3>1. q \in Nat /\ q =< n /\ n \in Nat
      <4>1. q \in Nat /\ q =< Len(s)
        BY DigitsAt, Zenon
      <4>2. n \in Nat
        OBVIOUS
      <4> QED BY <4>1, <4>2, Zenon
    <3>2. frac = y
      BY <2>2
    <3> HIDE DEF q
    <3>3. \A i \in q + 1 .. n : s[i] \in S
      BY <3>1
    <3>4. q + 1 \in Nat
      BY <3>1
    <3>5. Len(y) = IF q + 1 =< n THEN n - (q + 1) + 1 ELSE 0
      <4> HIDE DEF n
      <4> QED BY <3>1, <3>3, <3>4, SubSeqProperties
    <3> HIDE DEF y, n, frac
    <3>6. Len(y) = n - q
      BY <3>1, <3>5
    <3> QED BY <2>2, <3>2, <3>6 DEF n
  <2> QED BY <2>1, <2>2
<1> HIDE DEF whole, frac, q
<1>4. atAsciiToDouble(s) = [num |-> Horner(Digits(s)),
                            places |-> IF q = 0 THEN 0 ELSE Len(s) - q]
  BY <1>1, <1>2, <1>3, Zenon
<1> QED BY <1>4 DEF q

\* A text of digits is read as the sum of its digits times their powers of
\* ten.
LEMMA UnsignedRight ==
  ASSUME NEW s \in Seq(NumberChars)
  PROVE  atAsciiToDouble(s) = Magnitude(s)
<1>1. Digits(s) \in Seq(NumberChars)
  BY DigitsAt
<1>2. \A i \in 1 .. Len(Digits(s)) : Digit(Digits(s)[i]) \in Int
  <2>1. \A i \in 1 .. Len(Digits(s)) : Digits(s)[i] \in NumberChars
    BY <1>1
  <2> QED BY <2>1, DigitFacts
<1>3. Horner(Digits(s)) = PlaceValue(Digits(s))
  BY <1>1, <1>2, HornerIsPlaceValue
<1> DEFINE q == strchr(s, 1, ".")
<1>4. atAsciiToDouble(s) = [num |-> PlaceValue(Digits(s)),
                            places |-> IF q = 0 THEN 0 ELSE Len(s) - q]
  <2>1. atAsciiToDouble(s) = [num |-> Horner(Digits(s)),
                              places |-> IF q = 0 THEN 0 ELSE Len(s) - q]
    BY ReadsDigits
  <2> QED BY <1>3, <2>1, Zenon
<1>5. Magnitude(s) = [num |-> PlaceValue(Digits(s)),
                      places |-> IF q = 0 THEN 0 ELSE Len(s) - q]
  BY Zenon DEF Magnitude, Digits
<1> HIDE DEF q
<1> QED BY <1>4, <1>5

\* The digits of a numeral with a sign are the sign and those of the rest.
LEMMA SignedDigits ==
  ASSUME NEW S, NEW s \in Seq(S), s # <<>>, s[1] = "-"
  PROVE  LET d == Digits(s)
             e == Digits(Tail(s))
         IN /\ Len(d) = Len(e) + 1 /\ d[1] = "-"
            /\ \A k \in 1 .. Len(e) : d[k + 1] = e[k]
<1> DEFINE t == Tail(s)
           n == Len(t)
           q == strchr(s, 1, ".")
           r == strchr(t, 1, ".")
           d == Digits(s)
           e == Digits(t)
<1>1. t \in Seq(S) /\ n \in Nat /\ Len(s) = n + 1 /\ \A i \in 1 .. n : t[i] = s[i + 1]
  OBVIOUS
<1> HIDE DEF t
<1>2. \/ r = 0 /\ \A j \in 1 .. n : t[j] # "."
      \/ /\ r \in 1 .. n /\ t[r] = "."
         /\ \A j \in 1 .. r - 1 : t[j] # "."
  <2>1. 1 \in Nat \ {0}
    OBVIOUS
  <2> QED BY <1>1, <2>1, StrchrFacts
<1>3. q = IF r = 0 THEN 0 ELSE r + 1
  <2> HIDE DEF r, n
  <2>1. CASE r = 0
    <3>1. \A j \in 1 .. n + 1 : s[j] # "."
      <4>1. \A j \in 1 .. n + 1 : j = 1 \/ (j - 1 \in 1 .. n /\ (j - 1) + 1 = j)
        BY <1>1
      <4>2. \A j \in 1 .. n : t[j] # "."
        BY <1>2, <2>1
      <4>3. \A j \in 1 .. n : s[j + 1] # "."
        BY <1>1, <4>2
      <4> QED BY <4>1, <4>3
    <3>2. 1 \in Nat \ {0}
      OBVIOUS
    <3>3. \/ q = 0
          \/ q \in 1 .. Len(s) /\ s[q] = "."
      BY <3>2, StrchrFacts
    <3> HIDE DEF q
    <3> QED BY <1>1, <2>1, <3>1, <3>3
  <2>2. CASE r # 0
    <3>1. r \in 1 .. n /\ t[r] = "." /\ \A j \in 1 .. r - 1 : t[j] # "."
      BY <1>2, <2>2
    <3>2. r + 1 \in 1 .. Len(s) /\ s[r + 1] = "." /\ 1 \in Nat \ {0}
      BY <1>1, <3>1
    <3>3. ASSUME NEW j \in 1 .. (r + 1) - 1 PROVE s[j] # "."
      <4>1. CASE j = 1
        BY <4>1
      <4>2. CASE j # 1
        <5>1. j - 1 \in 1 .. r - 1 /\ j - 1 \in 1 .. n /\ (j - 1) + 1 = j
          BY <1>1, <3>1, <4>2
        <5>2. t[j - 1] = s[(j - 1) + 1] /\ t[j - 1] # "."
          BY <1>1, <3>1, <5>1
        <5> QED BY <5>1, <5>2
      <4> QED BY <4>1, <4>2
    <3>4. q = r + 1
      BY <3>2, <3>3, StrchrIs
    <3> QED BY <2>2, <3>4
  <2> QED BY <2>1, <2>2
<1>4. /\ q \in Nat /\ q =< Len(s) /\ Len(d) = IF q = 0 THEN Len(s) ELSE Len(s) - 1
      /\ \A i \in 1 .. Len(d) : d[i] = IF q = 0 \/ i < q THEN s[i] ELSE s[i + 1]
  BY DigitsAt
<1>5. /\ r \in Nat /\ r =< n /\ Len(e) = IF r = 0 THEN n ELSE n - 1
      /\ \A i \in 1 .. Len(e) : e[i] = IF r = 0 \/ i < r THEN t[i] ELSE t[i + 1]
  BY <1>1, DigitsAt
<1> HIDE DEF q, r, d, e, n
<1>6. Len(e) \in Nat /\ Len(d) = Len(e) + 1
  BY <1>1, <1>3, <1>4, <1>5
<1>7. d[1] = "-"
  <2>1. 1 \in 1 .. Len(d)
    BY <1>6
  <2>2. q = 0 \/ 1 < q
    BY <1>2, <1>3, <1>5
  <2>3. d[1] = s[1]
    BY <1>4, <2>1, <2>2
  <2> QED BY <2>3
<1>8. ASSUME NEW k \in 1 .. Len(e) PROVE d[k + 1] = e[k]
  <2>1. k + 1 \in 1 .. Len(d) /\ k \in 1 .. n
    BY <1>1, <1>5, <1>6
  <2>2. d[k + 1] = IF q = 0 \/ k + 1 < q THEN s[k + 1] ELSE s[(k + 1) + 1]
    BY <1>4, <2>1
  <2>3. e[k] = IF r = 0 \/ k < r THEN t[k] ELSE t[k + 1]
    BY <1>5
  <2>4. CASE r = 0 \/ k < r
    <3>1. q = 0 \/ k + 1 < q
      BY <1>3, <1>5, <2>4
    <3>2. t[k] = s[k + 1]
      BY <1>1, <2>1
    <3> QED BY <2>2, <2>3, <2>4, <3>1, <3>2
  <2>5. CASE ~(r = 0 \/ k < r)
    <3>1. ~(q = 0 \/ k + 1 < q)
      BY <1>3, <1>5, <2>5
    <3>2. k + 1 \in 1 .. n
      BY <1>1, <1>5, <1>6, <2>5
    <3>3. t[k + 1] = s[(k + 1) + 1]
      BY <1>1, <3>2
    <3> QED BY <2>2, <2>3, <2>5, <3>1, <3>3
  <2> QED BY <2>4, <2>5
<1> QED BY <1>6, <1>7, <1>8 DEF d, e, t

\* The digits of an unsigned numeral are digits.
LEMMA UnsignedDigits ==
  ASSUME NEW s \in Seq(NumberChars), Unsigned(s)
  PROVE  \A i \in 1 .. Len(Digits(s)) : Digit(Digits(s)[i]) \in 0 .. 9
<1> DEFINE q == strchr(s, 1, ".")
           d == Digits(s)
           n == Len(s)
<1>1. /\ d \in Seq(NumberChars) /\ q \in Nat /\ q =< n
      /\ Len(d) = IF q = 0 THEN n ELSE n - 1
      /\ \A i \in 1 .. Len(d) : d[i] = IF q = 0 \/ i < q THEN s[i] ELSE s[i + 1]
  BY DigitsAt
<1>2. \/ q = 0 /\ \A j \in 1 .. n : s[j] # "."
      \/ q \in 1 .. n /\ s[q] = "."
  <2>1. 1 \in Nat \ {0}
    OBVIOUS
  <2> QED BY <2>1, StrchrFacts
<1>3. n \in Nat /\ \A i \in 1 .. n : s[i] \in NumberChars
  OBVIOUS
<1>4. /\ \A i \in 1 .. n : s[i] # "-"
      /\ \A i, j \in 1 .. n : s[i] = "." /\ s[j] = "." => i = j
  BY DEF Unsigned
<1> HIDE DEF q, d, n
<1>5. ASSUME NEW j \in 1 .. n, j # q PROVE Digit(s[j]) \in 0 .. 9
  <2>1. s[j] # "."
    BY <1>2, <1>4, <1>5
  <2> QED BY <1>3, <1>4, <2>1, DigitFacts
<1>6. ASSUME NEW i \in 1 .. Len(d) PROVE Digit(d[i]) \in 0 .. 9
  <2>1. CASE q = 0 \/ i < q
    <3>1. i \in 1 .. n /\ i # q /\ d[i] = s[i]
      BY <1>1, <1>3, <2>1
    <3> QED BY <1>5, <3>1
  <2>2. CASE ~(q = 0 \/ i < q)
    <3>1. i + 1 \in 1 .. n /\ i + 1 # q /\ d[i] = s[i + 1]
      BY <1>1, <1>3, <2>2
    <3> QED BY <1>5, <3>1
  <2> QED BY <2>1, <2>2
<1> QED BY <1>6 DEF d

\* With a sign the digits make a number that is too small, whatever they are.
LEMMA SignTooSmall ==
  ASSUME NEW S, NEW d \in Seq(S), NEW e \in Seq(S), Len(d) = Len(e) + 1, d[1] = "-",
         \A k \in 1 .. Len(e) : d[k + 1] = e[k] /\ Digit(e[k]) \in 0 .. 9
  PROVE  Horner(d) \in Int /\ Horner(e) \in Int /\ Horner(d) < -Horner(e)
<1> DEFINE n == Len(e)
<1>1. n \in Nat /\ Len(d) = n + 1
  OBVIOUS
<1>2. \A k \in 1 .. n : Digit(e[k]) \in Int
  OBVIOUS
<1>3. \A k \in 1 .. n + 1 : Digit(d[k]) \in Int
  <2>1. \A k \in 1 .. n + 1 : k = 1 \/ (k - 1 \in 1 .. n /\ (k - 1) + 1 = k)
    BY <1>1
  <2>2. Digit(d[1]) \in Int
    BY DigitFacts
  <2>3. \A k \in 1 .. n : Digit(d[k + 1]) \in Int
    OBVIOUS
  <2> QED BY <2>1, <2>2, <2>3
<1>4. PICK X : IsHorner(X, d) /\ Horner(d) = X[n + 1]
  BY <1>1, <1>3, HornerSteps
<1>5. PICK Y : IsHorner(Y, e) /\ Horner(e) = Y[n]
  BY <1>2, HornerSteps
<1>6. /\ X \in [0 .. n + 1 -> Int] /\ X[0] = 0
      /\ \A k \in 1 .. n + 1 : X[k] = 10 * X[k - 1] + Digit(d[k])
  BY <1>1, <1>4 DEF IsHorner
<1>7. /\ Y \in [0 .. n -> Int] /\ Y[0] = 0
      /\ \A k \in 1 .. n : Y[k] = 10 * Y[k - 1] + Digit(e[k])
  BY <1>5 DEF IsHorner
<1> DEFINE A == {k \in Nat : k =< n => Y[k] >= 0 /\ X[k + 1] + 2 * Y[k] =< -3}
<1>8. 0 \in A
  <2>1. 1 \in 1 .. n + 1 /\ 1 - 1 = 0
    BY <1>1
  <2>2. X[1] = 10 * X[0] + Digit(d[1]) /\ Digit(d[1]) = -3
    BY <1>6, <2>1, DigitFacts
  <2>3. X[1] = -3
    BY <1>6, <2>2
  <2> QED BY <1>7, <2>3
<1>9. ASSUME NEW k \in Nat, k \in A PROVE k + 1 \in A
  <2> SUFFICES ASSUME k + 1 =< n
               PROVE  Y[k + 1] >= 0 /\ X[(k + 1) + 1] + 2 * Y[k + 1] =< -3
    OBVIOUS
  <2>1. /\ k + 1 \in 1 .. n /\ (k + 1) - 1 = k /\ k =< n /\ k \in 0 .. n
        /\ (k + 1) + 1 \in 1 .. n + 1 /\ ((k + 1) + 1) - 1 = k + 1 /\ k + 1 \in 0 .. n + 1
    BY <1>1
  <2>2. PICK x \in Int, y \in Int, c \in 0 .. 9 :
          x = X[k + 1] /\ y = Y[k] /\ c = Digit(e[k + 1])
    BY <1>6, <1>7, <2>1
  <2>3. y >= 0 /\ x + 2 * y =< -3
    BY <1>9, <2>1, <2>2
  <2>4. Y[k + 1] = 10 * y + c
    BY <1>7, <2>1, <2>2
  <2>5. X[(k + 1) + 1] = 10 * x + c
    <3>1. d[(k + 1) + 1] = e[k + 1]
      BY <2>1
    <3>2. X[(k + 1) + 1] = 10 * X[((k + 1) + 1) - 1] + Digit(d[(k + 1) + 1])
      BY <1>6, <2>1
    <3> QED BY <2>1, <2>2, <3>1, <3>2
  <2>6. 10 * y + c >= 0 /\ (10 * x + c) + 2 * (10 * y + c) =< -3
    BY <2>3
  <2> QED BY <2>4, <2>5, <2>6
<1>10. Nat \subseteq A
  <2> HIDE DEF A
  <2> QED BY <1>8, <1>9, SetInduction
<1>11. Y[n] >= 0 /\ X[n + 1] + 2 * Y[n] =< -3
  BY <1>1, <1>10
<1>12. PICK x \in Int, y \in Int : x = X[n + 1] /\ y = Y[n]
  <2>1. n \in 0 .. n /\ n + 1 \in 0 .. n + 1
    BY <1>1
  <2> QED BY <1>6, <1>7, <2>1
<1>13. x < -y
  BY <1>11, <1>12
<1> QED BY <1>4, <1>5, <1>12, <1>13

\* Every unsigned number is read right, of whatever length, and no negative
\* one: what is read is always less, because the sign counts as -3.
THEOREM NumbersSafe == Spec => []NumbersExact
<1>1. TextInv => NumbersExact
  <2> SUFFICES ASSUME text \in Seq(Chars), ToSet(text) \subseteq NumberChars
               PROVE  /\ Unsigned(text) => atAsciiToDouble(text) = Magnitude(text)
                      /\ text # <<>> /\ Head(text) = "-" /\ Unsigned(Tail(text)) =>
                           atAsciiToDouble(text) # [Magnitude(Tail(text)) EXCEPT !.num = -@]
    BY DEF TextInv, NumbersExact
  <2>1. text \in Seq(NumberChars)
    <3>1. \A i \in 1 .. Len(text) : text[i] \in NumberChars
      BY DEF ToSet
    <3> QED BY <3>1
  <2>2. ASSUME text # <<>>, Head(text) = "-", Unsigned(Tail(text))
        PROVE  atAsciiToDouble(text) # [Magnitude(Tail(text)) EXCEPT !.num = -@]
    <3> DEFINE t == Tail(text)
               d == Digits(text)
               e == Digits(t)
    <3>1. text[1] = "-" /\ t \in Seq(NumberChars)
      BY <2>1, <2>2
    <3>2. d \in Seq(NumberChars) /\ e \in Seq(NumberChars)
      BY <2>1, <3>1, DigitsAt, Zenon
    <3>3. Len(d) = Len(e) + 1 /\ d[1] = "-" /\ \A k \in 1 .. Len(e) : d[k + 1] = e[k]
      BY <2>1, <2>2, <3>1, SignedDigits
    <3>4. \A k \in 1 .. Len(e) : Digit(e[k]) \in 0 .. 9
      BY <2>2, <3>1, UnsignedDigits
    <3> HIDE DEF d, e
    <3>5. Horner(d) \in Int /\ Horner(e) \in Int /\ Horner(d) < -Horner(e)
      BY <3>2, <3>3, <3>4, SignTooSmall
    <3>6. Horner(d) # -Horner(e)
      BY <3>5
    <3>7. atAsciiToDouble(text).num = Horner(d)
      BY <2>1, ReadsDigits DEF d
    <3>8. Magnitude(t) = atAsciiToDouble(t)
      BY <3>1, UnsignedRight
    <3> DEFINE q == strchr(t, 1, ".")
    <3>9. atAsciiToDouble(t) = [num |-> Horner(e),
                                places |-> IF q = 0 THEN 0 ELSE Len(t) - q]
      BY <3>1, ReadsDigits DEF e
    <3> HIDE DEF q, t
    <3>10. [Magnitude(t) EXCEPT !.num = -@].num = -Horner(e)
      BY <3>8, <3>9
    <3> QED BY <3>6, <3>7, <3>10 DEF t
  <2> QED BY <2>1, <2>2, UnsignedRight
<1> QED BY <1>1, TextInductive, PTL
=============================================================================
