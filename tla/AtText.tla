------------------------------- MODULE AtText --------------------------------
(***************************************************************************)
(* The text the modem sends and what the firmware reads in it: the final   *)
(* status (sim8xxGetStatus in sim8xx.c), the fields of a position          *)
(* (atCgnsinfParse in AtCgnsinf.c, on the helpers of AtUtil.c) and the     *)
(* numbers in them (atAsciiToDouble).                                      *)
(*                                                                         *)
(* A text is a sequence of characters; a word the code does not look into  *)
(* is one character, such as each field's value, which is named after its  *)
(* field.  The text grows in rxbuf behind whatever is there already, and   *)
(* runs of characters are lost when the input queue is full.               *)
(***************************************************************************)
EXTENDS Integers, SequencesExt

CONSTANTS
  MaxLost,    \* bound: runs of characters that are lost
  MaxTyped    \* bound: characters of an arbitrary text

ASSUME TextBounds == MaxLost \in Nat /\ MaxTyped \in Nat

VARIABLES
  ahead,   \* what rxbuf held when the response began
  text,    \* rxbuf
  todo,    \* what the modem has still to send
  runs     \* runs of characters that were lost

vars == <<ahead, text, todo, runs>>

Cr == "CR"
Lf == "LF"
CrLf == <<Cr, Lf>>
Space == "SP"
Comma == ","

-----------------------------------------------------------------------------
(* sim8xxGetStatus.                                                        *)

\* Where CR LF begins in s.
Breaks(s) == {i \in 1 .. Len(s) - 1 : s[i] = Cr /\ s[i + 1] = Lf}

EndsInCrLf(s) == Len(s) >= 2 /\ Len(s) - 1 \in Breaks(s)

StatusOf(word) ==
  CASE word = <<"O", "K">> -> "OK"
    [] word = <<"RING">>   -> "RING"
    [] OTHER               -> "INVALID"

\* Faulty variant: the first line break after the start ends the search.
sim8xxGetStatusFirst(s) ==
  IF ~EndsInCrLf(s) THEN "INVALID"
  ELSE LET body == SubSeq(s, 1, Len(s) - 2)
           later == {i \in Breaks(body) : i > 2}
       IN StatusOf(SubSeq(body, IF later = {} THEN 3 ELSE Min(later) + 2,
                          Len(body)))

\* The search starts behind the first two characters, whatever they are, and
\* ends behind the last CR LF before the one at the end.
sim8xxGetStatus(s) ==
  IF ~EndsInCrLf(s) THEN "INVALID"
  ELSE LET body == SubSeq(s, 1, Len(s) - 2)
           later == {i \in Breaks(body) : i > 2}
       IN StatusOf(SubSeq(body, IF later = {} THEN 3 ELSE Max(later) + 2,
                          Len(body)))

-----------------------------------------------------------------------------
(* atCgnsinfParse.                                                         *)

Layout ==
  <<"runStatus", "fixStatus", "date", "latitude", "longitude", "altitude",
    "speed", "course", "fixMode", "reserved1", "hdop", "pdop", "vdop",
    "reserved2", "gpsSatInView", "gnssSatInUse", "gnssSatInView",
    "reserved3", "cnomax", "hpa", "vpa">>
Reserved == {"reserved1", "reserved2", "reserved3"}
Fields == {Layout[i] : i \in 1 .. Len(Layout)} \ Reserved
Delim(f) == IF f = "vpa" THEN Cr ELSE Comma

\* strchr: where c is first found in s from position i on; 0 if it is not.
strchr(s, i, c) == SelectInSubSeq(s, i, Len(s), LAMBDA x : x = c)

\* Faulty variant: a field without its delimiter is left empty.
atGetNextLenient(s, p, f) ==
  IF ~p.ok \/ p.start > Len(s) THEN p
  ELSE LET end == strchr(s, p.start, Delim(f))
       IN IF end = 0 THEN p
          ELSE [ok |-> TRUE, start |-> end + 1,
                data |-> [x \in Fields |->
                            IF x = f THEN SubSeq(s, p.start, end - 1)
                                     ELSE p.data[x]]]

\* Faulty variant: reserved fields are taken for fields that are not sent.
atGetNextUnreserved(s, p, f) ==
  IF ~p.ok \/ p.start > Len(s) \/ f \in Reserved THEN p
  ELSE LET end == strchr(s, p.start, Delim(f))
       IN IF end = 0 THEN [p EXCEPT !.ok = FALSE]
          ELSE [ok |-> TRUE, start |-> end + 1,
                data |-> [p.data EXCEPT ![f] = SubSeq(s, p.start, end - 1)]]

\* atGetNextInt, atGetNextDouble, atGetNextString and atSkipReserved, each
\* behind "if (start < strEnd)": the value up to the delimiter; only a
\* reserved field may lack it.
atGetNext(s, p, f) ==
  IF ~p.ok \/ p.start > Len(s) THEN p
  ELSE LET end == strchr(s, p.start, Delim(f))
       IN IF end = 0
          THEN [ok |-> f \in Reserved, start |-> p.start, data |-> p.data]
          ELSE [ok |-> TRUE, start |-> end + 1,
                data |-> [x \in Fields |->
                            IF x = f THEN SubSeq(s, p.start, end - 1)
                                     ELSE p.data[x]]]

\* The fields follow the first space; what is not parsed is zero (empty).
atCgnsinfParse(s) ==
  LET space == strchr(s, 1, Space)
      begin == [ok |-> space # 0, start |-> space + 1,
                data |-> [f \in Fields |-> <<>>]]
  IN FoldLeft(LAMBDA p, f : atGetNext(s, p, f), begin, Layout)

-----------------------------------------------------------------------------
(* atAsciiToDouble, in exact arithmetic: num / 10^places.                  *)

\* str[i] - '0'.
Digit(c) ==
  CASE c = "-" -> -3
    [] c = "." -> -2
    [] c = "0" -> 0
    [] c = "1" -> 1
    [] c = "9" -> 9

\* Faulty variant: the fraction's first digit counts as a whole.
atAsciiToDoubleShifted(s) ==
  LET point == strchr(s, 1, ".")
      whole == IF point = 0 THEN s ELSE SubSeq(s, 1, point - 1)
      frac  == IF point = 0 THEN <<>> ELSE SubSeq(s, point + 1, Len(s))
  IN [num |-> FoldLeft(LAMBDA v, c : 10 * v + Digit(c), 0, whole \o frac),
      places |-> IF frac = <<>> THEN 0 ELSE Len(frac) - 1]

\* Every character but the first point is a digit: whole part, then fraction.
atAsciiToDouble(s) ==
  LET point == strchr(s, 1, ".")
      whole == IF point = 0 THEN s ELSE SubSeq(s, 1, point - 1)
      frac  == IF point = 0 THEN <<>> ELSE SubSeq(s, point + 1, Len(s))
  IN [num |-> FoldLeft(LAMBDA v, c : 10 * v + Digit(c), 0, whole \o frac),
      places |-> Len(frac)]

-----------------------------------------------------------------------------
(* The modem and the serial line.                                          *)

\* The reply to AT+CGNSINF, its echo, an unsolicited line.
Response ==
  CrLf \o <<"+CGNSINF:", Space>>
    \o [i \in 1 .. 2 * Len(Layout) - 1 |->
          IF i % 2 = 1 THEN Layout[(i + 1) \div 2] ELSE Comma]
    \o CrLf \o CrLf \o <<"O", "K">> \o CrLf
Echo == <<"AT", "+CGNSINF", Cr>>
Urc == CrLf \o <<"+CREG:", Space, "1", Comma, "5">> \o CrLf

\* What is left of a reply whose command has timed out: no final status.
Remains == {SubSeq(Response, 1, n) : n \in 5 .. Len(Response) - 4}

\* rxbuf[rxlength++] = c.
Receive ==
  /\ todo # <<>>
  /\ text' = Append(text, Head(todo))
  /\ todo' = Tail(todo)
  /\ UNCHANGED <<ahead, runs>>

\* The input queue is full: a run of characters is dropped.
Lose(n) ==
  /\ runs < MaxLost
  /\ n \in 1 .. Len(todo)
  /\ todo' = SubSeq(todo, n + 1, Len(todo))
  /\ runs' = runs + 1
  /\ UNCHANGED <<ahead, text>>

\* Any text over a few characters: lines, or a number.
StatusChars == {Cr, Lf, "O", "K"}
NumberChars == {"0", "1", "9", ".", "-"}
Typed(c) ==
  /\ todo = <<>> /\ Len(text) < MaxTyped
  /\ \E chars \in {StatusChars, NumberChars} :
       c \in chars /\ \A i \in 1 .. Len(text) : text[i] \in chars
  /\ text' = Append(text, c)
  /\ UNCHANGED <<ahead, todo, runs>>

Init ==
  /\ ahead \in {<<>>, Echo, Urc} \cup Remains
  /\ text = ahead
  /\ todo \in {Response, Response \o Urc} \cup (IF ahead = <<>> THEN {<<>>} ELSE {})
  /\ runs = IF ahead \in Remains THEN MaxLost ELSE 0

Next ==
  \/ Receive
  \/ \E n \in 1 .. Len(Response) + Len(Urc) : Lose(n)
  \/ \E c \in StatusChars \cup NumberChars : Typed(c)

Spec == Init /\ [][Next]_vars

-----------------------------------------------------------------------------
(* Properties.                                                             *)

\* The last line of a text that ends in CR LF.
LastLine(s) ==
  LET breaks == Breaks(s) \ {Len(s) - 1}
  IN SubSeq(s, IF breaks = {} THEN 1 ELSE Max(breaks) + 2, Len(s) - 2)

\* The status is that of the last complete line, although the search skips
\* two characters unseen (sim8xx.c:114-116): one line break at the beginning,
\* or anywhere behind those two characters, is enough.
StatusIsLastLine ==
  Breaks(text) \ {2, Len(text) - 1} # {} =>
    sim8xxGetStatus(text) =
      IF EndsInCrLf(text) THEN StatusOf(LastLine(text)) ELSE "INVALID"

Parsed == atCgnsinfParse(text)
Readable == sim8xxGetStatus(text) = "OK"

\* A response of which something was lost is rejected or every field holds
\* its own value or none (the last, up to the CR, may hold more): no value
\* slips into another field, because the commas are counted
\* (AtCgnsinf.c:45-141).  This holds as long as nothing with a space in it is
\* ahead of the response, which would be taken for its beginning
\* (AtCgnsinf.c:50).
AcceptedInPlace ==
  Readable /\ Parsed.ok /\ Space \notin ToSet(ahead) =>
    \A f \in Fields \ {"vpa"} : Parsed.data[f] \in {<<>>, <<f>>}

\* A response that arrives whole, with or without an echo, is recognised with
\* its last character and not before, and every field has its value.
WholeResponseRead ==
  ahead \in {<<>>, Echo} /\ IsPrefix(text, ahead \o Response) =>
    /\ Readable <=> text = ahead \o Response
    /\ Readable => Parsed.ok /\ \A f \in Fields : Parsed.data[f] = <<f>>

\* Numerals: digits with at most one point, and perhaps a minus sign.
Unsigned(s) ==
  /\ \A i \in 1 .. Len(s) : s[i] # "-"
  /\ \A i, j \in 1 .. Len(s) : s[i] = "." /\ s[j] = "." => i = j
  /\ \E i \in 1 .. Len(s) : s[i] # "."
PlaceValue(digits) ==
  LET n == Len(digits)
      power[k \in 0 .. n] == IF k = 0 THEN 1 ELSE 10 * power[k - 1]
  IN FoldLeft(+, 0, [i \in 1 .. n |-> Digit(digits[i]) * power[n - i]])
Magnitude(s) ==
  LET point == strchr(s, 1, ".")
  IN [num |-> PlaceValue(IF point = 0 THEN s ELSE RemoveAt(s, point)),
      places |-> IF point = 0 THEN 0 ELSE Len(s) - point]

\* atAsciiToDouble reads every unsigned numeral right and no signed one: the
\* minus of a southern or western coordinate counts as the digit -3
\* (AtUtil.c:57-59).
NumbersExact ==
  ahead = <<>> /\ todo = <<>> /\ ToSet(text) \subseteq NumberChars =>
    /\ Unsigned(text) => atAsciiToDouble(text) = Magnitude(text)
    /\ text # <<>> /\ Head(text) = "-" /\ Unsigned(Tail(text)) =>
         atAsciiToDouble(text) # [Magnitude(Tail(text)) EXCEPT !.num = -@]
=============================================================================
