----------------------------- MODULE Comparison -----------------------------
(***************************************************************************)
(* How the judge compares a program's output with the expected one         *)
(* (src/judge/compare.cpp).  A text is a sequence of characters; " " stands *)
(* for every white space character that does not end a line, "nl" and "cr" *)
(* for the two that do, any other character is visible.                    *)
(***************************************************************************)
EXTENDS Naturals, Sequences, SequencesExt

CONSTANTS
    Chars,       \* the characters of the texts compared
    MaxLength    \* bound: the longest text compared

ASSUME TextsAssumption == MaxLength \in Nat

Breaks == {"nl", "cr"}
White == Breaks \cup {" "}

Texts == UNION {[1..n -> Chars] : n \in 0..MaxLength}

-----------------------------------------------------------------------------
Visible(text, i) == i \in DOMAIN text /\ text[i] \notin White

\* One line without the white space at its two ends.
Trim(line) ==
    IF \A i \in DOMAIN line : ~Visible(line, i)
    THEN <<>>
    ELSE LET b == CHOOSE i \in DOMAIN line :
                    Visible(line, i) /\ \A k \in 1..(i - 1) : ~Visible(line, k)
             e == CHOOSE i \in DOMAIN line :
                    Visible(line, i) /\ \A k \in (i + 1)..Len(line) : ~Visible(line, k)
         IN  SubSeq(line, b, e)

\* The line collected so far is finished: kept unless nothing is left of it.
Flush(acc) ==
    [lines |-> IF Trim(acc.cur) = <<>> THEN acc.lines ELSE Append(acc.lines, Trim(acc.cur)),
     cur   |-> <<>>]

Feed(acc, c) ==
    IF c \in Breaks THEN Flush(acc) ELSE [acc EXCEPT !.cur = Append(@, c)]

\* The text's non-empty lines; its last line need not end in a break.
Normalize(text) ==
    LET After[n \in 0..Len(text)] ==
            IF n = 0 THEN [lines |-> <<>>, cur |-> <<>>] ELSE Feed(After[n - 1], text[n])
    IN  Flush(After[Len(text)]).lines

LooseCompare(expected, actual) == Normalize(expected) = Normalize(actual)

-----------------------------------------------------------------------------
(* What a comparison may look at, said without lines and accumulators: the *)
(* positions of a text that carry meaning.                                 *)

\* Two visible characters enclose position i, and no line ends between them.
InsideLine(text, i) ==
    \E b, e \in DOMAIN text :
        /\ b < i /\ i < e
        /\ Visible(text, b) /\ Visible(text, e)
        /\ \A k \in b..e : text[k] \notin Breaks

\* The last break between two lines that have something on them.
Separates(text, i) ==
    /\ text[i] \in Breaks
    /\ \E b \in 1..(i - 1) : Visible(text, b)
    /\ \E e \in (i + 1)..Len(text) :
        Visible(text, e) /\ \A k \in (i + 1)..(e - 1) : text[k] = " "

Meaningful(text, i) == Visible(text, i) \/ InsideLine(text, i) \/ Separates(text, i)

Essence(text) ==
    LET at == SetToSortSeq({i \in DOMAIN text : Meaningful(text, i)}, <)
    IN  [n \in DOMAIN at |-> IF text[at[n]] \in Breaks THEN "nl" ELSE text[at[n]]]

\* The pairs of outputs on which the two definitions of equality disagree.
Disagreements ==
    {pair \in Texts \X Texts :
        LooseCompare(pair[1], pair[2]) # (Essence(pair[1]) = Essence(pair[2]))}

(* Two outputs are equal for the judge exactly when their essences are: the *)
(* visible characters, the white space between two of them on one line,     *)
(* and one break between lines that are not blank.  So blanks at the ends   *)
(* of a line, blank lines, a missing last newline and \r\n for \n change no *)
(* verdict, and everything else does (compare.cpp:12-46, the whole          *)
(* algorithm against a definition that names no line).                      *)
ComparesEssence == Disagreements = {}
=============================================================================
