--------------------------- MODULE SanitizeProofs ---------------------------
(* What strip_pii takes out of any text, and what it leaves: it takes whole    *)
(* patterns, save where one address begins with the domain of another; the     *)
(* scanners find nothing in what is left; and an IPv6 address goes as a whole. *)
(* The theorems on the pseudonyms of Privacy.tla, the other way to keep        *)
(* personal data out of an event, stand at the end.                            *)
EXTENDS Sanitize, FiniteSetTheorems, SequenceTheorems, WellFoundedInduction, TLAPS

Text == Seq(Char)

(* A set of numbers that is not empty has a least one. *)
LEMMA MinProperties ==
    ASSUME NEW S, S \subseteq Nat, S # {}
    PROVE  /\ Min(S) \in S
           /\ \A y \in S : Min(S) <= y
<1>1. \E x \in S : \A y \in S : <<y, x>> \notin OpToRel(<, Nat)
  BY NatLessThanWellFounded, WFMin
<1>2. \A x, y \in Nat : <<y, x>> \notin OpToRel(<, Nat) => x <= y
  BY DEF OpToRel
<1>3. \E x \in S : \A y \in S : x <= y
  BY <1>1, <1>2
<1> QED
  BY <1>3 DEF Min

LEMMA MinIs ==
    ASSUME NEW S, S \subseteq Nat, NEW x \in S, \A y \in S : x <= y
    PROVE  Min(S) = x
<1>1. PICK m \in Nat : m = Min(S) /\ m <= x /\ x <= m
  BY MinProperties
<1> QED
  BY <1>1

LEMMA MinOfTwo ==
    ASSUME NEW x \in Nat, NEW y \in Nat
    PROVE  Min({x, y}) = IF x <= y THEN x ELSE y
<1>1. CASE x <= y
  BY <1>1, MinIs
<1>2. CASE ~(x <= y)
  BY <1>2, MinIs
<1> QED
  BY <1>1, <1>2

LEMMA MaxOfTwo ==
    ASSUME NEW x \in Nat, NEW y \in Nat
    PROVE  Max({x, y}) = IF x >= y THEN x ELSE y
<1> DEFINE m == IF x >= y THEN x ELSE y
<1>1. m \in {x, y} /\ \A z \in {x, y} : m >= z
  OBVIOUS
<1>2. \A n \in {x, y} : (\A z \in {x, y} : n >= z) => n = m
  OBVIOUS
<1> QED
  BY <1>1, <1>2 DEF Max

(* The largest number of a bounded set. *)
LEMMA MaxIs ==
    ASSUME NEW S, S \subseteq Nat, NEW x \in S, \A y \in S : x >= y
    PROVE  Max(S) = x
<1>1. \A n \in S : (\A z \in S : n >= z) => n = x
  OBVIOUS
<1> QED
  BY <1>1 DEF Max
----------------------------------------------------------------------------
(* Characters and runs of characters.                                         *)

LEMMA TextType ==
    ASSUME NEW t \in Text
    PROVE  /\ Len(t) \in Nat
           /\ DOMAIN t = 1..Len(t)
           /\ \A k \in 1..Len(t) : t[k] \in Char
           /\ \A k, class : At(t, k, class) => k \in 1..Len(t)
BY DEF Text, At

LEMMA ClassesDiffer ==
    /\ Digit = {"0", "1", "2", "3", "4", "5", "6", "7", "8", "9"}
    /\ \A c \in {"[", "]", "_", ".", ":", "@", "-", "/", " ", "%", "+"} :
          c \notin Alphanumeric /\ c \notin HexDigit
    /\ HexDigit \subseteq Alphanumeric /\ Digit \subseteq HexDigit
<1>1. Range(Numerals) = {Numerals[n] : n \in 1..10}
  BY DEF Range, Numerals
<1>2. Digit = {"0", "1", "2", "3", "4", "5", "6", "7", "8", "9"}
  <2>1. \A n \in 1..10 : n = 1 \/ n = 2 \/ n = 3 \/ n = 4 \/ n = 5 \/ n = 6 \/ n = 7
                            \/ n = 8 \/ n = 9 \/ n = 10
    OBVIOUS
  <2> QED
    BY <1>1, <2>1 DEF Digit, Numerals
<1>3. HexDigit = {"0", "1", "2", "3", "4", "5", "6", "7", "8", "9",
                  "a", "b", "c", "d", "e", "f", "A", "B", "C", "D", "E", "F"}
  BY <1>2 DEF HexDigit
<1>4. Alphanumeric = {"0", "1", "2", "3", "4", "5", "6", "7", "8", "9",
                      "a", "b", "c", "d", "e", "f", "A", "B", "C", "D", "E", "F",
                      "g", "m", "o", "x", "I", "L", "M", "O", "P", "R", "T"}
  BY <1>2, <1>3 DEF Alphanumeric, Alphabetic
<1> QED
  BY <1>2, <1>3, <1>4

(* A run of characters of a class: [k, end) holds no other, and end is none. *)
Run(t, k, end, class) ==
    /\ end \in Nat /\ k <= end
    /\ \A n \in k..(end - 1) : At(t, n, class)
    /\ ~At(t, end, class)

LEMMA RunEndIsRun ==
    ASSUME NEW t \in Text, NEW k \in 1..(Len(t) + 1), NEW class
    PROVE  /\ RunEnd(t, k, class) \in k..(Len(t) + 1)
           /\ Run(t, k, RunEnd(t, k, class), class)
<1> DEFINE S == {n \in k..(Len(t) + 1) : ~At(t, n, class)}
<1>1. Len(t) + 1 \in S /\ S \subseteq Nat
  BY TextType
<1>2. Min(S) \in S /\ \A y \in S : Min(S) <= y
  BY <1>1, MinProperties
<1>3. RunEnd(t, k, class) = Min(S)
  BY DEF RunEnd
<1> HIDE DEF S
<1>4. Min(S) \in k..(Len(t) + 1) /\ ~At(t, Min(S), class)
  BY <1>2 DEF S
<1>5. ASSUME NEW n \in k..(Min(S) - 1) PROVE At(t, n, class)
  <2>1. n \in k..(Len(t) + 1) /\ ~(Min(S) <= n)
    BY <1>4, TextType
  <2> QED
    BY <1>2, <2>1 DEF S
<1> QED
  BY <1>3, <1>4, <1>5, TextType DEF Run

LEMMA RunIsRunEnd ==
    ASSUME NEW t \in Text, NEW k \in 1..(Len(t) + 1), NEW class, NEW end,
           Run(t, k, end, class)
    PROVE  RunEnd(t, k, class) = end
<1> DEFINE e == RunEnd(t, k, class)
<1>1. e \in k..(Len(t) + 1) /\ Run(t, k, e, class)
  BY RunEndIsRun
<1> HIDE DEF e
<1>2. ~(e < end) /\ ~(end < e) /\ e \in Nat /\ end \in Nat
  BY <1>1, TextType DEF Run
<1> QED
  BY <1>2 DEF e
----------------------------------------------------------------------------
(* Two texts that agree over a stretch, shifted by s.                         *)

Same(t, u, s, lo, hi) ==
    \A x \in lo..hi : /\ x \in DOMAIN t <=> x + s \in DOMAIN u
                      /\ x \in DOMAIN t => t[x] = u[x + s]

LEMMA SameAt ==
    ASSUME NEW t, NEW u, NEW s \in Int, NEW lo \in Int, NEW hi \in Int,
           Same(t, u, s, lo, hi)
    PROVE  \A x \in lo..hi : \A class : At(t, x, class) <=> At(u, x + s, class)
BY DEF Same, At

LEMMA SameWithin ==
    ASSUME NEW t, NEW u, NEW s \in Int, NEW lo \in Int, NEW hi \in Int,
           Same(t, u, s, lo, hi),
           NEW a \in Int, NEW b \in Int, lo <= a, b <= hi
    PROVE  Same(t, u, s, a, b)
BY DEF Same

LEMMA SameRun ==
    ASSUME NEW t \in Text, NEW u \in Text, NEW s \in Int, NEW k \in Nat, NEW end,
           NEW class, k + s \in Nat, Same(t, u, s, k, end), Run(t, k, end, class)
    PROVE  Run(u, k + s, end + s, class)
<1>1. end \in Nat /\ k <= end
  BY DEF Run
<1>2. \A x \in k..end : At(t, x, class) <=> At(u, x + s, class)
  BY <1>1, SameAt
<1>3. ASSUME NEW n \in (k + s)..(end + s - 1) PROVE At(u, n, class)
  <2>1. PICK x \in k..(end - 1) : n = x + s
    <3>1. n - s \in k..(end - 1) /\ n = (n - s) + s
      BY <1>1
    <3> QED
      BY <3>1
  <2> QED
    BY <1>1, <1>2, <2>1 DEF Run
<1>4. ~At(u, end + s, class)
  BY <1>1, <1>2 DEF Run
<1> QED
  BY <1>1, <1>3, <1>4 DEF Run

(* The pieces of the texts there are the same text. *)
Piece(t, u, s, k, end) ==
    /\ t \in Text /\ u \in Text /\ s \in Int /\ k \in Nat \ {0} /\ end \in Nat
    /\ k <= end /\ end <= Len(t) + 1 /\ Same(t, u, s, k, end - 1)

LEMMA SamePiece ==
    ASSUME NEW t, NEW u, NEW s \in Int, NEW k \in Nat, NEW end \in Nat,
           Piece(t, u, s, k, end)
    PROVE  SubSeq(t, k, end - 1) = SubSeq(u, k + s, (end + s) - 1)
<1> SUFFICES ASSUME t \in Text, u \in Text, k \in Nat \ {0}, k <= end, end <= Len(t) + 1,
                    Same(t, u, s, k, end - 1)
             PROVE  SubSeq(t, k, end - 1) = SubSeq(u, k + s, (end + s) - 1)
  BY DEF Piece
<1>1. ASSUME NEW x \in k..(end - 1)
      PROVE  t[x] \in Char /\ x + s \in DOMAIN u /\ u[x + s] = t[x]
  <2>1. Len(t) \in Nat /\ DOMAIN t = 1..Len(t) /\ \A y \in DOMAIN t : t[y] \in Char
    BY TextType
  <2>2. x \in DOMAIN t
    BY <2>1
  <2> QED
    BY <2>1, <2>2 DEF Same
<1>2. ASSUME NEW n \in (k + s)..(end + s - 1) PROVE u[n] \in Char
  <2> DEFINE x == n - s
  <2>1. x \in k..(end - 1) /\ x + s = n
    OBVIOUS
  <2> HIDE DEF x
  <2> QED
    BY <1>1, <2>1
<1>3. /\ SubSeq(t, k, end - 1) \in Seq(Char)
      /\ Len(SubSeq(t, k, end - 1)) = end - k
      /\ \A n \in 1..(end - k) : SubSeq(t, k, end - 1)[n] = t[k + n - 1]
  BY <1>1, SubSeqProperties
<1>4. /\ SubSeq(u, k + s, (end + s) - 1) \in Seq(Char)
      /\ Len(SubSeq(u, k + s, (end + s) - 1)) = end - k
      /\ \A n \in 1..(end - k) : SubSeq(u, k + s, (end + s) - 1)[n] = u[k + s + (n - 1)]
  BY <1>2, SubSeqProperties
<1>5. \A n \in 1..(end - k) : t[k + n - 1] = u[k + s + (n - 1)]
  <2> SUFFICES ASSUME NEW n \in 1..(end - k) PROVE t[k + n - 1] = u[k + s + (n - 1)]
    OBVIOUS
  <2>1. k + n - 1 \in k..(end - 1) /\ (k + n - 1) + s = k + s + (n - 1)
    OBVIOUS
  <2> QED
    BY <1>1, <2>1
<1> DEFINE p == SubSeq(t, k, end - 1)
           q == SubSeq(u, k + s, (end + s) - 1)
<1>6. /\ p \in Seq(Char) /\ q \in Seq(Char) /\ Len(p) = Len(q)
      /\ \A n \in 1..Len(p) : p[n] = q[n]
  BY <1>3, <1>4, <1>5
<1> HIDE DEF p, q
<1>7. p = q
  BY <1>6, SeqEqual
<1> QED
  BY <1>7 DEF p, q
----------------------------------------------------------------------------
(* IPv4.                                                                      *)

OctetAt(t, k, end) ==
    /\ Run(t, k, end, Digit)
    /\ end - k \in 1..3
    /\ Number(SubSeq(t, k, end - 1)) <= 255

LEMMA OctetEndIs ==
    ASSUME NEW t \in Text, NEW k \in 1..(Len(t) + 1), NEW end
    PROVE  OctetAt(t, k, end) <=> end # 0 /\ OctetEnd(t, k) = end
<1> DEFINE e == RunEnd(t, k, Digit)
<1>1. e \in Nat /\ e # 0 /\ Run(t, k, e, Digit)
  BY RunEndIsRun, TextType
<1>2. Run(t, k, end, Digit) => end = e
  BY RunIsRunEnd
<1>3. OctetEnd(t, k) =
          IF e - k \in 1..3 /\ Number(SubSeq(t, k, e - 1)) <= 255 THEN e ELSE 0
  BY DEF OctetEnd
<1> HIDE DEF e
<1>4. OctetAt(t, k, e) <=> e - k \in 1..3 /\ Number(SubSeq(t, k, e - 1)) <= 255
  BY <1>1 DEF OctetAt
<1>5. OctetAt(t, k, end) => end = e
  BY <1>2 DEF OctetAt
<1> QED
  BY <1>1, <1>3, <1>4, <1>5

LEMMA SameOctet ==
    ASSUME NEW t \in Text, NEW u \in Text, NEW s \in Int, NEW k \in Nat \ {0}, NEW end,
           k + s \in Nat, Same(t, u, s, k, end), OctetAt(t, k, end)
    PROVE  OctetAt(u, k + s, end + s)
<1>1. Run(t, k, end, Digit) /\ end \in Nat /\ end - k \in 1..3
  BY DEF OctetAt, Run
<1>2. At(t, end - 1, Digit)
  BY <1>1 DEF Run
<1>3. end <= Len(t) + 1
  BY <1>1, <1>2, TextType
<1>4. SubSeq(t, k, end - 1) = SubSeq(u, k + s, (end + s) - 1)
  <2>1. Same(t, u, s, k, end - 1)
    BY <1>1 DEF Same
  <2>2. Piece(t, u, s, k, end) /\ end \in Nat
    BY <1>1, <1>3, <2>1 DEF Piece
  <2> QED
    BY <2>2, SamePiece
<1>5. Run(u, k + s, end + s, Digit)
  BY <1>1, SameRun
<1>6. (end + s) - (k + s) = end - k
  BY <1>1
<1> QED
  <2>1. Number(SubSeq(t, k, end - 1)) <= 255
    BY DEF OctetAt
  <2>2. Number(SubSeq(u, k + s, (end + s) - 1)) <= 255
    BY <1>4, <2>1
  <2>3. (end + s) - (k + s) \in 1..3
    BY <1>1, <1>6
  <2> QED
    BY <1>5, <2>2, <2>3, Zenon DEF OctetAt

(* Four octets from k to end, the first three ending at dots. *)
Quad(t, k, a, b, c, end) ==
    /\ OctetAt(t, k, a) /\ At(t, a, {"."})
    /\ OctetAt(t, a + 1, b) /\ At(t, b, {"."})
    /\ OctetAt(t, b + 1, c) /\ At(t, c, {"."})
    /\ OctetAt(t, c + 1, end)

LEMMA NextOctetIs ==
    ASSUME NEW t \in Text, NEW a \in Nat, NEW end
    PROVE  end # 0 /\ NextOctetEnd(t, a) = end
               <=> At(t, a, {"."}) /\ OctetAt(t, a + 1, end)
<1>1. At(t, a, {"."}) => a + 1 \in 1..(Len(t) + 1)
  BY TextType
<1> QED
  BY <1>1, OctetEndIs DEF NextOctetEnd

LEMMA OctetEndNat ==
    ASSUME NEW t \in Text, NEW k \in 1..(Len(t) + 1)
    PROVE  OctetEnd(t, k) \in Nat
BY RunEndIsRun, TextType DEF OctetEnd

LEMMA NextOctetNat ==
    ASSUME NEW t \in Text, NEW a \in Nat
    PROVE  NextOctetEnd(t, a) \in Nat /\ NextOctetEnd(t, 0) = 0
<1>1. At(t, a, {"."}) => a + 1 \in 1..(Len(t) + 1)
  BY TextType
<1>2. ~At(t, 0, {"."})
  BY TextType
<1> QED
  BY <1>1, <1>2, OctetEndNat DEF NextOctetEnd

LEMMA ParsedIPv4 ==
    ASSUME NEW t \in Text, NEW k \in 1..(Len(t) + 1), NEW end
    PROVE  end # 0 /\ try_parse_ipv4(t, k) = end
               <=> \E a, b, c \in Nat : Quad(t, k, a, b, c, end)
<1> DEFINE x == OctetEnd(t, k)
           y == NextOctetEnd(t, x)
           z == NextOctetEnd(t, y)
           w == NextOctetEnd(t, z)
<1>1. x \in Nat /\ y \in Nat /\ z \in Nat /\ w \in Nat
  BY OctetEndNat, NextOctetNat
<1>2. try_parse_ipv4(t, k) = w
  BY DEF try_parse_ipv4
<1>3. (y # 0 => x # 0) /\ (z # 0 => y # 0) /\ (w # 0 => z # 0)
  BY <1>1, NextOctetNat
<1>4. \A a : OctetAt(t, k, a) <=> a # 0 /\ x = a
  BY OctetEndIs
<1>5. \A b : b # 0 /\ y = b <=> At(t, x, {"."}) /\ OctetAt(t, x + 1, b)
  BY <1>1, NextOctetIs
<1>6. \A c : c # 0 /\ z = c <=> At(t, y, {"."}) /\ OctetAt(t, y + 1, c)
  BY <1>1, NextOctetIs
<1>7. \A d : d # 0 /\ w = d <=> At(t, z, {"."}) /\ OctetAt(t, z + 1, d)
  BY <1>1, NextOctetIs
<1> HIDE DEF x, y, z, w
<1>8. ASSUME end # 0, w = end PROVE Quad(t, k, x, y, z, end)
  BY <1>3, <1>4, <1>5, <1>6, <1>7, <1>8 DEF Quad
<1>9. ASSUME NEW a \in Nat, NEW b \in Nat, NEW c \in Nat, Quad(t, k, a, b, c, end)
      PROVE  end # 0 /\ w = end
  <2>1. a = x
    BY <1>4, <1>9 DEF Quad
  <2>2. b = y
    BY <1>5, <1>9, <2>1 DEF Quad
  <2>3. c = z
    BY <1>6, <1>9, <2>2 DEF Quad
  <2> QED
    BY <1>7, <1>9, <2>3 DEF Quad
<1> QED
  BY <1>1, <1>2, <1>8, <1>9

LEMMA QuadShape ==
    ASSUME NEW t \in Text, NEW k \in Nat, NEW a \in Nat, NEW b \in Nat, NEW c \in Nat,
           NEW end, Quad(t, k, a, b, c, end)
    PROVE  /\ end \in Nat /\ k < a /\ a < b /\ b < c /\ c < end /\ end <= Len(t) + 1
           /\ At(t, k, Digit) /\ At(t, end - 1, Digit) /\ ~At(t, end, Digit)
           /\ \A x \in k..(end - 1) : At(t, x, is_ipv4_adjacent)
<1>1. /\ Run(t, k, a, Digit) /\ a - k \in 1..3 /\ At(t, a, {"."})
      /\ Run(t, a + 1, b, Digit) /\ b - (a + 1) \in 1..3 /\ At(t, b, {"."})
      /\ Run(t, b + 1, c, Digit) /\ c - (b + 1) \in 1..3 /\ At(t, c, {"."})
      /\ Run(t, c + 1, end, Digit) /\ end - (c + 1) \in 1..3 /\ end \in Nat
  BY DEF Quad, OctetAt, Run
<1>2. k < a /\ a < b /\ b < c /\ c < end
  BY <1>1
<1>3. At(t, k, Digit) /\ At(t, end - 1, Digit) /\ ~At(t, end, Digit)
  BY <1>1, <1>2 DEF Run
<1>4. end <= Len(t) + 1
  BY <1>1, <1>2, <1>3, TextType
<1>5. \A x : At(t, x, Digit) \/ At(t, x, {"."}) => At(t, x, is_ipv4_adjacent)
  BY DEF At, is_ipv4_adjacent
<1>6. ASSUME NEW x \in k..(end - 1) PROVE At(t, x, Digit) \/ At(t, x, {"."})
  <2>1. \/ x \in k..(a - 1) \/ x = a \/ x \in (a + 1)..(b - 1) \/ x = b
        \/ x \in (b + 1)..(c - 1) \/ x = c \/ x \in (c + 1)..(end - 1)
    BY <1>1
  <2> QED
    BY <1>1, <2>1 DEF Run
<1> QED
  BY <1>1, <1>2, <1>3, <1>4, <1>5, <1>6

LEMMA SameQuad ==
    ASSUME NEW t \in Text, NEW u \in Text, NEW s \in Int, NEW k \in Nat \ {0}, k + s \in Nat,
           NEW a \in Nat, NEW b \in Nat, NEW c \in Nat, NEW end,
           Quad(t, k, a, b, c, end), Same(t, u, s, k, end)
    PROVE  /\ a + s \in Nat /\ b + s \in Nat /\ c + s \in Nat
           /\ Quad(u, k + s, a + s, b + s, c + s, end + s)
<1>1. end \in Nat /\ k < a /\ a < b /\ b < c /\ c < end
  BY QuadShape
<1>2. /\ a + s \in Nat /\ b + s \in Nat /\ c + s \in Nat
      /\ (a + 1) + s = (a + s) + 1 /\ (b + 1) + s = (b + s) + 1
      /\ (c + 1) + s = (c + s) + 1
  BY <1>1
<1>3. /\ Same(t, u, s, k, a) /\ Same(t, u, s, a + 1, b)
      /\ Same(t, u, s, b + 1, c) /\ Same(t, u, s, c + 1, end)
  BY <1>1, SameWithin
<1>4. OctetAt(u, k + s, a + s)
  BY <1>3, SameOctet DEF Quad
<1>5. OctetAt(u, (a + 1) + s, b + s)
  <2>1. (a + 1) + s \in Nat /\ a + 1 \in Nat \ {0}
    BY <1>2
  <2> QED
    BY <1>3, <2>1, SameOctet DEF Quad
<1>6. OctetAt(u, (b + 1) + s, c + s)
  <2>1. (b + 1) + s \in Nat /\ b + 1 \in Nat \ {0}
    BY <1>2
  <2> QED
    BY <1>3, <2>1, SameOctet DEF Quad
<1>7. OctetAt(u, (c + 1) + s, end + s)
  <2>1. (c + 1) + s \in Nat /\ c + 1 \in Nat \ {0}
    BY <1>2
  <2> QED
    BY <1>3, <2>1, SameOctet DEF Quad
<1>8. /\ At(u, a + s, {"."}) /\ At(u, b + s, {"."}) /\ At(u, c + s, {"."})
  <2>1. a \in k..end /\ b \in k..end /\ c \in k..end
    BY <1>1
  <2> QED
    BY <1>1, <2>1, SameAt DEF Quad
<1> QED
  BY <1>2, <1>4, <1>5, <1>6, <1>7, <1>8 DEF Quad

(* An IPv4 address, from k to end, that strip_ipv4 redacts. *)
IPv4Is(t, k, end) ==
    /\ \E a, b, c \in Nat : Quad(t, k, a, b, c, end)
    /\ ~At(t, k - 1, is_ipv4_adjacent)
    /\ ~At(t, end, is_ipv4_adjacent)

LEMMA MatchedIPv4 ==
    ASSUME NEW t \in Text, NEW k \in 1..(Len(t) + 1), NEW end
    PROVE  end # 0 /\ IPv4At(t, k) = end <=> IPv4Is(t, k, end)
<1> DEFINE e == try_parse_ipv4(t, k)
<1>1. end # 0 /\ e = end <=> \E a, b, c \in Nat : Quad(t, k, a, b, c, end)
  BY ParsedIPv4
<1>2. IPv4At(t, k) =
          IF At(t, k - 1, is_ipv4_adjacent) \/ At(t, e, is_ipv4_adjacent) THEN 0 ELSE e
  BY DEF IPv4At
<1> HIDE DEF e
<1> QED
  BY <1>1, <1>2 DEF IPv4Is

LEMMA IPv4Shape ==
    ASSUME NEW t \in Text, NEW k \in Nat, NEW end, IPv4Is(t, k, end)
    PROVE  /\ end \in Nat /\ k < end /\ end <= Len(t) + 1
           /\ At(t, k, Digit) /\ At(t, end - 1, Digit)
           /\ \A x \in k..(end - 1) : At(t, x, is_ipv4_adjacent)
<1>1. PICK a, b, c \in Nat : Quad(t, k, a, b, c, end)
  BY DEF IPv4Is
<1>2. end \in Nat /\ k < a /\ a < b /\ b < c /\ c < end /\ end <= Len(t) + 1
  BY <1>1, QuadShape
<1>3. /\ At(t, k, Digit) /\ At(t, end - 1, Digit)
      /\ \A x \in k..(end - 1) : At(t, x, is_ipv4_adjacent)
  BY <1>1, QuadShape
<1> QED
  BY <1>2, <1>3

LEMMA SameIPv4 ==
    ASSUME NEW t \in Text, NEW u \in Text, NEW s \in Int, NEW k \in Nat \ {0},
           k + s \in Nat \ {0}, NEW end, IPv4Is(t, k, end), Same(t, u, s, k - 1, end)
    PROVE  IPv4Is(u, k + s, end + s)
<1>1. PICK a, b, c \in Nat : Quad(t, k, a, b, c, end)
  BY DEF IPv4Is
<1>2. end \in Nat /\ k < end
  BY <1>1, QuadShape
<1>3. Same(t, u, s, k, end)
  BY <1>2, SameWithin
<1>4. \E d, e, f \in Nat : Quad(u, k + s, d, e, f, end + s)
  BY <1>1, <1>3, SameQuad
<1>5. ~At(u, (k - 1) + s, is_ipv4_adjacent) /\ ~At(u, end + s, is_ipv4_adjacent)
  <2>1. k - 1 \in (k - 1)..end /\ end \in (k - 1)..end
    BY <1>2
  <2> QED
    BY <1>2, <2>1, SameAt DEF IPv4Is
<1>6. (k - 1) + s = (k + s) - 1
  OBVIOUS
<1> QED
  BY <1>4, <1>5, <1>6 DEF IPv4Is
----------------------------------------------------------------------------
(* Redactions.                                                                *)

(* What a placeholder is made of, and how it begins and ends. *)
PlaceholderText(P) ==
    /\ P \in Seq(PlaceholderChar) /\ Len(P) > 2
    /\ P[1] = "[" /\ P[Len(P)] = "]"

(* u is t with [a, b) replaced by P. *)
Edited(t, u, a, b, P) ==
    /\ b \in 1..(Len(t) + 1) /\ a \in 1..b
    /\ \A x \in 1..Len(P) : (a - 1) + x \in DOMAIN u /\ u[(a - 1) + x] = P[x]
    /\ Same(u, t, 0, 0, a - 1)
    /\ \A hi \in Int : Same(u, t, b - (a + Len(P)), a + Len(P), hi)

(* A text that begins with a bracket and one that ends in one. *)
LEMMA Bracketed ==
    ASSUME NEW h \in Seq(PlaceholderChar), NEW w \in Seq(PlaceholderChar),
           Len(h) > 2, Len(w) > 2, h[1] = "[", w[Len(w)] = "]"
    PROVE  PlaceholderText(h \o w)
<1>1. /\ h \o w \in Seq(PlaceholderChar)
      /\ Len(h \o w) = Len(h) + Len(w)
      /\ \A n \in 1..(Len(h) + Len(w)) :
            (h \o w)[n] = IF n <= Len(h) THEN h[n] ELSE w[n - Len(h)]
  BY ConcatProperties
<1>2. /\ Len(h) \in Nat /\ Len(w) \in Nat
      /\ (Len(h) + Len(w)) - Len(h) = Len(w) /\ ~(Len(h) + Len(w) <= Len(h))
      /\ 1 \in 1..(Len(h) + Len(w)) /\ Len(h) + Len(w) \in 1..(Len(h) + Len(w))
  OBVIOUS
<1>3. (h \o w)[1] = "[" /\ (h \o w)[Len(h) + Len(w)] = "]"
  BY <1>1, <1>2
<1> QED
  BY <1>1, <1>2, <1>3 DEF PlaceholderText

LEMMA PlaceholderIsText ==
    ASSUME NEW p \in {"ipv6", "ipv4", "emails", "dob"}
    PROVE  PlaceholderText(Placeholder(p)) /\ Placeholder(p) \in Text
<1>1. {"R", "E", "D", "A", "C", "T", "I", "P", "M", "L", "O", "B"} \subseteq Alphabetic
  <2>1. {"A", "B", "C", "D", "E"} \subseteq HexDigit \ Digit
    BY ClassesDiffer DEF HexDigit
  <2> QED
    BY <2>1 DEF Alphabetic
<1>2. {"[", "]", "_", "R", "E", "D", "A", "C", "T", "I", "P", "M", "L", "O", "B"}
          \subseteq PlaceholderChar
  <2>1. {"[", "]", "_"} \subseteq PlaceholderChar /\ Alphabetic \subseteq PlaceholderChar
    BY DEF PlaceholderChar
  <2> QED
    BY <1>1, <2>1
<1>3. PlaceholderChar \subseteq Char
  BY TextsAssumption DEF TextsAssumption
<1> DEFINE head == SubSeq(REDACTED_IP, 1, 10)
           email == <<"E", "M", "A", "I", "L", "]">>
           dob == <<"D", "O", "B", "]">>
<1>4. /\ REDACTED_IP \in Seq(PlaceholderChar) /\ Len(REDACTED_IP) = 13
      /\ REDACTED_IP[1] = "[" /\ REDACTED_IP[13] = "]"
  <2>1. REDACTED_IP \in Seq({"[", "R", "E", "D", "A", "C", "T", "_", "I", "P", "]"})
    BY DEF REDACTED_IP
  <2>2. REDACTED_IP \in Seq(PlaceholderChar)
    <3>1. {"[", "R", "E", "D", "A", "C", "T", "_", "I", "P", "]"} \subseteq PlaceholderChar
      BY <1>2
    <3> QED
      BY <2>1, <3>1, SeqMonotonic
  <2> QED
    BY <2>2 DEF REDACTED_IP
<1>5. /\ email \in Seq(PlaceholderChar) /\ Len(email) = 6 /\ email[6] = "]"
      /\ dob \in Seq(PlaceholderChar) /\ Len(dob) = 4 /\ dob[4] = "]"
  <2>1. email \in Seq({"E", "M", "A", "I", "L", "]"}) /\ Len(email) = 6 /\ email[6] = "]"
    OBVIOUS
  <2>2. dob \in Seq({"D", "O", "B", "]"}) /\ Len(dob) = 4 /\ dob[4] = "]"
    OBVIOUS
  <2>3. {"E", "M", "A", "I", "L", "]"} \subseteq PlaceholderChar
        /\ {"D", "O", "B", "]"} \subseteq PlaceholderChar
    BY <1>2
  <2> HIDE DEF email, dob
  <2> QED
    BY <2>1, <2>2, <2>3, SeqMonotonic
<1>6. head \in Seq(PlaceholderChar) /\ Len(head) = 10 /\ head[1] = "["
  <2>1. \A n \in 1..10 : REDACTED_IP[n] \in PlaceholderChar
    <3>1. \A n \in 1..Len(REDACTED_IP) : REDACTED_IP[n] \in PlaceholderChar
      BY <1>4, ElementOfSeq
    <3>2. 1..10 \subseteq 1..Len(REDACTED_IP)
      BY <1>4
    <3> QED
      BY <3>1, <3>2
  <2>2. /\ head \in Seq(PlaceholderChar) /\ Len(head) = 10
        /\ \A n \in 1..10 : head[n] = REDACTED_IP[1 + n - 1]
    BY <2>1, SubSeqProperties
  <2> QED
    BY <1>4, <2>2
<1> HIDE DEF head, email, dob
<1>7. PlaceholderText(head \o email) /\ PlaceholderText(head \o dob)
  <2>1. Len(head) > 2 /\ Len(email) > 2 /\ Len(dob) > 2
    BY <1>5, <1>6
  <2> QED
    BY <1>5, <1>6, <2>1, Bracketed
<1>8. PlaceholderText(REDACTED_IP)
  BY <1>4 DEF PlaceholderText
<1>9. /\ PlaceholderText(REDACTED_EMAIL)
      /\ PlaceholderText(REDACTED_DOB)
  BY <1>7 DEF REDACTED_EMAIL, REDACTED_DOB, head, email, dob
<1>10. PlaceholderText(Placeholder(p))
  BY <1>8, <1>9 DEF Placeholder
<1> QED
  BY <1>3, <1>10, SeqMonotonic DEF PlaceholderText, Text

(* A stretch of characters that placeholders do not contain lies before the    *)
(* placeholder or behind it.                                                  *)
LEMMA StretchBesides ==
    ASSUME NEW t \in Text, NEW u \in Text, NEW a, NEW b, NEW P,
           PlaceholderText(P), Edited(t, u, a, b, P),
           NEW class, class \cap PlaceholderChar = {},
           NEW k \in Nat, NEW end \in Nat, k < end,
           \A x \in k..(end - 1) : At(u, x, class)
    PROVE  end <= a \/ k >= a + Len(P)
<1>1. a \in Nat /\ Len(P) \in Nat /\ Len(P) > 2
  BY DEF Edited, PlaceholderText
<1>2. SUFFICES ASSUME end > a, k < a + Len(P) PROVE FALSE
  BY <1>1
<1>3. PICK x \in k..(end - 1) : x >= a /\ x < a + Len(P)
  <2>1. CASE k >= a
    BY <1>1, <1>2, <2>1
  <2>2. CASE k < a
    BY <1>1, <1>2, <2>2
  <2> QED
    BY <1>1, <2>1, <2>2
<1>4. PICK y \in 1..Len(P) : x = (a - 1) + y
  <2>1. x - (a - 1) \in 1..Len(P) /\ x = (a - 1) + (x - (a - 1))
    BY <1>1, <1>3
  <2> QED
    BY <2>1
<1>5. u[x] = P[y] /\ P[y] \in PlaceholderChar
  BY <1>4 DEF Edited, PlaceholderText
<1>6. u[x] \in class
  BY <1>3 DEF At
<1> QED
  BY <1>5, <1>6

(* The character that becomes the first behind the placeholder, and the one    *)
(* that stays the last before it.                                             *)
LEMMA BesidePlaceholder ==
    ASSUME NEW t \in Text, NEW u \in Text, NEW a, NEW b, NEW P,
           PlaceholderText(P), Edited(t, u, a, b, P), NEW class
    PROVE  /\ At(u, a - 1, class) <=> At(t, a - 1, class)
           /\ At(u, a + Len(P), class) <=> At(t, b, class)
           /\ At(u, (a + Len(P)) - 1, class) <=> "]" \in class
           /\ a \in Nat \ {0} /\ b \in Nat /\ Len(P) \in Nat \ {0}
<1>1. a \in Nat \ {0} /\ b \in Nat /\ Len(P) \in Nat \ {0}
  BY TextType DEF Edited, PlaceholderText
<1>2. At(u, a - 1, class) <=> At(t, a - 1, class)
  BY <1>1, SameAt DEF Edited
<1>3. At(u, a + Len(P), class) <=> At(t, b, class)
  <2> DEFINE n == a + Len(P)
  <2>1. Same(u, t, b - n, n, n) /\ n \in Int /\ b - n \in Int /\ n + (b - n) = b
    BY <1>1 DEF Edited
  <2> HIDE DEF n
  <2>2. At(u, n, class) <=> At(t, n + (b - n), class)
    BY <2>1, SameAt
  <2> QED
    BY <2>1, <2>2 DEF n
<1>4. (a + Len(P)) - 1 = (a - 1) + Len(P)
  BY <1>1
<1>5. At(u, (a + Len(P)) - 1, class) <=> "]" \in class
  BY <1>1, <1>4 DEF Edited, PlaceholderText, At
<1> QED
  BY <1>1, <1>2, <1>3, <1>5

(* Characters that no placeholder contains, and classes that hold no bracket. *)
LEMMA PlaceholderLacks ==
    /\ is_ipv4_adjacent \cap PlaceholderChar = {}
    /\ {":"} \cap PlaceholderChar = {} /\ {"@"} \cap PlaceholderChar = {}
    /\ Digit \cap PlaceholderChar = {}
<1>1. Alphabetic \cap Digit = {}
  BY ClassesDiffer DEF Alphabetic
<1>2. Alphabetic \subseteq Alphanumeric
  BY DEF Alphanumeric
<1>3. /\ Digit \subseteq Alphanumeric
      /\ \A c \in {"[", "]", "_", ".", ":", "@"} : c \notin Alphanumeric
  BY ClassesDiffer
<1>4. \A c \in PlaceholderChar : c \in Alphabetic \/ c = "[" \/ c = "]" \/ c = "_"
  BY DEF PlaceholderChar
<1>5. \A c \in Digit : c \notin PlaceholderChar
  BY <1>1, <1>3, <1>4
<1>6. "." \notin PlaceholderChar /\ ":" \notin PlaceholderChar /\ "@" \notin PlaceholderChar
  BY <1>2, <1>3, <1>4
<1> QED
  BY <1>5, <1>6 DEF is_ipv4_adjacent

(* The two halves of a text that are untouched by a redaction. *)
LEMMA HalvesStay ==
    ASSUME NEW t \in Text, NEW u \in Text, NEW a, NEW b, NEW P, Edited(t, u, a, b, P),
           Len(P) \in Nat, NEW lo \in Int, NEW hi \in Int, lo >= 0
    PROVE  /\ hi < a => Same(u, t, 0, lo, hi)
           /\ lo >= a + Len(P) => Same(u, t, b - (a + Len(P)), lo, hi)
<1>1. a \in Nat /\ b \in Nat
  BY TextType DEF Edited
<1>2. ASSUME hi < a PROVE Same(u, t, 0, lo, hi)
  BY <1>1, <1>2, SameWithin DEF Edited
<1>3. ASSUME lo >= a + Len(P) PROVE Same(u, t, b - (a + Len(P)), lo, hi)
  <2> DEFINE n == a + Len(P)
             s == b - n
  <2>1. Same(u, t, s, n, hi) /\ n \in Int /\ s \in Int /\ lo >= n
    BY <1>1, <1>3 DEF Edited
  <2> HIDE DEF n, s
  <2>2. Same(u, t, s, lo, hi)
    BY <2>1, SameWithin
  <2> QED
    BY <2>2 DEF n, s
<1> QED
  BY <1>2, <1>3

(* A redaction between characters that are no digits makes no IPv4 address:    *)
(* one that is in the text now was there before, on one side of it.           *)
LEMMA IPv4Survives ==
    ASSUME NEW t \in Text, NEW u \in Text, NEW a, NEW b, NEW P,
           PlaceholderText(P), Edited(t, u, a, b, P),
           ~At(t, a - 1, Digit), ~At(t, b, Digit),
           NEW k \in Nat \ {0}, NEW end, IPv4Is(u, k, end),
           NEW s, s = b - (a + Len(P))
    PROVE  \/ end < a /\ IPv4Is(t, k, end)
           \/ k > a + Len(P) /\ IPv4Is(t, k + s, end + s)
<1>1. a \in Nat \ {0} /\ b \in Nat /\ Len(P) \in Nat \ {0}
  BY BesidePlaceholder
<1>2. /\ end \in Nat /\ k < end
      /\ At(u, k, Digit) /\ At(u, end - 1, Digit)
      /\ \A x \in k..(end - 1) : At(u, x, is_ipv4_adjacent)
  BY IPv4Shape
<1>3. end <= a \/ k >= a + Len(P)
  BY <1>2, PlaceholderLacks, StretchBesides
<1>4. ~At(u, a - 1, Digit) /\ ~At(u, a + Len(P), Digit)
  BY BesidePlaceholder
<1>5. CASE end <= a
  <2>1. end < a
    BY <1>1, <1>2, <1>4, <1>5
  <2>2. Same(u, t, 0, k - 1, end)
    BY <1>1, <1>2, <2>1, HalvesStay
  <2>3. k + 0 = k /\ end + 0 = end
    BY <1>2
  <2>4. IPv4Is(t, k + 0, end + 0)
    BY <2>2, <2>3, SameIPv4
  <2> QED
    BY <2>1, <2>3, <2>4
<1>6. CASE k >= a + Len(P)
  <2>1. k > a + Len(P)
    BY <1>1, <1>2, <1>4, <1>6
  <2>2. s \in Int /\ k + s \in Nat \ {0}
    BY <1>1, <2>1
  <2>3. k - 1 \in Int /\ k - 1 >= 0 /\ k - 1 >= a + Len(P) /\ end \in Int
    BY <1>1, <1>2, <2>1
  <2>4. Same(u, t, b - (a + Len(P)), k - 1, end)
    BY <1>1, <2>3, HalvesStay
  <2> QED
    BY <2>1, <2>2, <2>4, SameIPv4
<1> QED
  BY <1>3, <1>5, <1>6
----------------------------------------------------------------------------
(* E-mail addresses.                                                          *)

EmailDomain == Alphanumeric \cup {"-", "."}

(* An e-mail address at k, whose domain ends at end. *)
EmailIs(t, k, end) ==
    /\ At(t, k, {"@"}) /\ At(t, k - 1, is_email_local_char)
    /\ Run(t, k + 1, end, EmailDomain)
    /\ \E d \in (k + 1)..(end - 1) :
          /\ At(t, d, {"."}) /\ end - d > 2
          /\ \A n \in (d + 1)..(end - 1) : At(t, n, Alphabetic)

LEMMA LocalBack ==
    ASSUME NEW t \in Text, NEW k \in 1..Len(t)
    PROVE  /\ scan_email_local_back(t, k) \in 1..k
           /\ \A m \in scan_email_local_back(t, k)..(k - 1) : At(t, m, is_email_local_char)
           /\ ~At(t, scan_email_local_back(t, k) - 1, is_email_local_char)
           /\ scan_email_local_back(t, k) < k <=> At(t, k - 1, is_email_local_char)
<1> DEFINE S == {n \in 1..k : \A m \in n..(k - 1) : t[m] \in is_email_local_char}
           n == scan_email_local_back(t, k)
<1>1. k \in S /\ S \subseteq Nat
  BY TextType
<1>2. n \in S /\ \A y \in S : n <= y
  BY <1>1, MinProperties DEF scan_email_local_back
<1> HIDE DEF n
<1>3. n \in 1..k /\ \A m \in n..(k - 1) : t[m] \in is_email_local_char
  BY <1>2
<1>4. \A m \in n..(k - 1) : At(t, m, is_email_local_char)
  BY <1>3, TextType DEF At
<1>5. ~At(t, n - 1, is_email_local_char)
  <2> SUFFICES ASSUME At(t, n - 1, is_email_local_char) PROVE FALSE
    OBVIOUS
  <2>1. n - 1 \in 1..k /\ t[n - 1] \in is_email_local_char
    BY <1>3, TextType DEF At
  <2>2. \A m \in (n - 1)..(k - 1) : m = n - 1 \/ m \in n..(k - 1)
    BY <1>3
  <2>3. n - 1 \in S
    BY <1>3, <2>1, <2>2
  <2> QED
    BY <1>2, <1>3, <2>3
<1>6. n < k => At(t, k - 1, is_email_local_char)
  BY <1>3, <1>4
<1>7. n = k => ~At(t, k - 1, is_email_local_char)
  BY <1>5
<1> QED
  BY <1>3, <1>4, <1>5, <1>6, <1>7 DEF n

LEMMA DomainForward ==
    ASSUME NEW t \in Text, NEW k \in 1..(Len(t) + 1), NEW end
    PROVE  end # 0 /\ scan_email_domain_forward(t, k) = end
               <=> /\ Run(t, k, end, EmailDomain)
                   /\ \E d \in k..(end - 1) :
                         /\ At(t, d, {"."}) /\ end - d > 2
                         /\ \A n \in (d + 1)..(end - 1) : At(t, n, Alphabetic)
<1> DEFINE e == RunEnd(t, k, EmailDomain)
           dots == {n \in k..(e - 1) : t[n] = "."}
           good(d) == /\ At(t, d, {"."}) /\ e - d > 2
                      /\ \A n \in (d + 1)..(e - 1) : At(t, n, Alphabetic)
<1>1. e \in k..(Len(t) + 1) /\ Run(t, k, e, EmailDomain)
  BY RunEndIsRun
<1>2. Run(t, k, end, EmailDomain) => end = e
  BY RunIsRunEnd
<1>3. scan_email_domain_forward(t, k) =
          IF /\ dots # {}
             /\ e - Max(dots) > 2
             /\ \A n \in (Max(dots) + 1)..(e - 1) : t[n] \in Alphabetic
          THEN e ELSE 0
  BY DEF scan_email_domain_forward, EmailDomain
<1> HIDE DEF e
<1>4. \A n \in k..(e - 1) : n \in DOMAIN t
  BY <1>1, TextType
<1>5. ASSUME NEW d \in k..(e - 1), good(d)
      PROVE  d \in dots /\ Max(dots) = d
  <2>1. d \in dots /\ dots \subseteq Nat
    BY <1>5, TextType DEF At
  <2>2. "." \notin Alphabetic
    BY ClassesDiffer DEF Alphanumeric
  <2>3. \A y \in dots : d >= y
    <3> SUFFICES ASSUME NEW y \in dots, y > d PROVE FALSE
      BY <2>1
    <3>1. y \in (d + 1)..(e - 1) /\ t[y] = "."
      OBVIOUS
    <3> QED
      BY <1>5, <2>2, <3>1 DEF At
  <2> HIDE DEF dots
  <2> QED
    BY <2>1, <2>3, MaxIs
<1>6. ASSUME dots # {} PROVE Max(dots) \in dots
  <2>1. \E x \in dots : \A y \in dots : x >= y
    <3> DEFINE ends == {(e - 1) - n : n \in dots}
    <3>1. ends \subseteq Nat /\ ends # {}
      BY <1>1, <1>6, TextType
    <3>2. Min(ends) \in ends /\ \A y \in ends : Min(ends) <= y
      BY <3>1, MinProperties
    <3>3. PICK x \in dots : Min(ends) = (e - 1) - x
      BY <3>2
    <3>4. \A y \in dots : (e - 1) - x <= (e - 1) - y
      BY <3>2, <3>3
    <3> QED
      BY <1>1, <3>3, <3>4, TextType
  <2> HIDE DEF dots
  <2> QED
    BY <2>1 DEF Max
<1>7. ASSUME dots # {}, e - Max(dots) > 2,
             \A n \in (Max(dots) + 1)..(e - 1) : t[n] \in Alphabetic
      PROVE  Max(dots) \in k..(e - 1) /\ good(Max(dots))
  <2>1. Max(dots) \in k..(e - 1) /\ t[Max(dots)] = "."
    BY <1>6, <1>7
  <2>2. At(t, Max(dots), {"."})
    BY <1>4, <2>1 DEF At
  <2>3. \A n \in (Max(dots) + 1)..(e - 1) : n \in DOMAIN t
    BY <1>1, <1>4, <2>1
  <2> QED
    BY <1>7, <2>1, <2>2, <2>3 DEF At
<1>8. ASSUME NEW d \in k..(e - 1), good(d)
      PROVE  /\ dots # {} /\ e - Max(dots) > 2
             /\ \A n \in (Max(dots) + 1)..(e - 1) : t[n] \in Alphabetic
  BY <1>5, <1>8 DEF At
<1> HIDE DEF dots
<1>9. (/\ dots # {} /\ e - Max(dots) > 2
       /\ \A n \in (Max(dots) + 1)..(e - 1) : t[n] \in Alphabetic)
          <=> \E d \in k..(e - 1) : good(d)
  BY <1>7, <1>8
<1>10. e \in Nat \ {0}
  BY <1>1, TextType
<1>11. scan_email_domain_forward(t, k) =
          IF \E d \in k..(e - 1) : good(d) THEN e ELSE 0
  BY <1>3, <1>9
<1>12. CASE end = e
  BY <1>1, <1>10, <1>11, <1>12
<1>13. CASE end # e
  BY <1>2, <1>11, <1>13
<1> QED
  BY <1>12, <1>13

LEMMA MatchedEmail ==
    ASSUME NEW t \in Text, NEW k \in 1..Len(t), NEW end
    PROVE  end # 0 /\ EmailAt(t, k) = end <=> EmailIs(t, k, end)
<1> DEFINE e == scan_email_domain_forward(t, k + 1)
<1>1. k + 1 \in 1..(Len(t) + 1)
  BY TextType
<1>2. end # 0 /\ e = end
          <=> /\ Run(t, k + 1, end, EmailDomain)
              /\ \E d \in (k + 1)..(end - 1) :
                    /\ At(t, d, {"."}) /\ end - d > 2
                    /\ \A n \in (d + 1)..(end - 1) : At(t, n, Alphabetic)
  BY <1>1, DomainForward
<1>3. scan_email_local_back(t, k) < k <=> At(t, k - 1, is_email_local_char)
  BY LocalBack
<1> HIDE DEF e
<1>4. EmailAt(t, k) = IF At(t, k, {"@"}) /\ At(t, k - 1, is_email_local_char)
                      THEN e ELSE 0
  BY <1>3 DEF EmailAt, e
<1> QED
  BY <1>2, <1>4 DEF EmailIs

LEMMA EmailShapes ==
    ASSUME NEW t \in Text, NEW k \in Nat, NEW end, EmailIs(t, k, end)
    PROVE  /\ end \in Nat /\ k + 3 < end /\ end <= Len(t) + 1 /\ k > 1
           /\ At(t, end - 1, Alphabetic) /\ ~At(t, end, EmailDomain)
           /\ \A x \in (k + 1)..(end - 1) : At(t, x, EmailDomain)
<1>1. PICK d \in (k + 1)..(end - 1) :
          /\ At(t, d, {"."}) /\ end - d > 2
          /\ \A n \in (d + 1)..(end - 1) : At(t, n, Alphabetic)
  BY DEF EmailIs
<1>2. /\ end \in Nat /\ ~At(t, end, EmailDomain)
      /\ \A x \in (k + 1)..(end - 1) : At(t, x, EmailDomain)
  BY DEF EmailIs, Run
<1>3. end - 1 \in (d + 1)..(end - 1)
  BY <1>1, <1>2
<1>4. At(t, end - 1, Alphabetic)
  BY <1>1, <1>3
<1>5. end <= Len(t) + 1
  BY <1>2, <1>4, TextType
<1>6. At(t, k - 1, is_email_local_char)
  BY DEF EmailIs
<1>7. k > 1
  BY <1>6, TextType
<1> QED
  BY <1>1, <1>2, <1>4, <1>5, <1>7

LEMMA SameEmail ==
    ASSUME NEW t \in Text, NEW u \in Text, NEW s \in Int, NEW k \in Nat \ {0},
           k + s \in Nat \ {0}, NEW end, EmailIs(t, k, end), Same(t, u, s, k - 1, end)
    PROVE  EmailIs(u, k + s, end + s)
<1>1. end \in Nat /\ k + 3 < end
  BY EmailShapes
<1>2. \A x \in (k - 1)..end : \A class : At(t, x, class) <=> At(u, x + s, class)
  BY <1>1, SameAt
<1>3. At(u, k + s, {"@"}) /\ At(u, (k + s) - 1, is_email_local_char)
  <2>1. k \in (k - 1)..end /\ k - 1 \in (k - 1)..end /\ (k - 1) + s = (k + s) - 1
    BY <1>1
  <2>2. At(t, k, {"@"}) /\ At(t, k - 1, is_email_local_char)
    BY DEF EmailIs
  <2>3. At(u, k + s, {"@"}) /\ At(u, (k - 1) + s, is_email_local_char)
    BY <1>2, <2>1, <2>2, Zenon
  <2> QED
    BY <2>1, <2>3
<1>4. Run(u, (k + s) + 1, end + s, EmailDomain)
  <2>1. Same(t, u, s, k + 1, end)
    BY <1>1, SameWithin
  <2>2. k + 1 \in Nat /\ (k + 1) + s \in Nat /\ (k + 1) + s = (k + s) + 1
    OBVIOUS
  <2>3. Run(u, (k + 1) + s, end + s, EmailDomain)
    BY <2>1, <2>2, SameRun DEF EmailIs
  <2> QED
    BY <2>2, <2>3
<1>5. PICK d \in (k + 1)..(end - 1) :
          /\ At(t, d, {"."}) /\ end - d > 2
          /\ \A n \in (d + 1)..(end - 1) : At(t, n, Alphabetic)
  BY DEF EmailIs
<1>6. d + s \in ((k + s) + 1)..((end + s) - 1) /\ (end + s) - (d + s) > 2
  BY <1>1, <1>5
<1>7. At(u, d + s, {"."})
  <2>1. d \in (k - 1)..end
    BY <1>1
  <2> QED
    BY <1>2, <1>5, <2>1
<1>8. ASSUME NEW n \in ((d + s) + 1)..((end + s) - 1) PROVE At(u, n, Alphabetic)
  <2>1. n - s \in (d + 1)..(end - 1) /\ n - s \in (k - 1)..end /\ (n - s) + s = n
    BY <1>1
  <2> QED
    BY <1>2, <1>5, <2>1
<1> QED
  BY <1>3, <1>4, <1>6, <1>7, <1>8 DEF EmailIs

(* A redaction that does not begin in the middle of a word makes no e-mail     *)
(* address.                                                                   *)
LEMMA EmailSurvives ==
    ASSUME NEW t \in Text, NEW u \in Text, NEW a, NEW b, NEW P,
           PlaceholderText(P), Edited(t, u, a, b, P),
           ~At(t, a - 1, Alphanumeric),
           NEW k \in Nat \ {0}, NEW end, EmailIs(u, k, end),
           NEW s, s = b - (a + Len(P))
    PROVE  \/ end < a /\ EmailIs(t, k, end)
           \/ k > a + Len(P) /\ EmailIs(t, k + s, end + s)
<1>1. a \in Nat \ {0} /\ b \in Nat /\ Len(P) \in Nat \ {0}
  BY BesidePlaceholder
<1>2. /\ end \in Nat /\ k + 3 < end
      /\ At(u, end - 1, Alphabetic)
      /\ \A x \in (k + 1)..(end - 1) : At(u, x, EmailDomain)
      /\ At(u, k, {"@"}) /\ At(u, k - 1, is_email_local_char)
  BY EmailShapes DEF EmailIs
<1>3. k < a \/ k >= a + Len(P)
  <2>1. \A x \in k..((k + 1) - 1) : At(u, x, {"@"})
    BY <1>2
  <2>2. k \in Nat /\ k + 1 \in Nat /\ k < k + 1 /\ {"@"} \cap PlaceholderChar = {}
    BY PlaceholderLacks
  <2>3. k + 1 <= a \/ k >= a + Len(P)
    BY <2>1, <2>2, StretchBesides
  <2> QED
    BY <1>1, <2>3
<1>4. ~At(u, a - 1, Alphanumeric)
  BY BesidePlaceholder
<1>5. "[" \notin EmailDomain /\ "]" \notin is_email_local_char
  BY ClassesDiffer DEF EmailDomain, is_email_local_char
<1>6. CASE k < a
  <2>1. ~At(u, a, EmailDomain)
    <3>1. 1 \in 1..Len(P) /\ (a - 1) + 1 = a
      BY <1>1
    <3>2. u[a] = "["
      BY <3>1 DEF Edited, PlaceholderText
    <3> QED
      BY <1>5, <3>2 DEF At
  <2>2. end <= a
    BY <1>1, <1>2, <1>6, <2>1
  <2>3. At(u, end - 1, Alphanumeric)
    BY <1>2 DEF At, Alphanumeric
  <2>4. end < a
    BY <1>1, <1>2, <1>4, <2>2, <2>3
  <2>5. Same(u, t, 0, k - 1, end)
    BY <1>1, <1>2, <2>4, HalvesStay
  <2>6. k + 0 = k /\ end + 0 = end
    BY <1>2
  <2>7. EmailIs(t, k + 0, end + 0)
    BY <2>5, <2>6, SameEmail
  <2> QED
    BY <2>4, <2>6, <2>7
<1>7. CASE k >= a + Len(P)
  <2>1. k > a + Len(P)
    <3>1. ~At(u, (a + Len(P)) - 1, is_email_local_char)
      BY <1>5, BesidePlaceholder
    <3> QED
      BY <1>1, <1>2, <1>7, <3>1
  <2>2. s \in Int /\ k + s \in Nat \ {0}
    BY <1>1, <2>1
  <2>3. k - 1 \in Int /\ k - 1 >= 0 /\ k - 1 >= a + Len(P) /\ end \in Int
    BY <1>1, <1>2, <2>1
  <2>4. Same(u, t, b - (a + Len(P)), k - 1, end)
    BY <1>1, <2>3, HalvesStay
  <2> QED
    BY <2>1, <2>2, <2>4, SameEmail
<1> QED
  BY <1>3, <1>6, <1>7
----------------------------------------------------------------------------
(* Dates of birth.                                                            *)

LEMMA SameNumber ==
    ASSUME NEW t \in Text, NEW u \in Text, NEW s \in Int, NEW k \in Nat \ {0},
           k + s \in Nat \ {0}, NEW n \in Nat \ {0}, NEW hi \in Int, hi >= k + (n - 1),
           Same(t, u, s, k, hi)
    PROVE  /\ Digits(t, k, n) <=> Digits(u, k + s, n)
           /\ Digits(t, k, n) => Num(t, k, n) = Num(u, k + s, n)
<1> DEFINE end == k + n
<1>1. end \in Nat /\ k <= end /\ end - 1 = k + (n - 1)
      /\ (end + s) - 1 = (k + s) + (n - 1) /\ end - 1 \in Int
  OBVIOUS
<1> HIDE DEF end
<1>2. Same(t, u, s, k, end - 1)
  BY <1>1, SameWithin
<1>3. \A x \in k..(end - 1) : At(t, x, Digit) <=> At(u, x + s, Digit)
  BY <1>1, <1>2, SameAt
<1>4. Digits(t, k, n) <=> \A x \in k..(end - 1) : At(t, x, Digit)
  BY <1>1 DEF Digits
<1>5. Digits(u, k + s, n) <=> \A x \in (k + s)..((end + s) - 1) : At(u, x, Digit)
  BY <1>1 DEF Digits
<1>6. (\A x \in k..(end - 1) : At(u, x + s, Digit))
          <=> \A x \in (k + s)..((end + s) - 1) : At(u, x, Digit)
  <2>1. ASSUME \A x \in k..(end - 1) : At(u, x + s, Digit),
               NEW x \in (k + s)..((end + s) - 1)
        PROVE  At(u, x, Digit)
    <3>1. x - s \in k..(end - 1) /\ (x - s) + s = x
      BY <1>1
    <3> QED
      BY <2>1, <3>1
  <2>2. ASSUME \A x \in (k + s)..((end + s) - 1) : At(u, x, Digit),
               NEW x \in k..(end - 1)
        PROVE  At(u, x + s, Digit)
    <3>1. x + s \in (k + s)..((end + s) - 1)
      BY <1>1
    <3> QED
      BY <2>2, <3>1
  <2> QED
    BY <2>1, <2>2
<1>7. Digits(t, k, n) <=> Digits(u, k + s, n)
  BY <1>3, <1>4, <1>5, <1>6
<1>8. ASSUME Digits(t, k, n) PROVE Num(t, k, n) = Num(u, k + s, n)
  <2>1. end <= Len(t) + 1
    <3>1. end - 1 \in k..(end - 1)
      BY <1>1
    <3>2. At(t, end - 1, Digit)
      BY <1>4, <1>8, <3>1
    <3> QED
      BY <1>1, <3>2, TextType
  <2>2. SubSeq(t, k, end - 1) = SubSeq(u, k + s, (end + s) - 1)
    <3>1. Piece(t, u, s, k, end)
      BY <1>1, <1>2, <2>1 DEF Piece
    <3> QED
      BY <1>1, <3>1, SamePiece
  <2> QED
    BY <1>1, <2>2 DEF Num
<1> QED
  BY <1>7, <1>8

(* A date is ten characters long, and whether it is one depends on three more. *)
DateChar == Digit \cup {"-", "/", "."}

LEMMA DateShape ==
    ASSUME NEW t \in Text, NEW k \in Nat, DateAt(t, k) # 0
    PROVE  /\ DateAt(t, k) = k + 10
           /\ Digits(t, k, 2) /\ At(t, k, Digit) /\ At(t, k + 9, Digit)
           /\ ~At(t, k - 1, Alphanumeric) /\ ~At(t, k + 10, Alphanumeric)
           /\ \A x \in k..(k + 9) : At(t, x, DateChar)
           /\ ~At(t, k + 2, {":"})
<1>1. /\ DateAt(t, k) = k + 10
      /\ ~At(t, k - 1, Alphanumeric) /\ ~At(t, k + 10, Alphanumeric)
      /\ \/ try_parse_iso_date(t, k) \/ try_parse_slash_date(t, k)
         \/ try_parse_dot_date(t, k)
  BY DEF DateAt
<1>2. \A x : At(t, x, Digit) \/ At(t, x, {"-"}) \/ At(t, x, {"/"}) \/ At(t, x, {"."})
             => At(t, x, DateChar)
  BY DEF At, DateChar
<1>3. \A x \in k..(k + 9) : x = k \/ x = k + 1 \/ x = k + 2 \/ x = k + 3 \/ x = k + 4
                            \/ x = k + 5 \/ x = k + 6 \/ x = k + 7 \/ x = k + 8 \/ x = k + 9
  OBVIOUS
<1>4. \A x \in Nat : Digits(t, x, 2) => At(t, x, Digit) /\ At(t, x + 1, Digit)
  BY DEF Digits
<1>5. \A x \in Nat : Digits(t, x, 4) => /\ At(t, x, Digit) /\ At(t, x + 1, Digit)
                                       /\ At(t, x + 2, Digit) /\ At(t, x + 3, Digit)
                                       /\ Digits(t, x, 2)
  BY DEF Digits
<1>6. "0" \in Digit /\ ":" \notin Digit
  BY ClassesDiffer
<1>7. CASE try_parse_iso_date(t, k)
  <2>1. /\ At(t, k, Digit) /\ At(t, k + 1, Digit) /\ At(t, k + 2, Digit)
        /\ At(t, k + 3, Digit) /\ Digits(t, k, 2) /\ At(t, k + 4, {"-"})
        /\ At(t, k + 7, {"-"})
    BY <1>5, <1>7 DEF try_parse_iso_date
  <2>2. At(t, k + 5, Digit) /\ At(t, k + 6, Digit)
    BY <1>4, <1>7 DEF try_parse_iso_date
  <2>3. At(t, k + 8, Digit) /\ At(t, k + 9, Digit)
    BY <1>4, <1>7 DEF try_parse_iso_date
  <2>4. \A x \in k..(k + 9) : At(t, x, DateChar)
    BY <1>2, <1>3, <2>1, <2>2, <2>3
  <2>5. ~At(t, k + 2, {":"})
    BY <1>6, <2>1 DEF At
  <2> QED
    BY <1>1, <2>1, <2>3, <2>4, <2>5
<1>8. ASSUME NEW c \in {"/", "."}, TwoTwoFour(t, k, c)
      PROVE  /\ Digits(t, k, 2) /\ At(t, k, Digit) /\ At(t, k + 9, Digit)
             /\ \A x \in k..(k + 9) : At(t, x, DateChar)
             /\ ~At(t, k + 2, {":"})
  <2>1. /\ Digits(t, k, 2) /\ At(t, k, Digit) /\ At(t, k + 1, Digit)
        /\ At(t, k + 2, {c}) /\ At(t, k + 5, {c})
    BY <1>4, <1>8 DEF TwoTwoFour
  <2>2. At(t, k + 3, Digit) /\ At(t, k + 4, Digit)
    BY <1>4, <1>8 DEF TwoTwoFour
  <2>3. At(t, k + 6, Digit) /\ At(t, k + 7, Digit) /\ At(t, k + 8, Digit)
        /\ At(t, k + 9, Digit)
    BY <1>5, <1>8 DEF TwoTwoFour
  <2>4. At(t, k + 2, DateChar) /\ At(t, k + 5, DateChar)
    BY <2>1 DEF At, DateChar
  <2>5. \A x \in k..(k + 9) : At(t, x, DateChar)
    BY <1>2, <1>3, <2>1, <2>2, <2>3, <2>4
  <2>6. ~At(t, k + 2, {":"})
    BY <2>1 DEF At
  <2> QED
    BY <2>1, <2>3, <2>5, <2>6
<1>9. CASE try_parse_slash_date(t, k)
  BY <1>1, <1>8, <1>9 DEF try_parse_slash_date
<1>10. CASE try_parse_dot_date(t, k)
  BY <1>1, <1>8, <1>10 DEF try_parse_dot_date
<1> QED
  BY <1>1, <1>7, <1>9, <1>10

LEMMA SameDateText ==
    ASSUME NEW t \in Text, NEW u \in Text, NEW s \in Int, NEW k \in Nat \ {0},
           k + s \in Nat \ {0}, Same(t, u, s, k, k + 9),
           TimeFollows(u, (k + s) + 10) => TimeFollows(t, k + 10)
    PROVE  /\ try_parse_iso_date(t, k) => try_parse_iso_date(u, k + s)
           /\ try_parse_slash_date(t, k) => try_parse_slash_date(u, k + s)
           /\ try_parse_dot_date(t, k) => try_parse_dot_date(u, k + s)
<1> DEFINE v == k + s
<1>1. /\ v \in Nat \ {0} /\ k + 2 \in Nat \ {0} /\ k + 3 \in Nat \ {0}
      /\ k + 5 \in Nat \ {0} /\ k + 6 \in Nat \ {0} /\ k + 8 \in Nat \ {0}
      /\ (k + 2) + s = v + 2 /\ (k + 3) + s = v + 3 /\ (k + 4) + s = v + 4
      /\ (k + 5) + s = v + 5 /\ (k + 6) + s = v + 6 /\ (k + 7) + s = v + 7
      /\ (k + 8) + s = v + 8
  OBVIOUS
<1>2. \A n \in {0, 3, 5, 6, 8} : Same(t, u, s, k + n, k + 9)
  BY SameWithin
<1>3. Same(t, u, s, k, k + 9) /\ Same(t, u, s, k + 3, k + 9)
      /\ Same(t, u, s, k + 5, k + 9) /\ Same(t, u, s, k + 6, k + 9)
      /\ Same(t, u, s, k + 8, k + 9)
  BY <1>2
<1>4. \A n \in 0..9 : \A class : At(t, k + n, class) <=> At(u, v + n, class)
  <2> SUFFICES ASSUME NEW n \in 0..9, NEW class
               PROVE  At(t, k + n, class) <=> At(u, v + n, class)
    OBVIOUS
  <2>1. k + n \in k..(k + 9) /\ (k + n) + s = v + n
    OBVIOUS
  <2> QED
    BY <2>1, SameAt
<1>5. /\ Digits(t, k, 4) <=> Digits(u, v, 4)
      /\ Digits(t, k, 4) => Num(t, k, 4) = Num(u, v, 4)
  BY <1>1, <1>3, SameNumber
<1>6. /\ Digits(t, k, 2) <=> Digits(u, v, 2)
      /\ Digits(t, k, 2) => Num(t, k, 2) = Num(u, v, 2)
  BY <1>1, <1>3, SameNumber
<1>7. /\ Digits(t, k + 3, 2) <=> Digits(u, v + 3, 2)
      /\ Digits(t, k + 3, 2) => Num(t, k + 3, 2) = Num(u, v + 3, 2)
  <2>1. (k + 3) + s \in Nat \ {0} /\ k + 9 >= (k + 3) + (2 - 1)
    BY <1>1
  <2>2. /\ Digits(t, k + 3, 2) <=> Digits(u, (k + 3) + s, 2)
        /\ Digits(t, k + 3, 2) => Num(t, k + 3, 2) = Num(u, (k + 3) + s, 2)
    BY <1>1, <1>3, <2>1, SameNumber
  <2> QED
    BY <1>1, <2>2
<1>8. /\ Digits(t, k + 5, 2) <=> Digits(u, v + 5, 2)
      /\ Digits(t, k + 5, 2) => Num(t, k + 5, 2) = Num(u, v + 5, 2)
  <2>1. (k + 5) + s \in Nat \ {0} /\ k + 9 >= (k + 5) + (2 - 1)
    BY <1>1
  <2>2. /\ Digits(t, k + 5, 2) <=> Digits(u, (k + 5) + s, 2)
        /\ Digits(t, k + 5, 2) => Num(t, k + 5, 2) = Num(u, (k + 5) + s, 2)
    BY <1>1, <1>3, <2>1, SameNumber
  <2> QED
    BY <1>1, <2>2
<1>9. /\ Digits(t, k + 6, 4) <=> Digits(u, v + 6, 4)
      /\ Digits(t, k + 6, 4) => Num(t, k + 6, 4) = Num(u, v + 6, 4)
  <2>1. (k + 6) + s \in Nat \ {0} /\ k + 9 >= (k + 6) + (4 - 1)
    BY <1>1
  <2>2. /\ Digits(t, k + 6, 4) <=> Digits(u, (k + 6) + s, 4)
        /\ Digits(t, k + 6, 4) => Num(t, k + 6, 4) = Num(u, (k + 6) + s, 4)
    BY <1>1, <1>3, <2>1, SameNumber
  <2> QED
    BY <1>1, <2>2
<1>10. /\ Digits(t, k + 8, 2) <=> Digits(u, v + 8, 2)
       /\ Digits(t, k + 8, 2) => Num(t, k + 8, 2) = Num(u, v + 8, 2)
  <2>1. (k + 8) + s \in Nat \ {0} /\ k + 9 >= (k + 8) + (2 - 1)
    BY <1>1
  <2>2. /\ Digits(t, k + 8, 2) <=> Digits(u, (k + 8) + s, 2)
        /\ Digits(t, k + 8, 2) => Num(t, k + 8, 2) = Num(u, (k + 8) + s, 2)
    BY <1>1, <1>3, <2>1, SameNumber
  <2> QED
    BY <1>1, <2>2
<1>11. \A class : /\ At(t, k + 2, class) <=> At(u, v + 2, class)
                  /\ At(t, k + 4, class) <=> At(u, v + 4, class)
                  /\ At(t, k + 5, class) <=> At(u, v + 5, class)
                  /\ At(t, k + 7, class) <=> At(u, v + 7, class)
  BY <1>4
<1>12. TimeFollows(u, v + 10) => TimeFollows(t, k + 10)
  OBVIOUS
<1> HIDE DEF v
<1>13. try_parse_iso_date(t, k) => try_parse_iso_date(u, v)
  BY <1>5, <1>8, <1>10, <1>11, <1>12, Zenon DEF try_parse_iso_date
<1>14. \A c : TwoTwoFour(t, k, c) => TwoTwoFour(u, v, c)
  BY <1>6, <1>7, <1>9, <1>11, Zenon DEF TwoTwoFour
<1>15. \A c : TwoTwoFour(t, k, c) => /\ Num(t, k, 2) = Num(u, v, 2)
                                    /\ Num(t, k + 3, 2) = Num(u, v + 3, 2)
  BY <1>6, <1>7 DEF TwoTwoFour
<1>16. try_parse_slash_date(t, k) => try_parse_slash_date(u, v)
  BY <1>14, <1>15, Zenon DEF try_parse_slash_date
<1>17. try_parse_dot_date(t, k) => try_parse_dot_date(u, v)
  BY <1>12, <1>14, <1>15, Zenon DEF try_parse_dot_date
<1> QED
  BY <1>13, <1>16, <1>17 DEF v

LEMMA SameDate ==
    ASSUME NEW t \in Text, NEW u \in Text, NEW s \in Int, NEW k \in Nat \ {0},
           k + s \in Nat \ {0}, DateAt(t, k) # 0, Same(t, u, s, k - 1, k + 10),
           TimeFollows(u, (k + s) + 10) => TimeFollows(t, k + 10)
    PROVE  DateAt(u, k + s) # 0
<1>1. Same(t, u, s, k, k + 9)
  BY SameWithin
<1>2. \A class : /\ At(t, k - 1, class) <=> At(u, (k + s) - 1, class)
                 /\ At(t, k + 10, class) <=> At(u, (k + s) + 10, class)
  <2>1. /\ k - 1 \in (k - 1)..(k + 10) /\ (k - 1) + s = (k + s) - 1
        /\ k + 10 \in (k - 1)..(k + 10) /\ (k + 10) + s = (k + s) + 10
    OBVIOUS
  <2>2. \A class : /\ At(t, k - 1, class) <=> At(u, (k - 1) + s, class)
                   /\ At(t, k + 10, class) <=> At(u, (k + 10) + s, class)
    BY <2>1, SameAt
  <2> QED
    BY <2>1, <2>2
<1>3. /\ ~At(t, k - 1, Alphanumeric) /\ ~At(t, k + 10, Alphanumeric)
      /\ \/ try_parse_iso_date(t, k) \/ try_parse_slash_date(t, k)
         \/ try_parse_dot_date(t, k)
  BY DEF DateAt
<1>4. \/ try_parse_iso_date(u, k + s) \/ try_parse_slash_date(u, k + s)
      \/ try_parse_dot_date(u, k + s)
  BY <1>1, <1>3, SameDateText
<1>5. DateAt(u, k + s) = (k + s) + 10
  BY <1>2, <1>3, <1>4 DEF DateAt
<1> QED
  BY <1>5

(* The redaction of a date does not make one of what is before it: what would  *)
(* have been followed by a time would have run into the date.                 *)
LEMMA DateSurvives ==
    ASSUME NEW t \in Text, NEW u \in Text, NEW a, NEW b, NEW P,
           PlaceholderText(P), Edited(t, u, a, b, P),
           ~At(t, a - 1, Alphanumeric), Digits(t, a, 2), ~At(t, a + 2, {":"}),
           NEW k \in Nat \ {0}, k < a + Len(P), DateAt(u, k) # 0
    PROVE  k + 10 < a /\ DateAt(t, k) # 0
<1>1. a \in Nat \ {0} /\ b \in Nat /\ Len(P) \in Nat \ {0}
  BY BesidePlaceholder
<1>2. /\ At(u, k + 9, Digit) /\ \A x \in k..(k + 9) : At(u, x, DateChar)
  BY DateShape
<1>3. DateChar \cap PlaceholderChar = {}
  <2>1. \A c \in {"-", "/", "."} : c \notin Alphabetic
    BY ClassesDiffer DEF Alphanumeric
  <2> QED
    BY <2>1, PlaceholderLacks DEF DateChar, PlaceholderChar
<1>4. k + 10 <= a
  <2>1. k \in Nat /\ k + 10 \in Nat /\ k < k + 10 /\ (k + 10) - 1 = k + 9
    OBVIOUS
  <2>2. \A x \in k..((k + 10) - 1) : At(u, x, DateChar)
    BY <1>2, <2>1
  <2>3. k + 10 <= a \/ k >= a + Len(P)
    BY <1>3, <2>1, <2>2, StretchBesides
  <2> QED
    BY <1>1, <2>3
<1>5. k + 10 < a
  <2>1. ~At(u, a - 1, Alphanumeric)
    BY BesidePlaceholder
  <2>2. ~At(u, a - 1, Digit)
    BY <2>1 DEF At, Alphanumeric
  <2>3. (k + 10) - 1 = k + 9
    OBVIOUS
  <2> QED
    BY <1>1, <1>2, <1>4, <2>2, <2>3
<1>6. \A x \in 0..(a - 1) : \A class : At(u, x, class) <=> At(t, x, class)
  BY <1>1, SameAt DEF Edited
<1>7. TimeFollows(t, k + 10) => TimeFollows(u, k + 10)
  <2> DEFINE n == k + 10
  <2>1. n \in Nat /\ n < a
    BY <1>5
  <2> HIDE DEF n
  <2>2. At(t, n, {"T"}) => At(u, n, {"T"})
    BY <1>1, <1>6, <2>1
  <2>3. ASSUME At(t, n, {" "}), Digits(t, n + 1, 2), At(t, n + 3, {":"})
        PROVE  TimeFollows(u, n)
    <3> \A m \in Nat : Digits(t, m, 2) => At(t, m, Digit) /\ At(t, m + 1, Digit)
      BY DEF Digits
    <3>1. At(t, n + 1, Digit) /\ At(t, n + 2, Digit)
      <4>1. n + 1 \in Nat /\ (n + 1) + 1 = n + 2
        BY <2>1
      <4> QED
        BY <2>3, <4>1
    <3>2. At(t, a, Digit) /\ At(t, a + 1, Digit)
      BY <1>1
    <3>3. ":" \notin Digit
      BY ClassesDiffer
    <3>4. n + 3 < a
      <4>1. ~At(t, n + 3, Digit)
        BY <2>3, <3>3 DEF At
      <4>2. a = n + 1 => a + 2 = n + 3
        BY <2>1
      <4>3. a # n + 1
        BY <2>3, <4>2
      <4>4. a = n + 2 => a + 1 = n + 3
        BY <2>1
      <4>5. a # n + 2
        BY <3>2, <4>1, <4>4
      <4>6. a # n + 3
        BY <3>2, <4>1
      <4> QED
        BY <1>1, <2>1, <4>3, <4>5, <4>6
    <3>5. n \in 0..(a - 1) /\ n + 1 \in 0..(a - 1) /\ n + 2 \in 0..(a - 1)
          /\ n + 3 \in 0..(a - 1)
      BY <1>1, <2>1, <3>4
    <3>6. At(u, n, {" "}) /\ At(u, n + 1, Digit) /\ At(u, n + 2, Digit)
          /\ At(u, n + 3, {":"})
      BY <1>6, <2>3, <3>1, <3>5
    <3>7. Digits(u, n + 1, 2)
      <4>1. (n + 1) + 1 = n + 2
        BY <2>1
      <4>2. \A m \in Nat : At(u, m, Digit) /\ At(u, m + 1, Digit) => Digits(u, m, 2)
        BY DEF Digits
      <4>3. n + 1 \in Nat
        BY <2>1
      <4> QED
        BY <3>6, <4>1, <4>2, <4>3
    <3> QED
      BY <2>3, <3>6, <3>7 DEF TimeFollows
  <2>4. TimeFollows(t, n) => TimeFollows(u, n)
    BY <2>2, <2>3 DEF TimeFollows
  <2> QED
    BY <2>4 DEF n
<1>8. DateAt(t, k + 0) # 0
  <2>1. k - 1 \in Int /\ k - 1 >= 0 /\ k + 10 \in Int
    OBVIOUS
  <2>2. Same(u, t, 0, k - 1, k + 10)
    BY <1>1, <1>5, <2>1, HalvesStay
  <2>3. k + 0 = k
    OBVIOUS
  <2> QED
    BY <1>7, <2>2, <2>3, SameDate
<1> QED
  BY <1>5, <1>8
----------------------------------------------------------------------------
(* IPv6: the groups.                                                          *)

(* The ends of the groups when n more may follow, given those with one less. *)
LayerAt(t, n, f, k, double) ==
    LET end == Min({RunEnd(t, k, HexDigit), k + 4})
        next(from, dbl) == IF n = 0 THEN from ELSE f[from][dbl]
    IN  IF end = k THEN k
        ELSE IF At(t, end, {"."}) /\ end - k <= 3 /\ try_parse_ipv4(t, k) # 0
        THEN try_parse_ipv4(t, k)
        ELSE IF ~At(t, end, {":"}) THEN end
        ELSE IF At(t, end + 1, {":"})
        THEN IF double THEN end
             ELSE IF At(t, end + 2, HexDigit) THEN next(end + 2, TRUE)
             ELSE end + 2
        ELSE IF At(t, end + 1, HexDigit) THEN next(end + 1, double) ELSE end

Layer(t, n, f) ==
    [k \in 1..(Len(t) + 1) |-> [double \in BOOLEAN |-> LayerAt(t, n, f, k, double)]]

Layers(t, f) == f = [n \in 0..7 |-> Layer(t, n, f[n - 1])]

LEMMA LayersExist ==
    ASSUME NEW t
    PROVE  \E f : Layers(t, f)
<1> DEFINE a == Layer(t, 0, 0)  b == Layer(t, 1, a)  c == Layer(t, 2, b)
           d == Layer(t, 3, c)  e == Layer(t, 4, d)  g == Layer(t, 5, e)
           h == Layer(t, 6, g)  l == Layer(t, 7, h)
           f == [n \in 0..7 |-> IF n = 0 THEN a ELSE IF n = 1 THEN b ELSE IF n = 2 THEN c
                                ELSE IF n = 3 THEN d ELSE IF n = 4 THEN e
                                ELSE IF n = 5 THEN g ELSE IF n = 6 THEN h ELSE l]
<1>1. /\ f[0] = a /\ f[1] = b /\ f[2] = c /\ f[3] = d
      /\ f[4] = e /\ f[5] = g /\ f[6] = h /\ f[7] = l
  OBVIOUS
<1>2. \A x : Layer(t, 0, x) = a
  <2>1. \A x, k, double : LayerAt(t, 0, x, k, double) = LayerAt(t, 0, 0, k, double)
    BY DEF LayerAt
  <2>2. ASSUME NEW x PROVE Layer(t, 0, x) = Layer(t, 0, 0)
    BY <2>1 DEF Layer
  <2> QED
    BY <2>2
<1> HIDE DEF f
<1>3. /\ f[0] = Layer(t, 0, f[0 - 1]) /\ f[1] = Layer(t, 1, f[1 - 1])
      /\ f[2] = Layer(t, 2, f[2 - 1]) /\ f[3] = Layer(t, 3, f[3 - 1])
      /\ f[4] = Layer(t, 4, f[4 - 1]) /\ f[5] = Layer(t, 5, f[5 - 1])
      /\ f[6] = Layer(t, 6, f[6 - 1]) /\ f[7] = Layer(t, 7, f[7 - 1])
  <2> HIDE DEF a
  <2>1. /\ 1 - 1 = 0 /\ 2 - 1 = 1 /\ 3 - 1 = 2 /\ 4 - 1 = 3
        /\ 5 - 1 = 4 /\ 6 - 1 = 5 /\ 7 - 1 = 6
    OBVIOUS
  <2>2. f[0] = Layer(t, 0, f[0 - 1])
    BY <1>1, <1>2
  <2>3. f[1] = Layer(t, 1, f[0]) /\ f[2] = Layer(t, 2, f[1]) /\ f[3] = Layer(t, 3, f[2])
        /\ f[4] = Layer(t, 4, f[3])
    BY <1>1
  <2>4. f[5] = Layer(t, 5, f[4]) /\ f[6] = Layer(t, 6, f[5]) /\ f[7] = Layer(t, 7, f[6])
    BY <1>1
  <2> QED
    BY <2>1, <2>2, <2>3, <2>4
<1> HIDE DEF a, b, c, d, e, g, h, l
<1>4. \A n \in 0..7 : n = 0 \/ n = 1 \/ n = 2 \/ n = 3 \/ n = 4 \/ n = 5 \/ n = 6 \/ n = 7
  OBVIOUS
<1>5. \A n \in 0..7 : f[n] = Layer(t, n, f[n - 1])
  BY <1>3, <1>4
<1>6. f = [n \in 0..7 |-> f[n]]
  BY DEF f
<1>7. f = [n \in 0..7 |-> Layer(t, n, f[n - 1])]
  BY <1>5, <1>6
<1> QED
  BY <1>7 DEF Layers

LEMMA GroupsEndIsLayer ==
    ASSUME NEW t
    PROVE  \E f : Layers(t, f) /\ GroupsEnd(t) = f[7]
<1> DEFINE f == CHOOSE x : Layers(t, x)
<1>1. Layers(t, f)
  BY LayersExist
<1>2. GroupsEnd(t) = f[7]
  BY DEF GroupsEnd, Layers, Layer, LayerAt
<1> QED
  BY <1>1, <1>2

(* The end of a single group, at most four digits long. *)
GroupEnd(t, k) == Min({RunEnd(t, k, HexDigit), k + 4})

EndAt(f, k, double) == f[k][double]

EndAfter(f, n, k, double) == IF n = 0 THEN k ELSE EndAt(f[n - 1], k, double)

(* The end e of the groups from k on, the first of which ends at end. *)
LayerStep(t, f, n, k, double, end, e) ==
    e = IF end = k THEN k
        ELSE IF At(t, end, {"."}) /\ end - k <= 3 /\ try_parse_ipv4(t, k) # 0
        THEN try_parse_ipv4(t, k)
        ELSE IF ~At(t, end, {":"}) THEN end
        ELSE IF At(t, end + 1, {":"})
        THEN IF double THEN end
             ELSE IF At(t, end + 2, HexDigit) THEN EndAfter(f, n, end + 2, TRUE)
             ELSE end + 2
        ELSE IF At(t, end + 1, HexDigit) THEN EndAfter(f, n, end + 1, double)
        ELSE end

LEMMA LayerIs ==
    ASSUME NEW t, NEW f, Layers(t, f), NEW n \in 0..7,
           NEW k \in 1..(Len(t) + 1), NEW double \in BOOLEAN
    PROVE  LayerStep(t, f, n, k, double, GroupEnd(t, k), EndAt(f[n], k, double))
<1> DEFINE end == GroupEnd(t, k)
<1>1. f[n] = Layer(t, n, f[n - 1])
  BY DEF Layers
<1> DEFINE g == f[n - 1]
<1> HIDE DEF g
<1>2. f[n] = [x \in 1..(Len(t) + 1) |-> [d \in BOOLEAN |-> LayerAt(t, n, g, x, d)]]
  BY <1>1 DEF Layer, g
<1>3. f[n][k][double] = LayerAt(t, n, g, k, double)
  BY <1>2
<1>4. EndAt(f[n], k, double) = LayerAt(t, n, g, k, double)
  BY <1>3, Zenon DEF EndAt
<1>5. end = Min({RunEnd(t, k, HexDigit), k + 4})
  BY DEF GroupEnd
<1> HIDE DEF end
<1>6. \A x, d : EndAfter(f, n, x, d) = IF n = 0 THEN x ELSE g[x][d]
  BY Zenon DEF EndAfter, EndAt, g
<1> DEFINE after2 == IF n = 0 THEN end + 2 ELSE g[end + 2][TRUE]
           after1 == IF n = 0 THEN end + 1 ELSE g[end + 1][double]
<1>7. LayerAt(t, n, g, k, double) =
          IF end = k THEN k
          ELSE IF At(t, end, {"."}) /\ end - k <= 3 /\ try_parse_ipv4(t, k) # 0
          THEN try_parse_ipv4(t, k)
          ELSE IF ~At(t, end, {":"}) THEN end
          ELSE IF At(t, end + 1, {":"})
          THEN IF double THEN end
               ELSE IF At(t, end + 2, HexDigit) THEN after2 ELSE end + 2
          ELSE IF At(t, end + 1, HexDigit) THEN after1 ELSE end
  BY <1>5, Zenon DEF LayerAt
<1>8. EndAfter(f, n, end + 2, TRUE) = after2 /\ EndAfter(f, n, end + 1, double) = after1
  BY <1>6, Zenon
<1> HIDE DEF after1, after2
<1>9. LayerStep(t, f, n, k, double, end, LayerAt(t, n, g, k, double))
  BY <1>7, <1>8, Zenon DEF LayerStep
<1> QED
  BY <1>4, <1>9 DEF end

LEMMA GroupEndIs ==
    ASSUME NEW t \in Text, NEW k \in 1..(Len(t) + 1)
    PROVE  /\ GroupEnd(t, k) \in k..(k + 4) /\ GroupEnd(t, k) <= Len(t) + 1
           /\ \A x \in k..(GroupEnd(t, k) - 1) : At(t, x, HexDigit)
           /\ GroupEnd(t, k) < k + 4 => ~At(t, GroupEnd(t, k), HexDigit)
<1> DEFINE r == RunEnd(t, k, HexDigit)
<1>1. r \in k..(Len(t) + 1) /\ Run(t, k, r, HexDigit)
  BY RunEndIsRun
<1>2. GroupEnd(t, k) = IF r <= k + 4 THEN r ELSE k + 4
  BY <1>1, TextType, MinOfTwo DEF GroupEnd
<1> HIDE DEF r
<1> QED
  BY <1>1, <1>2, TextType DEF Run

GroupChar == HexDigit \cup {":"}

(* Groups and colons, with no dot but in an IPv4 address at the end. *)
GroupsShape(t, k, end) ==
    /\ end \in k..(Len(t) + 1)
    /\ end > k => At(t, end - 1, GroupChar)
    /\ \E m \in k..end : /\ \A x \in k..(m - 1) : At(t, x, GroupChar)
                         /\ \A x \in m..(end - 1) : At(t, x, is_ipv4_adjacent)

LEMMA GroupsShapeExtends ==
    ASSUME NEW t \in Text, NEW k \in Nat, NEW h \in Nat, k < h,
           \A x \in k..(h - 1) : At(t, x, GroupChar), NEW end, GroupsShape(t, h, end)
    PROVE  GroupsShape(t, k, end)
<1>1. PICK m \in h..end : /\ \A x \in h..(m - 1) : At(t, x, GroupChar)
                          /\ \A x \in m..(end - 1) : At(t, x, is_ipv4_adjacent)
  BY DEF GroupsShape
<1>2. end \in h..(Len(t) + 1) /\ (end > h => At(t, end - 1, GroupChar))
  BY DEF GroupsShape
<1>3. \A x \in k..(m - 1) : x \in k..(h - 1) \/ x \in h..(m - 1)
  BY <1>1
<1>4. \A x \in k..(m - 1) : At(t, x, GroupChar)
  BY <1>1, <1>3
<1>5. end = h => At(t, end - 1, GroupChar)
  <2>1. h - 1 \in k..(h - 1)
    OBVIOUS
  <2> QED
    BY <2>1
<1>6. m \in k..end /\ end \in k..(Len(t) + 1)
  BY <1>1, <1>2, TextType
<1>7. At(t, end - 1, GroupChar)
  BY <1>2, <1>5
<1> QED
  BY <1>1, <1>4, <1>6, <1>7 DEF GroupsShape

(* A stretch of hex digits and colons. *)
LEMMA GroupsShapeWithoutDots ==
    ASSUME NEW t \in Text, NEW k \in Nat \ {0}, NEW end \in Nat, k <= end,
           \A x \in k..(end - 1) : At(t, x, GroupChar), k <= Len(t) + 1
    PROVE  GroupsShape(t, k, end)
<1>1. end > k => At(t, end - 1, GroupChar)
  BY DEF At
<1>2. end \in k..(Len(t) + 1)
  BY <1>1, TextType
<1>3. end \in k..end /\ \A x \in end..(end - 1) : At(t, x, is_ipv4_adjacent)
  OBVIOUS
<1> QED
  BY <1>1, <1>2, <1>3 DEF GroupsShape

LEMMA ParsedIPv4Shape ==
    ASSUME NEW t \in Text, NEW k \in 1..(Len(t) + 1), try_parse_ipv4(t, k) # 0
    PROVE  /\ GroupsShape(t, k, try_parse_ipv4(t, k))
           /\ try_parse_ipv4(t, k) \in Nat /\ k < try_parse_ipv4(t, k)
<1> DEFINE end == try_parse_ipv4(t, k)
<1>1. PICK a, b, c \in Nat : Quad(t, k, a, b, c, end)
  BY ParsedIPv4
<1> HIDE DEF end
<1>2. k \in Nat
  BY TextType
<1>3. /\ end \in Nat /\ k < end /\ end <= Len(t) + 1 /\ At(t, end - 1, Digit)
      /\ \A x \in k..(end - 1) : At(t, x, is_ipv4_adjacent)
  BY <1>1, <1>2, QuadShape
<1>4. At(t, end - 1, GroupChar)
  BY <1>3, ClassesDiffer DEF At, GroupChar
<1>5. k \in k..end /\ end \in k..(Len(t) + 1) /\ \A x \in k..(k - 1) : At(t, x, GroupChar)
  BY <1>2, <1>3, TextType
<1> QED
  BY <1>3, <1>4, <1>5 DEF GroupsShape, end

LEMMA LayerShape ==
    ASSUME NEW t \in Text, NEW f, Layers(t, f), NEW n \in 0..7,
           n # 0 => \A x \in 1..(Len(t) + 1), d \in BOOLEAN :
                       GroupsShape(t, x, EndAt(f[n - 1], x, d)),
           NEW k \in 1..(Len(t) + 1), NEW double \in BOOLEAN
    PROVE  GroupsShape(t, k, EndAt(f[n], k, double))
<1> DEFINE end == GroupEnd(t, k)
           e == EndAt(f[n], k, double)
<1> SUFFICES GroupsShape(t, k, e)
  OBVIOUS
<1>1. /\ end \in Nat /\ k <= end /\ k \in Nat \ {0} /\ k <= Len(t) + 1
      /\ \A x \in k..(end - 1) : At(t, x, HexDigit)
  <2>1. /\ end \in k..(k + 4) /\ \A x \in k..(end - 1) : At(t, x, HexDigit)
    BY GroupEndIs, Zenon
  <2> HIDE DEF end
  <2> QED
    BY <2>1, TextType
<1>2. LayerStep(t, f, n, k, double, end, e)
  BY LayerIs
<1> HIDE DEF end, e
<1>3. \A x : At(t, x, HexDigit) \/ At(t, x, {":"}) => At(t, x, GroupChar)
  BY DEF At, GroupChar
<1>4. /\ \A x \in k..(end - 1) : At(t, x, GroupChar)
      /\ At(t, end, {":"}) => \A x \in k..((end + 1) - 1) : At(t, x, GroupChar)
      /\ At(t, end, {":"}) /\ At(t, end + 1, {":"})
            => \A x \in k..((end + 2) - 1) : At(t, x, GroupChar)
  <2>1. \A x \in k..((end + 1) - 1) : x \in k..(end - 1) \/ x = end
    BY <1>1
  <2>2. \A x \in k..((end + 2) - 1) : x \in k..(end - 1) \/ x = end \/ x = end + 1
    BY <1>1
  <2> QED
    BY <1>1, <1>3, <2>1, <2>2
<1>5. ASSUME NEW x \in 1..(Len(t) + 1), NEW d \in BOOLEAN
      PROVE  GroupsShape(t, x, EndAfter(f, n, x, d))
  <2>1. GroupsShape(t, x, x)
    BY TextType, GroupsShapeWithoutDots
  <2> QED
    BY <1>5, <2>1 DEF EndAfter
<1>6. CASE e = k
  BY <1>1, <1>4, <1>6, GroupsShapeWithoutDots
<1>7. CASE e = try_parse_ipv4(t, k) /\ try_parse_ipv4(t, k) # 0
  BY <1>7, ParsedIPv4Shape
<1>8. CASE e = end
  BY <1>1, <1>4, <1>8, GroupsShapeWithoutDots
<1>9. CASE At(t, end, {":"}) /\ At(t, end + 1, {":"}) /\ e = end + 2
  <2>1. end + 2 \in Nat /\ k <= end + 2
    BY <1>1
  <2> QED
    BY <1>1, <1>4, <1>9, <2>1, GroupsShapeWithoutDots
<1>10. CASE /\ At(t, end, {":"}) /\ At(t, end + 1, {":"}) /\ At(t, end + 2, HexDigit)
            /\ e = EndAfter(f, n, end + 2, TRUE)
  <2>1. end + 2 \in Nat /\ k < end + 2 /\ end + 2 \in 1..(Len(t) + 1) /\ k \in Nat
    BY <1>1, <1>10, TextType
  <2>2. GroupsShape(t, end + 2, e)
    BY <1>5, <1>10, <2>1
  <2> QED
    BY <1>4, <1>10, <2>1, <2>2, GroupsShapeExtends
<1>11. CASE /\ At(t, end, {":"}) /\ At(t, end + 1, HexDigit)
            /\ e = EndAfter(f, n, end + 1, double)
  <2>1. end + 1 \in Nat /\ k < end + 1 /\ end + 1 \in 1..(Len(t) + 1) /\ k \in Nat
    BY <1>1, <1>11, TextType
  <2>2. GroupsShape(t, end + 1, e)
    BY <1>5, <1>11, <2>1
  <2> QED
    BY <1>4, <1>11, <2>1, <2>2, GroupsShapeExtends
<1> QED
  BY <1>2, <1>6, <1>7, <1>8, <1>9, <1>10, <1>11 DEF LayerStep

LEMMA GroupsEndShape ==
    ASSUME NEW t \in Text, NEW k \in 1..(Len(t) + 1), NEW double \in BOOLEAN
    PROVE  GroupsShape(t, k, GroupsEnd(t)[k][double])
<1>1. PICK f : Layers(t, f) /\ GroupsEnd(t) = f[7]
  BY GroupsEndIsLayer
<1> DEFINE P(n) == \A x \in 1..(Len(t) + 1), d \in BOOLEAN :
                       GroupsShape(t, x, EndAt(f[n], x, d))
<1>2. ASSUME NEW n \in 0..7, n # 0 => P(n - 1) PROVE P(n)
  BY <1>1, <1>2, LayerShape
<1> HIDE DEF P
<1>3. P(0)
  BY <1>2
<1>4. \A n \in 1..7 : P(n - 1) => P(n)
  BY <1>2
<1>5. P(1) /\ P(2) /\ P(3)
  BY <1>3, <1>4
<1>6. P(4) /\ P(5)
  BY <1>4, <1>5
<1>7. P(6) /\ P(7)
  BY <1>4, <1>6
<1> QED
  BY <1>1, <1>7 DEF P, EndAt

LEMMA ColonsType ==
    ASSUME NEW t \in Text, NEW k \in Nat \ {0}, NEW e \in Nat, e <= Len(t) + 1
    PROVE  Colons(SubSeq(t, k, e - 1)) \in Nat
<1> DEFINE s == SubSeq(t, k, e - 1)
<1>1. \A x \in k..(e - 1) : t[x] \in Char
  BY TextType
<1>2. s \in Seq(Char)
  BY <1>1, TextType, SubSeqProperties
<1> HIDE DEF s
<1>3. DOMAIN s = 1..Len(s) /\ Len(s) \in Nat
  BY <1>2
<1>4. IsFiniteSet(1..Len(s))
  BY <1>3, FS_Interval
<1>5. IsFiniteSet({x \in DOMAIN s : s[x] = ":"})
  BY <1>3, <1>4, FS_Subset
<1> QED
  BY <1>5, FS_CardinalityType DEF Colons, s

(* What an IPv6 match looks like. *)
LEMMA IPv6Shape ==
    ASSUME NEW t \in Text, NEW k \in 1..Len(t), IPv6At(t, k) # 0
    PROVE  /\ IPv6At(t, k) = try_parse_ipv6(t, k)
           /\ GroupsShape(t, k, IPv6At(t, k)) /\ k < IPv6At(t, k)
           /\ At(t, k, GroupChar)
           /\ ~At(t, k - 1, GroupChar) /\ ~At(t, IPv6At(t, k), GroupChar)
           /\ Colons(SubSeq(t, k, IPv6At(t, k) - 1)) >= 2
<1> DEFINE e == try_parse_ipv6(t, k)
<1>1. IPv6At(t, k) = e /\ e # 0
      /\ ~At(t, k - 1, GroupChar) /\ ~At(t, e, GroupChar)
      /\ ~(Colons(SubSeq(t, k, e - 1)) < 2)
  BY DEF IPv6At, GroupChar
<1>2. /\ \/ /\ At(t, k, {":"}) /\ At(t, k + 1, {":"})
            /\ e = GroupsEnd(t)[k + 2][TRUE]
         \/ At(t, k, HexDigit) /\ e = GroupsEnd(t)[k][FALSE]
  BY <1>1 DEF try_parse_ipv6
<1> HIDE DEF e
<1>3. \A x : At(t, x, HexDigit) \/ At(t, x, {":"}) => At(t, x, GroupChar)
  BY DEF At, GroupChar
<1>4. GroupsShape(t, k, e)
  <2>1. CASE /\ At(t, k, {":"}) /\ At(t, k + 1, {":"})
             /\ e = GroupsEnd(t)[k + 2][TRUE]
    <3>1. k \in Nat /\ k + 2 \in Nat /\ k < k + 2 /\ k + 2 \in 1..(Len(t) + 1)
      BY <2>1, TextType
    <3>2. \A x \in k..((k + 2) - 1) : x = k \/ x = k + 1
      BY <3>1
    <3>3. \A x \in k..((k + 2) - 1) : At(t, x, GroupChar)
      BY <1>3, <2>1, <3>2
    <3>4. GroupsShape(t, k + 2, e)
      BY <2>1, <3>1, GroupsEndShape
    <3> QED
      BY <3>1, <3>3, <3>4, GroupsShapeExtends
  <2>2. CASE At(t, k, HexDigit) /\ e = GroupsEnd(t)[k][FALSE]
    <3>1. k \in 1..(Len(t) + 1)
      BY TextType
    <3> QED
      BY <2>2, <3>1, GroupsEndShape
  <2> QED
    BY <1>2, <2>1, <2>2
<1>5. At(t, k, GroupChar)
  BY <1>2, <1>3
<1>6. e \in k..(Len(t) + 1)
  BY <1>4 DEF GroupsShape
<1>7. k < e
  BY <1>1, <1>5, <1>6
<1>8. Colons(SubSeq(t, k, e - 1)) >= 2
  <2>1. Colons(SubSeq(t, k, e - 1)) \in Nat
    BY <1>6, TextType, ColonsType
  <2> QED
    BY <1>1, <2>1
<1> QED
  BY <1>1, <1>4, <1>5, <1>7, <1>8 DEF e
----------------------------------------------------------------------------
(* IPv6: where two texts agree, so do the groups in them.                     *)

LEMMA GroupEndUnique ==
    ASSUME NEW t \in Text, NEW k \in 1..(Len(t) + 1), NEW g \in k..(k + 4),
           \A x \in k..(g - 1) : At(t, x, HexDigit),
           g < k + 4 => ~At(t, g, HexDigit)
    PROVE  GroupEnd(t, k) = g
<1> DEFINE h == GroupEnd(t, k)
<1>1. /\ h \in k..(k + 4)
      /\ \A x \in k..(h - 1) : At(t, x, HexDigit)
      /\ h < k + 4 => ~At(t, h, HexDigit)
  BY GroupEndIs
<1> HIDE DEF h
<1>2. h \in Nat /\ g \in Nat /\ k \in Nat
  BY <1>1, TextType
<1>3. ~(h < g) /\ ~(g < h)
  BY <1>1, <1>2
<1>4. h = g
  BY <1>2, <1>3
<1> QED
  BY <1>4 DEF h

DotFree(t, lo, k) == \A x \in lo..(k - 1) : ~At(t, x, {"."})

(* The IPv4 addresses that the last group of an IPv6 address can be. *)
Alike(t, u, s, lo, hi) ==
    \A g \in lo..hi :
        DotFree(t, lo, g) =>
            try_parse_ipv4(u, g + s) =
                IF try_parse_ipv4(t, g) = 0 THEN 0 ELSE try_parse_ipv4(t, g) + s

LEMMA SameGroupEnd ==
    ASSUME NEW t \in Text, NEW u \in Text, NEW s \in Int, NEW k \in 1..(Len(t) + 1),
           k + s \in 1..(Len(u) + 1), NEW hi \in Nat, k <= hi,
           Same(t, u, s, k, hi), ~At(t, hi, HexDigit)
    PROVE  /\ GroupEnd(t, k) \in k..hi
           /\ GroupEnd(u, k + s) = GroupEnd(t, k) + s
<1> DEFINE h == GroupEnd(t, k)
<1>0. /\ h \in k..(k + 4)
      /\ \A x \in k..(h - 1) : At(t, x, HexDigit)
      /\ h < k + 4 => ~At(t, h, HexDigit)
  BY GroupEndIs
<1> HIDE DEF h
<1>1. /\ h \in k..(k + 4) /\ h \in Nat
      /\ \A x \in k..(h - 1) : At(t, x, HexDigit)
      /\ h < k + 4 => ~At(t, h, HexDigit)
  BY <1>0, TextType
<1>2. h <= hi
  BY <1>1
<1>3. k \in Nat /\ \A x \in k..hi : \A class : At(t, x, class) <=> At(u, x + s, class)
  BY TextType, SameAt
<1>4. h + s \in (k + s)..((k + s) + 4) /\ (h + s < (k + s) + 4 <=> h < k + 4)
  BY <1>1, <1>3
<1>5. ASSUME NEW x \in (k + s)..((h + s) - 1) PROVE At(u, x, HexDigit)
  <2>1. x - s \in k..(h - 1) /\ x - s \in k..hi /\ (x - s) + s = x
    BY <1>1, <1>2, <1>3
  <2> QED
    BY <1>1, <1>3, <2>1
<1>6. h + s < (k + s) + 4 => ~At(u, h + s, HexDigit)
  BY <1>1, <1>2, <1>3, <1>4
<1>7. GroupEnd(u, k + s) = h + s
  BY <1>4, <1>5, <1>6, GroupEndUnique
<1> QED
  BY <1>1, <1>2, <1>3, <1>7 DEF h

LEMMA SameDomain ==
    ASSUME NEW t \in Text, NEW u \in Text, NEW s \in Int, NEW lo \in 1..Len(t),
           lo + s \in Nat \ {0}, NEW hi \in Int, Same(t, u, s, lo, hi),
           NEW k \in lo..hi, k <= Len(t) + 1
    PROVE  k + s \in 1..(Len(u) + 1) /\ k \in 1..(Len(t) + 1)
<1>1. Len(t) \in Nat /\ Len(u) \in Nat /\ DOMAIN t = 1..Len(t) /\ DOMAIN u = 1..Len(u)
  BY TextType
<1>2. CASE k <= Len(t)
  <2>1. k \in DOMAIN t
    BY <1>1, <1>2
  <2>2. k + s \in DOMAIN u
    BY <2>1 DEF Same
  <2> QED
    BY <1>1, <2>1, <2>2
<1>3. CASE k = Len(t) + 1
  <2>1. k - 1 \in lo..hi /\ k - 1 \in DOMAIN t
    BY <1>1, <1>3
  <2>2. (k - 1) + s \in DOMAIN u
    BY <2>1 DEF Same
  <2> QED
    BY <1>1, <1>3, <2>2
<1> QED
  BY <1>1, <1>2, <1>3

(* The groups that end at hi in t when n more may follow do so in u. *)
Carried(t, u, s, lo, hi, f, g, n) ==
    \A x \in lo..hi, d \in BOOLEAN :
        x <= Len(t) + 1 /\ DotFree(t, lo, x) /\ EndAt(f[n], x, d) = hi
            => EndAt(g[n], x + s, d) = hi + s

LEMMA SameLayer ==
    ASSUME NEW t \in Text, NEW u \in Text, NEW s \in Int, NEW lo \in 1..Len(t),
           lo + s \in Nat \ {0}, NEW hi \in Nat, Same(t, u, s, lo, hi),
           ~At(t, hi, GroupChar), Alike(t, u, s, lo, hi),
           NEW f, Layers(t, f), NEW g, Layers(u, g), NEW n \in 0..7,
           n # 0 => Carried(t, u, s, lo, hi, f, g, n - 1)
    PROVE  Carried(t, u, s, lo, hi, f, g, n)
<1> SUFFICES ASSUME NEW k \in lo..hi, k <= Len(t) + 1, NEW double \in BOOLEAN,
                    DotFree(t, lo, k), EndAt(f[n], k, double) = hi
             PROVE  EndAt(g[n], k + s, double) = hi + s
  BY DEF Carried
<1> DEFINE h == GroupEnd(t, k)
           e == EndAt(g[n], k + s, double)
<1> SUFFICES e = hi + s
  OBVIOUS
<1>1. k + s \in 1..(Len(u) + 1) /\ k \in 1..(Len(t) + 1) /\ lo \in Nat /\ k \in Nat
  BY SameDomain, TextType
<1>2. LayerStep(t, f, n, k, double, h, hi)
  BY <1>1, LayerIs
<1>3. ~At(t, hi, HexDigit) /\ ~At(t, hi, {":"})
  BY DEF At, GroupChar
<1>4. h \in k..hi /\ GroupEnd(u, k + s) = h + s
  <2>1. Same(t, u, s, k, hi)
    BY <1>1, SameWithin
  <2> QED
    BY <1>1, <1>3, <2>1, SameGroupEnd
<1>5. LayerStep(u, g, n, k + s, double, h + s, e)
  BY <1>1, <1>4, LayerIs
<1>6. \A x \in k..(h - 1) : At(t, x, HexDigit)
  BY <1>1, GroupEndIs
<1> HIDE DEF h, e
<1>7. \A x \in lo..hi : \A class : At(t, x, class) <=> At(u, x + s, class)
  BY <1>1, SameAt
<1>8. h \in lo..hi /\ (h + s) - (k + s) = h - k /\ (h + s = k + s <=> h = k)
      /\ h \in Nat
  BY <1>1, <1>4
<1>9. ASSUME At(t, h, {":"}) PROVE h + 1 \in lo..hi /\ (h + s) + 1 = (h + 1) + s
  BY <1>3, <1>8, <1>9
<1>10. ASSUME At(t, h, {":"}), At(t, h + 1, {":"})
       PROVE  h + 2 \in lo..hi /\ (h + s) + 2 = (h + 2) + s
  <2>1. h + 1 # hi
    BY <1>3, <1>10
  <2> QED
    BY <1>8, <1>9, <1>10, <2>1
<1>11. /\ \A class : At(t, h, class) <=> At(u, h + s, class)
       /\ At(t, h, {":"}) =>
             \A class : At(t, h + 1, class) <=> At(u, (h + s) + 1, class)
       /\ At(t, h, {":"}) /\ At(t, h + 1, {":"}) =>
             \A class : At(t, h + 2, class) <=> At(u, (h + s) + 2, class)
  BY <1>7, <1>8, <1>9, <1>10
<1>12. try_parse_ipv4(u, k + s) =
           IF try_parse_ipv4(t, k) = 0 THEN 0 ELSE try_parse_ipv4(t, k) + s
  BY DEF Alike
<1>13. hi + s # 0
  BY <1>1
<1>14. "." \notin HexDigit
  BY ClassesDiffer
<1>15. /\ At(t, h, {":"}) => DotFree(t, lo, h + 1)
       /\ At(t, h, {":"}) /\ At(t, h + 1, {":"}) => DotFree(t, lo, h + 2)
  <2>1. \A x \in k..(h - 1) : ~At(t, x, {"."})
    BY <1>6, <1>14 DEF At
  <2>2. \A x : At(t, x, {":"}) => ~At(t, x, {"."})
    BY DEF At
  <2>3. \A x \in lo..((h + 1) - 1) : x \in lo..(k - 1) \/ x \in k..(h - 1) \/ x = h
    BY <1>1, <1>8
  <2>4. \A x \in lo..((h + 2) - 1) :
            x \in lo..(k - 1) \/ x \in k..(h - 1) \/ x = h \/ x = h + 1
    BY <1>1, <1>8
  <2> QED
    BY <2>1, <2>2, <2>3, <2>4 DEF DotFree
<1>16. ASSUME At(t, h, {":"}), At(t, h + 1, HexDigit), NEW d \in BOOLEAN,
              EndAfter(f, n, h + 1, d) = hi
       PROVE  EndAfter(g, n, (h + s) + 1, d) = hi + s
  <2>1. h + 1 \in lo..hi /\ (h + s) + 1 = (h + 1) + s /\ DotFree(t, lo, h + 1)
        /\ h + 1 <= Len(t) + 1
    BY <1>9, <1>15, <1>16, TextType
  <2> QED
    BY <1>16, <2>1 DEF EndAfter, Carried
<1>17. ASSUME At(t, h, {":"}), At(t, h + 1, {":"}), At(t, h + 2, HexDigit),
              EndAfter(f, n, h + 2, TRUE) = hi
       PROVE  EndAfter(g, n, (h + s) + 2, TRUE) = hi + s
  <2>1. h + 2 \in lo..hi /\ (h + s) + 2 = (h + 2) + s /\ DotFree(t, lo, h + 2)
        /\ h + 2 <= Len(t) + 1 /\ TRUE \in BOOLEAN
    BY <1>10, <1>15, <1>17, TextType
  <2> QED
    BY <1>17, <2>1 DEF EndAfter, Carried
<1>18. CASE h = k
  BY <1>2, <1>5, <1>8, <1>18 DEF LayerStep
<1>19. CASE h # k /\ At(t, h, {"."}) /\ h - k <= 3 /\ try_parse_ipv4(t, k) # 0
  <2>1. try_parse_ipv4(t, k) = hi
    BY <1>2, <1>19 DEF LayerStep
  <2>2. try_parse_ipv4(u, k + s) = hi + s
    BY <1>12, <1>19, <2>1
  <2> QED
    BY <1>5, <1>8, <1>11, <1>13, <1>19, <2>2 DEF LayerStep
<1>20. CASE h # k /\ ~(At(t, h, {"."}) /\ h - k <= 3 /\ try_parse_ipv4(t, k) # 0)
  <2>1. h + s # k + s
    BY <1>8, <1>20
  <2>2. ~(At(u, h + s, {"."}) /\ (h + s) - (k + s) <= 3 /\ try_parse_ipv4(u, k + s) # 0)
    BY <1>8, <1>11, <1>12, <1>20
  <2>3. CASE ~At(t, h, {":"})
    BY <1>2, <1>5, <1>11, <1>20, <2>1, <2>2, <2>3 DEF LayerStep
  <2>4. CASE At(t, h, {":"}) /\ At(t, h + 1, {":"})
    <3>1. /\ At(u, h + s, {":"}) /\ At(u, (h + s) + 1, {":"})
          /\ (h + s) + 2 = (h + 2) + s
          /\ At(t, h + 2, HexDigit) <=> At(u, (h + s) + 2, HexDigit)
      BY <1>10, <1>11, <2>4
    <3>2. hi = IF double THEN h
               ELSE IF At(t, h + 2, HexDigit) THEN EndAfter(f, n, h + 2, TRUE) ELSE h + 2
      BY <1>2, <1>20, <2>4 DEF LayerStep
    <3>3. e = IF double THEN h + s
              ELSE IF At(u, (h + s) + 2, HexDigit)
              THEN EndAfter(g, n, (h + s) + 2, TRUE) ELSE (h + s) + 2
      BY <1>5, <2>1, <2>2, <3>1 DEF LayerStep
    <3> QED
      BY <1>17, <2>4, <3>1, <3>2, <3>3
  <2>5. CASE At(t, h, {":"}) /\ ~At(t, h + 1, {":"})
    <3>1. /\ At(u, h + s, {":"}) /\ ~At(u, (h + s) + 1, {":"})
          /\ At(t, h + 1, HexDigit) <=> At(u, (h + s) + 1, HexDigit)
      BY <1>11, <2>5
    <3>2. hi = IF At(t, h + 1, HexDigit) THEN EndAfter(f, n, h + 1, double) ELSE h
      BY <1>2, <1>20, <2>5 DEF LayerStep
    <3>3. e = IF At(u, (h + s) + 1, HexDigit)
              THEN EndAfter(g, n, (h + s) + 1, double) ELSE h + s
      BY <1>5, <2>1, <2>2, <3>1 DEF LayerStep
    <3> QED
      BY <1>16, <2>5, <3>1, <3>2, <3>3
  <2> QED
    BY <2>3, <2>4, <2>5
<1> QED
  BY <1>18, <1>19, <1>20

GroupsSetting(t, u, s, lo, hi, k, double) ==
    /\ t \in Text /\ u \in Text /\ s \in Int /\ lo \in 1..Len(t)
    /\ lo + s \in Nat \ {0} /\ hi \in Nat /\ Same(t, u, s, lo, hi)
    /\ ~At(t, hi, GroupChar) /\ Alike(t, u, s, lo, hi)
    /\ k \in lo..hi /\ k <= Len(t) + 1 /\ double \in BOOLEAN
    /\ DotFree(t, lo, k) /\ GroupsEnd(t)[k][double] = hi

LEMMA SameGroups ==
    ASSUME NEW t, NEW u, NEW s \in Int, NEW lo, NEW hi \in Nat, NEW k \in Nat,
           NEW double, GroupsSetting(t, u, s, lo, hi, k, double)
    PROVE  GroupsEnd(u)[k + s][double] = hi + s
<1> SUFFICES ASSUME t \in Text, u \in Text, lo \in 1..Len(t),
                    lo + s \in Nat \ {0}, Same(t, u, s, lo, hi),
                    ~At(t, hi, GroupChar), Alike(t, u, s, lo, hi),
                    k \in lo..hi, k <= Len(t) + 1, double \in BOOLEAN,
                    DotFree(t, lo, k), GroupsEnd(t)[k][double] = hi
             PROVE  GroupsEnd(u)[k + s][double] = hi + s
  BY DEF GroupsSetting
<1>1. PICK f : Layers(t, f) /\ GroupsEnd(t) = f[7]
  BY GroupsEndIsLayer
<1>2. PICK g : Layers(u, g) /\ GroupsEnd(u) = g[7]
  BY GroupsEndIsLayer
<1> DEFINE P(n) == Carried(t, u, s, lo, hi, f, g, n)
<1>3. ASSUME NEW n \in 0..7, n # 0 => P(n - 1) PROVE P(n)
  BY <1>1, <1>2, <1>3, SameLayer
<1> HIDE DEF P
<1>4. P(0)
  BY <1>3
<1>5. \A n \in 1..7 : P(n - 1) => P(n)
  BY <1>3
<1>6. P(1) /\ P(2) /\ P(3)
  BY <1>4, <1>5
<1>7. P(4) /\ P(5)
  BY <1>5, <1>6
<1>8. P(6) /\ P(7)
  BY <1>5, <1>7
<1>9. EndAt(f[7], k, double) = hi => EndAt(g[7], k + s, double) = hi + s
  BY <1>8 DEF P, Carried
<1> QED
  BY <1>1, <1>2, <1>9 DEF EndAt

LEMMA SameIPv6 ==
    ASSUME NEW t \in Text, NEW u \in Text, NEW s \in Int, NEW k \in 1..Len(t),
           k + s \in Nat \ {0}, NEW e, e = IPv6At(t, k), e # 0,
           Same(t, u, s, k - 1, e), Alike(t, u, s, k, e)
    PROVE  IPv6At(u, k + s) = e + s
<1>1. /\ e = try_parse_ipv6(t, k) /\ GroupsShape(t, k, e) /\ k < e
      /\ ~At(t, k - 1, GroupChar) /\ ~At(t, e, GroupChar)
      /\ Colons(SubSeq(t, k, e - 1)) >= 2
  BY IPv6Shape
<1>2. e \in Nat /\ e <= Len(t) + 1 /\ k \in Nat \ {0}
  BY <1>1, TextType DEF GroupsShape
<1>3. Same(t, u, s, k, e) /\ Same(t, u, s, k, e - 1)
  BY <1>2, SameWithin
<1>4. \A x \in (k - 1)..e : \A class : At(t, x, class) <=> At(u, x + s, class)
  BY <1>2, SameAt
<1>5. /\ \A class : At(t, k, class) <=> At(u, k + s, class)
      /\ \A class : At(t, k + 1, class) <=> At(u, (k + s) + 1, class)
      /\ \A class : At(t, e, class) <=> At(u, e + s, class)
      /\ \A class : At(t, k - 1, class) <=> At(u, (k + s) - 1, class)
  <2>1. /\ k \in (k - 1)..e /\ k + 1 \in (k - 1)..e /\ e \in (k - 1)..e
        /\ k - 1 \in (k - 1)..e /\ (k + 1) + s = (k + s) + 1
        /\ (k - 1) + s = (k + s) - 1
    BY <1>1, <1>2
  <2>2. /\ \A class : At(t, k, class) <=> At(u, k + s, class)
        /\ \A class : At(t, k + 1, class) <=> At(u, (k + 1) + s, class)
        /\ \A class : At(t, e, class) <=> At(u, e + s, class)
        /\ \A class : At(t, k - 1, class) <=> At(u, (k - 1) + s, class)
    BY <1>4, <2>1, Zenon
  <2> QED
    BY <2>1, <2>2
<1>6. try_parse_ipv6(u, k + s) = e + s
  <2>1. CASE At(t, k, {":"}) /\ At(t, k + 1, {":"})
    <3>1. e = GroupsEnd(t)[k + 2][TRUE]
      BY <1>1, <2>1 DEF try_parse_ipv6
    <3>2. k + 1 # e
      BY <1>1, <2>1 DEF At, GroupChar
    <3>3. k + 2 \in k..e /\ k + 2 <= Len(t) + 1 /\ (k + 2) + s = (k + s) + 2
      BY <1>1, <1>2, <2>1, <3>2, TextType
    <3>4. DotFree(t, k, k + 2)
      <4>1. \A x \in k..((k + 2) - 1) : x = k \/ x = k + 1
        BY <1>2
      <4> QED
        BY <2>1, <4>1 DEF DotFree, At
    <3>5. GroupsEnd(u)[(k + 2) + s][TRUE] = e + s
      <4>1. k + 2 <= Len(t) + 1 /\ TRUE \in BOOLEAN
        BY <3>3
      <4>2. k \in 1..Len(t) /\ k + 2 \in k..e /\ k + 2 \in Nat
        BY <1>2, <3>3
      <4>3. GroupsSetting(t, u, s, k, e, k + 2, TRUE)
        BY <1>1, <1>2, <1>3, <3>1, <3>4, <4>1, <4>2 DEF GroupsSetting
      <4>4. \A d : GroupsSetting(t, u, s, k, e, k + 2, d)
                         => GroupsEnd(u)[(k + 2) + s][d] = e + s
        BY <1>2, <4>2, SameGroups
      <4> QED
        BY <4>3, <4>4, Zenon
    <3> QED
      BY <1>5, <2>1, <3>3, <3>5 DEF try_parse_ipv6
  <2>2. CASE ~(At(t, k, {":"}) /\ At(t, k + 1, {":"})) /\ At(t, k, HexDigit)
    <3>1. e = GroupsEnd(t)[k][FALSE]
      BY <1>1, <2>2 DEF try_parse_ipv6
    <3>2. k \in k..e /\ k <= Len(t) + 1 /\ DotFree(t, k, k)
      BY <1>1, <1>2, TextType DEF DotFree
    <3>3. GroupsEnd(u)[k + s][FALSE] = e + s
      <4>1. k \in 1..Len(t) /\ FALSE \in BOOLEAN
        OBVIOUS
      <4>2. GroupsSetting(t, u, s, k, e, k, FALSE)
        BY <1>1, <1>2, <1>3, <3>1, <3>2, <4>1 DEF GroupsSetting
      <4>3. \A d : GroupsSetting(t, u, s, k, e, k, d) => GroupsEnd(u)[k + s][d] = e + s
        BY <1>2, SameGroups
      <4> QED
        BY <4>2, <4>3, Zenon
    <3> QED
      BY <1>5, <2>2, <3>3 DEF try_parse_ipv6
  <2> QED
    BY <1>1, <2>1, <2>2 DEF try_parse_ipv6
<1>7. SubSeq(u, k + s, (e + s) - 1) = SubSeq(t, k, e - 1)
  <2>1. k <= e
    BY <1>1, <1>2
  <2> QED
    <3>1. Piece(t, u, s, k, e)
      BY <1>2, <1>3, <2>1 DEF Piece
    <3>2. \A a \in Nat, b \in Nat :
             Piece(t, u, s, a, b) => SubSeq(u, a + s, (b + s) - 1) = SubSeq(t, a, b - 1)
      BY SamePiece
    <3>3. k \in Nat /\ e \in Nat
      BY <1>2
    <3> QED
      BY <3>1, <3>2, <3>3, Zenon
<1>8. ~(Colons(SubSeq(u, k + s, (e + s) - 1)) < 2)
  <2>1. Colons(SubSeq(t, k, e - 1)) \in Nat
    BY <1>2, ColonsType
  <2>2. PICK c \in Nat : c = Colons(SubSeq(t, k, e - 1))
    BY <2>1
  <2>3. ~(c < 2)
    BY <1>1, <2>2
  <2>4. Colons(SubSeq(u, k + s, (e + s) - 1)) = c
    BY <1>7, <2>2, Zenon
  <2> QED
    BY <2>3, <2>4, Zenon
<1> QED
  BY <1>1, <1>5, <1>6, <1>8 DEF IPv6At, GroupChar
----------------------------------------------------------------------------
(* A pass at work: its output, followed by the text it has not read yet.      *)

Joined(r, t, j) == r \o SubSeq(t, j, Len(t))

Out == Joined(result, input, i)

LEMMA JoinedIs ==
    ASSUME NEW r \in Text, NEW t \in Text, NEW j \in 1..(Len(t) + 1)
    PROVE  /\ Joined(r, t, j) \in Text
           /\ Len(Joined(r, t, j)) = Len(r) + ((Len(t) - j) + 1)
           /\ \A x \in 1..Len(r) : Joined(r, t, j)[x] = r[x]
           /\ \A x \in (Len(r) + 1)..(Len(r) + ((Len(t) - j) + 1)) :
                 Joined(r, t, j)[x] = t[x + ((j - 1) - Len(r))]
<1> DEFINE q == SubSeq(t, j, Len(t))
<1>1. j \in Nat \ {0} /\ Len(t) \in Nat /\ Len(r) \in Nat /\ j <= Len(t) + 1
  BY TextType
<1>2. \A x \in j..Len(t) : t[x] \in Char
  BY <1>1, TextType
<1>3. /\ q \in Seq(Char) /\ Len(q) = (Len(t) - j) + 1
      /\ \A x \in 1..((Len(t) - j) + 1) : q[x] = t[j + x - 1]
  <2>1. /\ q \in Seq(Char)
        /\ Len(q) = IF j <= Len(t) THEN Len(t) - j + 1 ELSE 0
        /\ \A x \in 1..(Len(t) - j + 1) : q[x] = t[j + x - 1]
    BY <1>1, <1>2, SubSeqProperties
  <2>2. j = Len(t) + 1 \/ j <= Len(t)
    BY <1>1
  <2> QED
    BY <1>1, <2>1, <2>2
<1>4. /\ r \o q \in Seq(Char) /\ Len(r \o q) = Len(r) + Len(q)
      /\ \A x \in 1..(Len(r) + Len(q)) :
            (r \o q)[x] = IF x <= Len(r) THEN r[x] ELSE q[x - Len(r)]
  BY <1>3, ConcatProperties DEF Text
<1> HIDE DEF q
<1>5. \A x \in 1..Len(r) : (r \o q)[x] = r[x]
  BY <1>1, <1>3, <1>4
<1>6. ASSUME NEW x \in (Len(r) + 1)..(Len(r) + ((Len(t) - j) + 1))
      PROVE  (r \o q)[x] = t[x + ((j - 1) - Len(r))]
  <2>1. /\ x \in 1..(Len(r) + Len(q)) /\ ~(x <= Len(r))
        /\ x - Len(r) \in 1..((Len(t) - j) + 1)
        /\ j + (x - Len(r)) - 1 = x + ((j - 1) - Len(r))
    BY <1>1, <1>3
  <2> QED
    BY <1>3, <1>4, <2>1
<1> QED
  BY <1>3, <1>4, <1>5, <1>6 DEF Joined, q, Text

(* What has not been read is in the output as it is in the text. *)
LEMMA JoinedSame ==
    ASSUME NEW r \in Text, NEW t \in Text, NEW j \in 1..(Len(t) + 1),
           NEW lo \in Int, lo > Len(r), NEW hi \in Int
    PROVE  /\ Same(Joined(r, t, j), t, (j - 1) - Len(r), lo, hi)
           /\ Same(t, Joined(r, t, j), Len(r) - (j - 1), lo + ((j - 1) - Len(r)), hi)
<1> DEFINE w == Joined(r, t, j)
           s == (j - 1) - Len(r)
<1>1. j \in Nat \ {0} /\ Len(t) \in Nat /\ Len(r) \in Nat /\ j <= Len(t) + 1
  BY TextType
<1>2. /\ w \in Text /\ Len(w) = Len(r) + ((Len(t) - j) + 1)
      /\ \A x \in (Len(r) + 1)..(Len(r) + ((Len(t) - j) + 1)) : w[x] = t[x + s]
  BY JoinedIs
<1>3. DOMAIN w = 1..Len(w) /\ DOMAIN t = 1..Len(t)
  BY <1>2, TextType
<1>4. s \in Int /\ s = (j - 1) - Len(r) /\ Len(r) - (j - 1) = 0 - s
  BY <1>1
<1> HIDE DEF w
<1>5. \A x \in Int : x > Len(r) => /\ x \in DOMAIN w <=> x + s \in DOMAIN t
                                   /\ x \in DOMAIN w => w[x] = t[x + s]
  <2> SUFFICES ASSUME NEW x \in Int, x > Len(r)
               PROVE  /\ x \in DOMAIN w <=> x + s \in DOMAIN t
                      /\ x \in DOMAIN w => w[x] = t[x + s]
    OBVIOUS
  <2> HIDE DEF s
  <2>1. x \in 1..Len(w) <=> x \in (Len(r) + 1)..(Len(r) + ((Len(t) - j) + 1))
    BY <1>1, <1>2
  <2>2. x \in 1..Len(w) <=> x + s \in 1..Len(t)
    BY <1>1, <1>2, <1>4
  <2> QED
    BY <1>2, <1>3, <2>1, <2>2
<1>6. Same(w, t, s, lo, hi)
  BY <1>1, <1>5 DEF Same
<1>7. ASSUME NEW x \in (lo + s)..hi
      PROVE  /\ x \in DOMAIN t <=> x + (0 - s) \in DOMAIN w
             /\ x \in DOMAIN t => t[x] = w[x + (0 - s)]
  <2>1. x - s \in Int /\ x - s > Len(r) /\ (x - s) + s = x /\ x + (0 - s) = x - s
    BY <1>1, <1>4
  <2> HIDE DEF s
  <2> QED
    BY <1>5, <2>1
<1>8. Same(t, w, 0 - s, lo + s, hi)
  BY <1>7 DEF Same
<1> QED
  BY <1>4, <1>6, <1>8 DEF w

(* The end of the output and what follows it cannot be one pattern. *)
Border(r, t, j) ==
    \/ j = 1 /\ r = <<>>
    \/ At(r, Len(r), {"]"}) /\ ~At(t, j, Digit)

LEMMA UnreadSame ==
    ASSUME NEW r \in Text, NEW t \in Text, NEW j \in 1..(Len(t) + 1), NEW k \in Nat,
           k > Len(r) + 1 \/ (k > Len(r) /\ j = 1 /\ r = <<>>), NEW hi \in Int
    PROVE  Same(Joined(r, t, j), t, (j - 1) - Len(r), k - 1, hi)
<1> DEFINE w == Joined(r, t, j)
           s == (j - 1) - Len(r)
<1>1. CASE k > Len(r) + 1
  <2>1. k - 1 \in Int /\ k - 1 > Len(r)
    BY <1>1, TextType
  <2> QED
    BY <2>1, JoinedSame
<1>2. CASE k > Len(r) /\ j = 1 /\ r = <<>>
  <2>0. Len(<<>>) = 0
    OBVIOUS
  <2>1. Len(r) = 0 /\ s = 0
    <3>1. Len(r) = 0 /\ j = 1
      BY <1>2, <2>0, Zenon
    <3>2. (1 - 1) - 0 = 0
      OBVIOUS
    <3> QED
      BY <3>1, <3>2, Zenon
  <2>2. Same(w, t, s, 1, hi)
    BY <2>1, JoinedSame
  <2>3. 0 \notin DOMAIN w /\ 0 \notin DOMAIN t
    <3>1. w \in Text
      BY JoinedIs
    <3> HIDE DEF w
    <3>2. DOMAIN w = 1..Len(w) /\ DOMAIN t = 1..Len(t) /\ Len(w) \in Nat /\ Len(t) \in Nat
      BY <3>1, TextType
    <3> QED
      BY <3>2
  <2> HIDE DEF w, s
  <2>4. \A x \in (k - 1)..hi : x = 0 \/ x \in 1..hi
    BY <1>2, <2>1
  <2> QED
    BY <2>1, <2>2, <2>3, <2>4 DEF Same, w, s
<1> QED
  BY <1>1, <1>2

(* A match in the unread part of the output is a match in the text. *)
LEMMA UnreadMatch ==
    ASSUME NEW r \in Text, NEW t \in Text, NEW j \in 1..(Len(t) + 1), Border(r, t, j),
           NEW q \in {"ipv4", "emails", "dob"}, NEW k \in Nat, k > Len(r),
           k <= Len(Joined(r, t, j)), MatchAt(q, Joined(r, t, j), k) # 0
    PROVE  /\ k + ((j - 1) - Len(r)) \in j..Len(t)
           /\ MatchAt(q, t, k + ((j - 1) - Len(r))) # 0
<1> DEFINE w == Joined(r, t, j)
           s == (j - 1) - Len(r)
<1>1. j \in Nat \ {0} /\ Len(t) \in Nat /\ Len(r) \in Nat /\ w \in Text /\ Len(w) \in Nat
      /\ Len(w) = Len(r) + ((Len(t) - j) + 1)
  BY JoinedIs, TextType
<1>2. s \in Int /\ k + s \in j..Len(t) /\ k + s \in Nat \ {0} /\ k \in Nat \ {0}
      /\ k \in 1..Len(w) /\ k + s \in 1..Len(t) /\ k \in 1..(Len(w) + 1)
      /\ k + s \in 1..(Len(t) + 1)
  BY <1>1
<1>3. \A class : At(w, k, class) <=> At(t, k + s, class)
  <2>1. Same(w, t, s, k, k)
    BY <1>2, JoinedSame
  <2> QED
    BY <1>2, <2>1, SameAt
<1>4. k = Len(r) + 1 => k + s = j
  BY <1>1
<1>5. k = Len(r) + 1 /\ At(w, k, Digit) => j = 1 /\ r = <<>>
  BY <1>3, <1>4 DEF Border
<1>6. k = Len(r) + 1 /\ At(w, k - 1, is_email_local_char) => j = 1 /\ r = <<>>
  <2>1. ASSUME k = Len(r) + 1, At(w, k - 1, is_email_local_char), At(r, Len(r), {"]"})
        PROVE  FALSE
    <3>1. k - 1 = Len(r) /\ Len(r) \in 1..Len(r)
      BY <1>1, <2>1, TextType
    <3>2. w[Len(r)] = r[Len(r)]
      BY <3>1, JoinedIs
    <3>3. r[Len(r)] = "]" /\ w[Len(r)] \in is_email_local_char
      BY <2>1, <3>1 DEF At
    <3> QED
      BY <3>2, <3>3, ClassesDiffer DEF is_email_local_char
  <2> QED
    BY <2>1 DEF Border
<1>7. k > Len(r) + 1 \/ k = Len(r) + 1
  BY <1>1
<1>8. \A hi \in Int :
         At(w, k, Digit) \/ At(w, k - 1, is_email_local_char) => Same(w, t, s, k - 1, hi)
  <2> SUFFICES ASSUME At(w, k, Digit) \/ At(w, k - 1, is_email_local_char), NEW hi \in Int
               PROVE  Same(w, t, s, k - 1, hi)
    OBVIOUS
  <2>1. k > Len(r) + 1 \/ (k > Len(r) /\ j = 1 /\ r = <<>>)
    <3> HIDE DEF w, s
    <3>1. CASE k = Len(r) + 1
      BY <1>5, <1>6, <3>1, Zenon
    <3> QED
      BY <1>7, <3>1
  <2> QED
    BY <2>1, UnreadSame
<1> HIDE DEF w, s
<1>9. ASSUME q = "ipv4" PROVE MatchAt(q, t, k + s) # 0
  <2> DEFINE end == IPv4At(w, k)
  <2>1. end # 0
    BY <1>9 DEF MatchAt, w
  <2>2. IPv4Is(w, k, end)
    BY <1>1, <1>2, <2>1, MatchedIPv4
  <2> HIDE DEF end
  <2>3. end \in Nat /\ At(w, k, Digit)
    BY <1>1, <1>2, <2>2, IPv4Shape
  <2>4. Same(w, t, s, k - 1, end)
    BY <1>8, <2>3
  <2>5. IPv4Is(t, k + s, end + s)
    BY <1>1, <1>2, <2>2, <2>4, SameIPv4
  <2>6. IPv4At(t, k + s) # 0
    BY <1>2, <2>5, MatchedIPv4
  <2> QED
    BY <1>9, <2>6 DEF MatchAt
<1>10. ASSUME q = "emails" PROVE MatchAt(q, t, k + s) # 0
  <2> DEFINE end == EmailAt(w, k)
  <2>1. end # 0
    BY <1>10 DEF MatchAt, w
  <2>2. EmailIs(w, k, end)
    BY <1>1, <1>2, <2>1, MatchedEmail
  <2> HIDE DEF end
  <2>3. end \in Nat /\ At(w, k - 1, is_email_local_char)
    BY <1>1, <1>2, <2>2, EmailShapes DEF EmailIs
  <2>4. Same(w, t, s, k - 1, end)
    BY <1>8, <2>3
  <2>5. EmailIs(t, k + s, end + s)
    BY <1>1, <1>2, <2>2, <2>4, SameEmail
  <2>6. EmailAt(t, k + s) # 0
    BY <1>2, <2>5, MatchedEmail
  <2> QED
    BY <1>10, <2>6 DEF MatchAt
<1>11. ASSUME q = "dob" PROVE MatchAt(q, t, k + s) # 0
  <2>1. DateAt(w, k) # 0
    BY <1>11 DEF MatchAt, w
  <2>2. At(w, k, Digit)
    BY <1>1, <2>1, DateShape
  <2>3. Same(w, t, s, k - 1, k + 13) /\ Same(w, t, s, k - 1, k + 10)
    BY <1>2, <1>8, <2>2
  <2>4. TimeFollows(t, (k + s) + 10) => TimeFollows(w, k + 10)
    <3>1. /\ k + 11 \in Nat \ {0} /\ (k + 11) + s \in Nat \ {0}
          /\ k + 13 >= (k + 11) + (2 - 1) /\ (k + 11) + s = ((k + s) + 10) + 1
          /\ (k + 10) + 1 = k + 11 /\ (k + 10) + 3 = k + 13
          /\ (k + 10) + s = (k + s) + 10 /\ (k + 13) + s = ((k + s) + 10) + 3
          /\ k + 10 \in (k - 1)..(k + 13) /\ k + 13 \in (k - 1)..(k + 13)
      BY <1>2
    <3>2. Same(w, t, s, k + 11, k + 13)
      BY <1>2, <2>3, SameWithin
    <3>3. Digits(w, k + 11, 2) <=> Digits(t, (k + 11) + s, 2)
      <4> DEFINE y == k + 11
      <4>1. /\ y \in Nat \ {0} /\ y + s \in Nat \ {0} /\ k + 13 \in Int
            /\ 2 \in Nat \ {0} /\ k + 13 >= y + (2 - 1) /\ Same(w, t, s, y, k + 13)
        BY <1>2, <3>1, <3>2
      <4>3. s \in Int
        BY <1>1 DEF s
      <4> HIDE DEF y
      <4>2. Digits(w, y, 2) <=> Digits(t, y + s, 2)
        BY <1>1, <4>1, <4>3, SameNumber, SMTT(30)
      <4> QED
        BY <4>2 DEF y
    <3>4. /\ \A class : At(w, k + 10, class) <=> At(t, (k + 10) + s, class)
          /\ \A class : At(w, k + 13, class) <=> At(t, (k + 13) + s, class)
      BY <1>2, <2>3, <3>1, SameAt
    <3> QED
      BY <3>1, <3>3, <3>4 DEF TimeFollows
  <2>5. DateAt(t, k + s) # 0
    BY <1>1, <1>2, <2>1, <2>3, <2>4, SameDate
  <2> QED
    BY <1>11, <2>5 DEF MatchAt
<1>12. MatchAt(q, t, k + s) # 0
  BY <1>9, <1>10, <1>11
<1> QED
  BY <1>2, <1>12 DEF s
----------------------------------------------------------------------------
(* A redaction, as an edit of the output and the unread text.                 *)

LEMMA CopiedIs ==
    ASSUME NEW r \in Text, NEW t \in Text, NEW j \in 1..(Len(t) + 1), NEW k \in j..(Len(t) + 1)
    PROVE  /\ r \o SubSeq(t, j, k - 1) \in Text
           /\ Len(r \o SubSeq(t, j, k - 1)) = Len(r) + (k - j)
           /\ \A x \in 1..(Len(r) + (k - j)) :
                 (r \o SubSeq(t, j, k - 1))[x] = Joined(r, t, j)[x]
<1> DEFINE q == SubSeq(t, j, k - 1)
           copied == r \o q
<1>1. j \in Nat \ {0} /\ Len(t) \in Nat /\ Len(r) \in Nat /\ k \in Nat /\ j <= k
      /\ k <= Len(t) + 1
  BY TextType
<1>2. \A x \in j..(k - 1) : t[x] \in Char
  BY <1>1, TextType
<1>3. /\ q \in Seq(Char) /\ Len(q) = k - j
      /\ \A x \in 1..(k - j) : q[x] = t[j + x - 1]
  <2>1. /\ q \in Seq(Char)
        /\ Len(q) = IF j <= k - 1 THEN (k - 1) - j + 1 ELSE 0
        /\ \A x \in 1..((k - 1) - j + 1) : q[x] = t[j + x - 1]
    BY <1>1, <1>2, SubSeqProperties
  <2>2. j = k \/ j <= k - 1
    BY <1>1
  <2> QED
    BY <1>1, <2>1, <2>2
<1>4. /\ r \o q \in Seq(Char) /\ Len(r \o q) = Len(r) + Len(q)
      /\ \A x \in 1..(Len(r) + Len(q)) :
            (r \o q)[x] = IF x <= Len(r) THEN r[x] ELSE q[x - Len(r)]
  BY <1>3, ConcatProperties DEF Text
<1> HIDE DEF q
<1>5. copied = r \o q
  OBVIOUS
<1> HIDE DEF copied
<1>6. \A x \in 1..Len(r) : copied[x] = r[x]
  BY <1>1, <1>3, <1>4, <1>5
<1>7. ASSUME NEW x \in 1..(Len(r) + (k - j)) PROVE copied[x] = Joined(r, t, j)[x]
  <2>1. CASE x <= Len(r)
    BY <1>1, <1>6, <2>1, JoinedIs
  <2>2. CASE ~(x <= Len(r))
    <3>1. /\ x \in 1..(Len(r) + Len(q)) /\ x - Len(r) \in 1..(k - j)
          /\ j + (x - Len(r)) - 1 = x + ((j - 1) - Len(r))
          /\ x \in (Len(r) + 1)..(Len(r) + ((Len(t) - j) + 1))
      <4>1. x \in Nat /\ x > Len(r) /\ x <= Len(r) + (k - j)
        BY <1>1, <2>2
      <4>2. x \in 1..(Len(r) + Len(q)) /\ x - Len(r) \in 1..(k - j)
        BY <1>1, <1>3, <4>1
      <4>3. x <= Len(r) + ((Len(t) - j) + 1)
        BY <1>1, <4>1
      <4> QED
        BY <1>1, <4>1, <4>2, <4>3
    <3>2. copied[x] = t[x + ((j - 1) - Len(r))]
      BY <1>3, <1>4, <1>5, <2>2, <3>1
    <3> QED
      BY <3>1, <3>2, JoinedIs
  <2> QED
    BY <2>1, <2>2
<1> QED
  BY <1>3, <1>4, <1>5, <1>7 DEF Text, copied, q

LEMMA PoppedIs ==
    ASSUME NEW c \in Text, NEW n \in 0..Len(c)
    PROVE  /\ Pop(c, n) \in Text /\ Len(Pop(c, n)) = Len(c) - n
           /\ \A x \in 1..(Len(c) - n) : Pop(c, n)[x] = c[x]
<1>1. Len(c) \in Nat /\ n \in Nat /\ n <= Len(c)
  BY TextType
<1>2. \A x \in 1..(Len(c) - n) : c[x] \in Char
  BY <1>1, TextType
<1>3. /\ Pop(c, n) \in Seq(Char)
      /\ Len(Pop(c, n)) = IF 1 <= Len(c) - n THEN (Len(c) - n) - 1 + 1 ELSE 0
      /\ \A x \in 1..((Len(c) - n) - 1 + 1) : Pop(c, n)[x] = c[1 + x - 1]
  BY <1>1, <1>2, SubSeqProperties DEF Pop
<1> QED
  BY <1>1, <1>3 DEF Text

(* The output of a redaction: as far as a - 1 what it was, then P. *)
Rewritten(w, v, a, P) ==
    /\ v \in Text /\ Len(v) = (a - 1) + Len(P)
    /\ \A x \in 1..(a - 1) : v[x] = w[x]
    /\ \A x \in 1..Len(P) : v[(a - 1) + x] = P[x]

LEMMA RewrittenIs ==
    ASSUME NEW r \in Text, NEW t \in Text, NEW j \in 1..(Len(t) + 1), NEW k \in j..(Len(t) + 1),
           NEW n \in 0..(Len(r) + (k - j)), NEW P \in Text
    PROVE  Rewritten(Joined(r, t, j), Pop(r \o SubSeq(t, j, k - 1), n) \o P,
                     (Len(r) + ((k - j) - n)) + 1, P)
<1> DEFINE w == Joined(r, t, j)
           c == r \o SubSeq(t, j, k - 1)
           p == Pop(c, n)
           a == (Len(r) + ((k - j) - n)) + 1
           v == p \o P
<1>1. /\ Len(r) \in Nat /\ Len(P) \in Nat /\ j \in Nat /\ k \in Nat /\ n \in Nat
      /\ j <= k /\ n <= Len(r) + (k - j)
  BY TextType
<1>2. a - 1 \in Nat /\ a - 1 = (Len(r) + (k - j)) - n
  BY <1>1
<1> HIDE DEF w, c, p, a
<1>3. /\ c \in Text /\ Len(c) = Len(r) + (k - j)
      /\ \A x \in 1..(Len(r) + (k - j)) : c[x] = w[x]
  BY CopiedIs DEF w, c
<1>4. Len(c) = Len(r) + (k - j) /\ n \in 0..Len(c) /\ Len(c) - n = a - 1
  BY <1>1, <1>2, <1>3
<1>5. p \in Text /\ Len(p) = a - 1 /\ \A x \in 1..(a - 1) : p[x] = c[x]
  BY <1>3, <1>4, PoppedIs DEF p
<1>6. ASSUME NEW x \in 1..(a - 1) PROVE p[x] = w[x]
  <2>1. x \in 1..(Len(r) + (k - j))
    BY <1>1, <1>2
  <2> QED
    BY <1>3, <1>5, <2>1
<1>7. /\ v \in Seq(Char) /\ Len(v) = Len(p) + Len(P)
      /\ \A x \in 1..(Len(p) + Len(P)) : v[x] = IF x <= Len(p) THEN p[x] ELSE P[x - Len(p)]
  BY <1>5, ConcatProperties DEF Text
<1> HIDE DEF v
<1>8. v \in Text /\ Len(v) = (a - 1) + Len(P)
  BY <1>5, <1>7 DEF Text
<1>9. ASSUME NEW x \in 1..(a - 1) PROVE v[x] = w[x]
  <2>1. x \in 1..(Len(p) + Len(P)) /\ x <= Len(p)
    BY <1>1, <1>2, <1>5
  <2> QED
    BY <1>6, <1>7, <2>1
<1>10. ASSUME NEW x \in 1..Len(P) PROVE v[(a - 1) + x] = P[x]
  <2>1. Len(p) \in Nat /\ Len(P) \in Nat /\ Len(p) = a - 1
    BY <1>1, <1>2, <1>5
  <2>2. /\ Len(p) + x \in 1..(Len(p) + Len(P)) /\ ~(Len(p) + x <= Len(p))
        /\ (Len(p) + x) - Len(p) = x
    BY <2>1
  <2>3. v[Len(p) + x] = P[x]
    BY <1>7, <2>2
  <2> QED
    BY <2>1, <2>3
<1>11. Rewritten(w, v, a, P)
  BY <1>8, <1>9, <1>10 DEF Rewritten
<1> QED
  BY <1>11 DEF w, c, p, a, v

(* Where things are after a redaction, in numbers: R, T, V are the lengths of  *)
(* the output, the text and the new output, W and U those of the whole before  *)
(* and after.                                                                 *)
EditSetting(T, R, L, j, k, next, n, a, b, V, W, U) ==
    /\ T \in Nat /\ R \in Nat /\ L \in Nat /\ j \in Nat \ {0} /\ k \in Nat
    /\ next \in Nat /\ n \in Nat
    /\ j <= k /\ k <= T /\ k < next /\ next <= T + 1 /\ n <= k - j
    /\ a = (R + ((k - j) - n)) + 1 /\ b = (R + (next - j)) + 1
    /\ V = (a - 1) + L /\ W = R + ((T - j) + 1) /\ U = V + ((T - next) + 1)

EditPlaces(T, R, L, j, next, a, b, V, W, U) ==
    /\ a \in Nat \ {0} /\ b \in Nat /\ a <= b /\ b <= W + 1 /\ a - 1 \in Nat
    /\ V \in Nat /\ W \in Nat /\ U \in Nat /\ V <= U /\ a - 1 <= W /\ a - 1 <= V
    /\ \A x \in Int : x >= a + L =>
          /\ x > V /\ x + (b - (a + L)) > R
          /\ (x + (b - (a + L))) + ((j - 1) - R) = x + ((next - 1) - V)
          /\ x + (b - (a + L)) <= W <=> x <= U

LEMMA EditNumbers ==
    ASSUME NEW T, NEW R, NEW L, NEW j, NEW k, NEW next, NEW n, NEW a, NEW b, NEW V, NEW W,
           NEW U, EditSetting(T, R, L, j, k, next, n, a, b, V, W, U)
    PROVE  EditPlaces(T, R, L, j, next, a, b, V, W, U)
<1> USE DEF EditSetting
<1>1. a \in Nat \ {0} /\ b \in Nat /\ a <= b /\ b <= W + 1 /\ a - 1 \in Nat
  OBVIOUS
<1>2. V \in Nat /\ W \in Nat /\ U \in Nat /\ V <= U /\ a - 1 <= W /\ a - 1 <= V
  OBVIOUS
<1>3. ASSUME NEW x \in Int, x >= a + L
      PROVE  /\ x > V /\ x + (b - (a + L)) > R
             /\ (x + (b - (a + L))) + ((j - 1) - R) = x + ((next - 1) - V)
             /\ x + (b - (a + L)) <= W <=> x <= U
  BY <1>3
<1> QED
  BY <1>1, <1>2, <1>3 DEF EditPlaces

LEMMA Beyond ==
    ASSUME NEW v \in Nat, NEW x \in Int, x > v, NEW u \in Nat
    PROVE  /\ x \in 1..u <=> x <= u
           /\ x \in (v + 1)..u <=> x <= u
OBVIOUS

LEMMA Between ==
    ASSUME NEW x \in Nat \ {0}, NEW y \in Nat, NEW m \in Nat, x <= y, y <= m + 1
    PROVE  y \in 1..(m + 1) /\ x \in 1..y
OBVIOUS

LEMMA Behind ==
    ASSUME NEW p \in Nat, NEW l \in Nat, NEW x \in 1..l, NEW m \in Nat, NEW u \in Nat,
           m = p + l, m <= u
    PROVE  p + x \in 1..m /\ p + x \in 1..u
OBVIOUS

LEMMA Before ==
    ASSUME NEW p \in Nat, NEW x \in 1..p, NEW m \in Nat, p <= m
    PROVE  x \in 1..m
OBVIOUS

Rewrite(r, t, j, k, next, n, P, a, b, v) ==
    /\ r \in Text /\ t \in Text /\ j \in 1..(Len(t) + 1) /\ k \in j..Len(t)
    /\ next \in (k + 1)..(Len(t) + 1) /\ n \in 0..(k - j)
    /\ P \in Text /\ Len(P) > 2
    /\ a = (Len(r) + ((k - j) - n)) + 1
    /\ b = (Len(r) + (next - j)) + 1
    /\ v \in Text /\ Rewritten(Joined(r, t, j), v, a, P)

LEMMA RewrittenIsEdited ==
    ASSUME NEW r, NEW t, NEW j, NEW k, NEW next, NEW n, NEW P, NEW a, NEW b, NEW v,
           Rewrite(r, t, j, k, next, n, P, a, b, v)
    PROVE  /\ Len(v) = (a - 1) + Len(P) /\ v[Len(v)] = P[Len(P)]
           /\ Edited(Joined(r, t, j), Joined(v, t, next), a, b, P)
<1> SUFFICES ASSUME r \in Text, t \in Text, j \in 1..(Len(t) + 1), k \in j..Len(t),
                    next \in (k + 1)..(Len(t) + 1), n \in 0..(k - j),
                    P \in Text, Len(P) > 2,
                    a = (Len(r) + ((k - j) - n)) + 1,
                    b = (Len(r) + (next - j)) + 1,
                    v \in Text, Rewritten(Joined(r, t, j), v, a, P)
             PROVE  /\ Len(v) = (a - 1) + Len(P) /\ v[Len(v)] = P[Len(P)]
                    /\ Edited(Joined(r, t, j), Joined(v, t, next), a, b, P)
  BY DEF Rewrite
<1> DEFINE w == Joined(r, t, j)
           u == Joined(v, t, next)
           y(x) == x + (b - (a + Len(P)))
<1>1. /\ j \in Nat \ {0} /\ Len(t) \in Nat /\ Len(r) \in Nat /\ Len(P) \in Nat
      /\ k \in Nat /\ j <= k /\ k <= Len(t) /\ next \in Nat /\ k < next
      /\ next <= Len(t) + 1 /\ n \in Nat /\ n <= k - j
  BY TextType
<1>2. next \in 1..(Len(t) + 1)
  BY <1>1
<1>3. Len(v) = (a - 1) + Len(P)
  BY DEF Rewritten
<1>4. \A x \in 1..(a - 1) : v[x] = w[x]
  BY DEF Rewritten
<1>5. \A x \in 1..Len(P) : v[(a - 1) + x] = P[x]
  BY DEF Rewritten
<1> HIDE DEF w, u
<1>6. /\ w \in Text /\ Len(w) = Len(r) + ((Len(t) - j) + 1)
      /\ \A x \in (Len(r) + 1)..(Len(r) + ((Len(t) - j) + 1)) : w[x] = t[x + ((j - 1) - Len(r))]
  BY JoinedIs DEF w
<1>7. /\ u \in Text /\ Len(u) = Len(v) + ((Len(t) - next) + 1)
      /\ \A x \in 1..Len(v) : u[x] = v[x]
      /\ \A x \in (Len(v) + 1)..(Len(v) + ((Len(t) - next) + 1)) :
            u[x] = t[x + ((next - 1) - Len(v))]
  BY <1>2, JoinedIs DEF u
<1>8. Len(w) = Len(r) + ((Len(t) - j) + 1) /\ Len(u) = Len(v) + ((Len(t) - next) + 1)
  BY <1>6, <1>7
<1>9. /\ a \in Nat \ {0} /\ b \in Nat /\ a <= b /\ b <= Len(w) + 1 /\ a - 1 \in Nat
      /\ Len(v) \in Nat /\ Len(w) \in Nat /\ Len(u) \in Nat /\ Len(v) <= Len(u)
      /\ a - 1 <= Len(w) /\ a - 1 <= Len(v)
      /\ \A x \in Int : x >= a + Len(P) =>
                 /\ x > Len(v) /\ y(x) > Len(r)
                 /\ y(x) + ((j - 1) - Len(r)) = x + ((next - 1) - Len(v))
                 /\ y(x) <= Len(w) <=> x <= Len(u)
  <2>1. EditSetting(Len(t), Len(r), Len(P), j, k, next, n, a, b, Len(v), Len(w), Len(u))
    BY <1>1, <1>3, <1>8 DEF EditSetting
  <2>2. EditPlaces(Len(t), Len(r), Len(P), j, next, a, b, Len(v), Len(w), Len(u))
    BY <2>1, EditNumbers
  <2> QED
    BY <2>2 DEF EditPlaces
<1>10. DOMAIN w = 1..Len(w) /\ DOMAIN u = 1..Len(u)
  BY <1>6, <1>7, TextType
<1>11. b \in 1..(Len(w) + 1) /\ a \in 1..b
  BY <1>9, Between
<1>12. ASSUME NEW x \in 1..Len(P) PROVE (a - 1) + x \in DOMAIN u /\ u[(a - 1) + x] = P[x]
  <2>1. (a - 1) + x \in 1..Len(v) /\ (a - 1) + x \in 1..Len(u)
    BY <1>1, <1>3, <1>9, Behind
  <2>2. u[(a - 1) + x] = v[(a - 1) + x]
    BY <1>7, <2>1
  <2> QED
    BY <1>5, <1>10, <2>1, <2>2
<1>13. Same(u, w, 0, 0, a - 1)
  <2> SUFFICES ASSUME NEW x \in 0..(a - 1)
               PROVE  /\ x \in DOMAIN u <=> x + 0 \in DOMAIN w
                      /\ x \in DOMAIN u => u[x] = w[x + 0]
    BY DEF Same
  <2>1. /\ a - 1 \in Nat /\ Len(v) \in Nat /\ Len(w) \in Nat /\ Len(u) \in Nat
        /\ Len(v) <= Len(u) /\ a - 1 <= Len(w) /\ a - 1 <= Len(v)
    BY <1>9
  <2>2. x + 0 = x /\ (x = 0 \/ x \in 1..(a - 1)) /\ 0 \notin 1..Len(u) /\ 0 \notin 1..Len(w)
    BY <2>1
  <2>3. x # 0 => x \in 1..Len(v) /\ x \in 1..Len(u) /\ x \in 1..Len(w)
    BY <2>1, <2>2, Before
  <2>4. x \in DOMAIN u <=> x \in DOMAIN w
    BY <1>10, <2>2, <2>3
  <2>5. ASSUME x \in DOMAIN u PROVE u[x] = w[x]
    <3>1. x # 0 /\ x \in 1..(a - 1)
      BY <1>10, <2>2, <2>5
    <3>2. u[x] = v[x]
      BY <1>7, <2>3, <3>1
    <3> QED
      BY <1>4, <3>1, <3>2
  <2> QED
    BY <2>2, <2>4, <2>5
<1>14. ASSUME NEW hi \in Int PROVE Same(u, w, b - (a + Len(P)), a + Len(P), hi)
  <2> SUFFICES ASSUME NEW x \in (a + Len(P))..hi
               PROVE  /\ x \in DOMAIN u <=> y(x) \in DOMAIN w
                      /\ x \in DOMAIN u => u[x] = w[y(x)]
    BY DEF Same
  <2> DEFINE z == y(x)
  <2>1. a \in Nat /\ b \in Nat /\ Len(P) \in Nat
    BY <1>1, <1>9
  <2>2. x \in Int /\ x >= a + Len(P) /\ z \in Int
    BY <2>1
  <2>3. /\ x > Len(v) /\ z > Len(r)
        /\ z + ((j - 1) - Len(r)) = x + ((next - 1) - Len(v))
        /\ z <= Len(w) <=> x <= Len(u)
    BY <1>9, <2>2
  <2> HIDE DEF z
  <2>4. Len(v) \in Nat /\ Len(r) \in Nat /\ Len(u) \in Nat /\ Len(w) \in Nat
    BY <1>1, <1>9
  <2>5. /\ x \in 1..Len(u) <=> x <= Len(u)
        /\ z \in 1..Len(w) <=> z <= Len(w)
    BY <2>2, <2>3, <2>4, Beyond
  <2>6. x \in DOMAIN u <=> z \in DOMAIN w
    BY <1>10, <2>3, <2>5
  <2>7. ASSUME x \in DOMAIN u PROVE u[x] = w[z]
    <3>1. x <= Len(u) /\ z <= Len(w)
      BY <1>10, <2>3, <2>5, <2>7
    <3>2. x \in (Len(v) + 1)..Len(u) /\ z \in (Len(r) + 1)..Len(w)
      BY <2>2, <2>3, <2>4, <3>1, Beyond
    <3>3. u[x] = t[x + ((next - 1) - Len(v))]
      BY <1>7, <3>2
    <3>4. w[z] = t[z + ((j - 1) - Len(r))]
      BY <1>6, <3>2
    <3> QED
      BY <2>3, <3>3, <3>4
  <2> QED
    BY <2>6, <2>7 DEF z
<1>15. Edited(w, u, a, b, P)
  BY <1>11, <1>12, <1>13, <1>14 DEF Edited
<1>16. v[Len(v)] = P[Len(P)]
  <2>1. Len(P) \in 1..Len(P)
    BY <1>1
  <2> QED
    BY <1>3, <1>5, <2>1
<1> QED
  BY <1>3, <1>15, <1>16 DEF w, u
----------------------------------------------------------------------------
(* The steps of a pass.                                                       *)

Scanners == {"ipv6", "ipv4", "emails", "dob"}

NextScanner(p) == CASE p = "ipv6" -> "ipv4" [] p = "ipv4" -> "emails"
                    [] p = "emails" -> "dob" [] p = "dob" -> "done"

LEMMA PassesAre ==
    /\ Range(Passes) = Scanners \cup {"done"} /\ Head(Passes) = "ipv6"
    /\ \A p \in Scanners : Passes[1 + CHOOSE n \in 1..4 : Passes[n] = p] = NextScanner(p)
<1>1. /\ Passes[1] = "ipv6" /\ Passes[2] = "ipv4" /\ Passes[3] = "emails"
      /\ Passes[4] = "dob" /\ Passes[5] = "done" /\ DOMAIN Passes = 1..5
      /\ Head(Passes) = "ipv6"
  BY DEF Passes
<1>2. \A n \in 1..5 : n = 1 \/ n = 2 \/ n = 3 \/ n = 4 \/ n = 5
  OBVIOUS
<1>3. Range(Passes) = Scanners \cup {"done"}
  <2>1. Range(Passes) = {Passes[n] : n \in 1..5}
    BY <1>1 DEF Range
  <2> QED
    BY <1>1, <1>2, <2>1 DEF Scanners
<1>4. ASSUME NEW p \in Scanners
      PROVE  Passes[1 + CHOOSE n \in 1..4 : Passes[n] = p] = NextScanner(p)
  <2> DEFINE c == CHOOSE n \in 1..4 : Passes[n] = p
  <2>1. \E n \in 1..4 : Passes[n] = p
    <3>1. 1 \in 1..4 /\ 2 \in 1..4 /\ 3 \in 1..4 /\ 4 \in 1..4
      OBVIOUS
    <3> QED
      BY <1>1, <3>1 DEF Scanners
  <2>2. c \in 1..4 /\ Passes[c] = p
    BY <2>1
  <2> HIDE DEF c
  <2>3. c = 1 \/ c = 2 \/ c = 3 \/ c = 4
    BY <2>2
  <2>4. 1 + 1 = 2 /\ 1 + 2 = 3 /\ 1 + 3 = 4 /\ 1 + 4 = 5
    OBVIOUS
  <2>5. Passes[1 + c] = NextScanner(p)
    BY <1>1, <2>2, <2>3, <2>4, Zenon DEF NextScanner
  <2> QED
    BY <2>5 DEF c
<1> QED
  BY <1>1, <1>3, <1>4

LEMMA MatchRange ==
    ASSUME NEW p \in Scanners, NEW t \in Text, NEW k \in 1..Len(t), MatchAt(p, t, k) # 0
    PROVE  /\ MatchAt(p, t, k) \in (k + 1)..(Len(t) + 1)
           /\ Resume(p, t, k) = MatchAt(p, t, k)
           /\ ~At(t, MatchAt(p, t, k), Digit)
           /\ p = "ipv6" => ~At(t, MatchAt(p, t, k), GroupChar)
<1> DEFINE end == MatchAt(p, t, k)
<1>1. k \in 1..(Len(t) + 1) /\ k \in Nat /\ Len(t) \in Nat
  BY TextType
<1>2. \A x : At(t, x, Digit) => /\ At(t, x, is_ipv4_adjacent) /\ At(t, x, EmailDomain)
                              /\ At(t, x, Alphanumeric) /\ At(t, x, GroupChar)
  BY ClassesDiffer DEF At, is_ipv4_adjacent, EmailDomain, GroupChar
<1>3. end = CASE p = "ipv6" -> IPv6At(t, k) [] p = "ipv4" -> IPv4At(t, k)
              [] p = "emails" -> EmailAt(t, k) [] p = "dob" -> DateAt(t, k)
  BY DEF MatchAt
<1> SUFFICES /\ end \in (k + 1)..(Len(t) + 1) /\ Resume(p, t, k) = end
             /\ ~At(t, end, Digit)
             /\ (p = "ipv6" => ~At(t, end, GroupChar))
  BY DEF end
<1> HIDE DEF end
<1>4. end # 0
  BY DEF end
<1>5. ASSUME p = "ipv6"
      PROVE  end \in (k + 1)..(Len(t) + 1) /\ ~At(t, end, Digit)
             /\ ~At(t, end, GroupChar)
  <2>1. IPv6At(t, k) = end
    BY <1>3, <1>5
  <2>2. GroupsShape(t, k, end) /\ k < end /\ ~At(t, end, GroupChar)
    BY <1>4, <2>1, IPv6Shape
  <2> QED
    BY <1>1, <1>2, <2>2 DEF GroupsShape
<1>6. ASSUME p = "ipv4"
      PROVE  end \in (k + 1)..(Len(t) + 1) /\ ~At(t, end, Digit)
  <2>1. IPv4At(t, k) = end
    BY <1>3, <1>6
  <2>2. IPv4Is(t, k, end)
    BY <1>1, <1>4, <2>1, MatchedIPv4
  <2>3. PICK a, b, c \in Nat : Quad(t, k, a, b, c, end)
    BY <2>2 DEF IPv4Is
  <2>4. end \in Nat /\ k < end /\ end <= Len(t) + 1
    BY <1>1, <2>3, QuadShape
  <2>5. ~At(t, end, Digit)
    BY <1>2, <2>2 DEF IPv4Is
  <2> QED
    BY <1>1, <1>6, <2>4, <2>5
<1>7. ASSUME p = "emails"
      PROVE  end \in (k + 1)..(Len(t) + 1) /\ ~At(t, end, Digit)
  <2>1. EmailAt(t, k) = end
    BY <1>3, <1>7
  <2>2. EmailIs(t, k, end)
    BY <1>4, <2>1, MatchedEmail
  <2>3. end \in Nat /\ k + 3 < end /\ end <= Len(t) + 1 /\ ~At(t, end, EmailDomain)
    BY <1>1, <2>2, EmailShapes
  <2> QED
    BY <1>1, <1>2, <1>7, <2>3
<1>8. ASSUME p = "dob"
      PROVE  end \in (k + 1)..(Len(t) + 1) /\ ~At(t, end, Digit)
  <2>1. DateAt(t, k) = end
    BY <1>3, <1>8
  <2>2. end = k + 10 /\ At(t, k + 9, Digit) /\ ~At(t, k + 10, Alphanumeric)
    BY <1>1, <1>4, <2>1, DateShape
  <2>3. k + 9 \in 1..Len(t)
    BY <2>2, TextType
  <2> QED
    BY <1>1, <1>2, <1>8, <2>2, <2>3
<1>9. end \in (k + 1)..(Len(t) + 1) /\ ~At(t, end, Digit)
      /\ (p = "ipv6" => ~At(t, end, GroupChar))
  BY <1>5, <1>6, <1>7, <1>8, Zenon DEF Scanners
<1>10. Resume(p, t, k) = end
  <2>1. Resume(p, t, k) = Max({end, k + 1})
    BY DEF Resume, end
  <2>2. end \in Nat /\ k + 1 \in Nat /\ end >= k + 1
    BY <1>1, <1>9
  <2> QED
    BY <2>1, <2>2, MaxOfTwo
<1> QED
  BY <1>9, <1>10 DEF end

(* The first match of a pass, and what a redaction does with it. *)
Redacts(k, n, next) ==
    /\ pass \in Scanners
    /\ k \in i..Len(input) /\ next \in (k + 1)..(Len(input) + 1)
    /\ n \in 0..(Len(result) + (k - i)) /\ n <= Popped(pass, input, k)
    /\ MatchAt(pass, input, k) = next /\ next # 0
    /\ \A m \in i..(k - 1) : MatchAt(pass, input, m) = 0
    /\ pass' = pass /\ input' = input /\ i' = next
    /\ result' = Pop(result \o SubSeq(input, i, k - 1), n) \o Placeholder(pass)
    /\ removed' = SubSeq(result \o SubSeq(input, i, k - 1),
                         ((Len(result) + (k - i)) - n) + 1, Len(result) + (k - i))
                  \o SubSeq(input, k, next - 1)
    /\ overran' = (overran \/ Popped(pass, input, k) > k - i)
    /\ Popped(pass, input, k) \in Nat
    /\ Popped(pass, input, k) <= k - i => n = Popped(pass, input, k)

LEMMA TypeParts ==
    ASSUME TypeOK
    PROVE  /\ pass \in Scanners \cup {"done"} /\ i \in 1..(Len(input) + 1)
           /\ input \in Text /\ result \in Text /\ removed \in Text /\ overran \in BOOLEAN
BY PassesAre DEF TypeOK, Text

LEMMA RedactIs ==
    ASSUME TypeOK, Redact
    PROVE  \E k, n, next : Redacts(k, n, next)
<1>1. /\ pass \in Scanners /\ i \in 1..(Len(input) + 1)
      /\ input \in Text /\ result \in Text
  BY TypeParts DEF Redact
<1> DEFINE M == Matches(pass, input, i)
           k == Min(M)
           next == Resume(pass, input, k)
           copied == result \o SubSeq(input, i, k - 1)
           n == Min({Popped(pass, input, k), Len(copied)})
<1>2. M # {} /\ M \subseteq Nat
  <2>1. M # {}
    BY DEF Redact
  <2>2. M \subseteq i..Len(input)
    BY DEF Matches
  <2>3. i..Len(input) \subseteq Nat
    BY <1>1, TextType
  <2> QED
    BY <2>1, <2>2, <2>3
<1>3. k \in M /\ \A y \in M : k <= y
  BY <1>2, MinProperties, Zenon
<1>4. /\ result' = Pop(copied, n) \o Placeholder(pass) /\ i' = next
      /\ removed' = SubSeq(copied, Len(copied) - n + 1, Len(copied))
                        \o SubSeq(input, k, next - 1)
      /\ overran' = (overran \/ Popped(pass, input, k) > k - i)
      /\ pass' = pass /\ input' = input
  BY DEF Redact
<1> HIDE DEF k, next, copied, n
<1>5. k \in i..Len(input) /\ MatchAt(pass, input, k) # 0
  BY <1>3 DEF Matches
<1>6. \A m \in i..(k - 1) : MatchAt(pass, input, m) = 0
  <2> SUFFICES ASSUME NEW m \in i..(k - 1), MatchAt(pass, input, m) # 0 PROVE FALSE
    OBVIOUS
  <2>1. m \in i..Len(input) /\ ~(k <= m)
    BY <1>1, <1>5, TextType
  <2> QED
    BY <1>3, <2>1 DEF Matches
<1>7. k \in 1..Len(input) /\ k \in i..(Len(input) + 1) /\ k \in Nat /\ i \in Nat
  BY <1>1, <1>5, TextType
<1>8. next = MatchAt(pass, input, k) /\ next \in (k + 1)..(Len(input) + 1)
  BY <1>1, <1>5, <1>7, MatchRange DEF next
<1>9. copied \in Text /\ Len(copied) = Len(result) + (k - i)
  BY <1>1, <1>7, CopiedIs DEF copied
<1>10. Popped(pass, input, k) \in Nat
  <2>1. scan_email_local_back(input, k) \in 1..k
    BY <1>1, <1>7, LocalBack
  <2> QED
    BY <1>7, <2>1 DEF Popped
<1>11. Len(copied) \in Nat /\ Len(result) \in Nat
  BY <1>1, <1>9, TextType
<1>12. n = IF Popped(pass, input, k) <= Len(copied)
           THEN Popped(pass, input, k) ELSE Len(copied)
  BY <1>10, <1>11, MinOfTwo DEF n
<1>13. /\ n \in 0..Len(copied) /\ n <= Popped(pass, input, k)
       /\ Popped(pass, input, k) <= k - i => n = Popped(pass, input, k)
  <2>1. Popped(pass, input, k) <= k - i => Popped(pass, input, k) <= Len(copied)
    BY <1>7, <1>9, <1>10, <1>11
  <2> QED
    BY <1>10, <1>11, <1>12, <2>1
<1>14. next # 0
  BY <1>5, <1>8
<1>15. Len(copied) - n + 1 = ((Len(result) + (k - i)) - n) + 1
  BY <1>9
<1>16. Redacts(k, n, next)
  BY <1>1, <1>4, <1>5, <1>6, <1>8, <1>9, <1>10, <1>13, <1>14, <1>15, Zenon DEF Redacts, copied
<1> QED
  BY <1>16

(* What a redaction takes out is a text. *)
LEMMA RemovedIsText ==
    ASSUME TypeOK, NEW k, NEW n, NEW next, Redacts(k, n, next)
    PROVE  removed' \in Text
<1> DEFINE copied == result \o SubSeq(input, i, k - 1)
           L == Len(result) + (k - i)
           x == (L - n) + 1
           back == SubSeq(copied, x, L)
           match == SubSeq(input, k, next - 1)
<1>1. /\ i \in 1..(Len(input) + 1) /\ input \in Text /\ result \in Text
      /\ k \in i..Len(input) /\ next \in (k + 1)..(Len(input) + 1) /\ n \in 0..L
      /\ removed' = back \o match
  BY TypeParts DEF Redacts
<1>2. /\ Len(input) \in Nat /\ Len(result) \in Nat /\ k \in i..(Len(input) + 1)
      /\ i \in Nat \ {0} /\ k \in Nat \ {0} /\ next \in Nat
  BY <1>1, TextType
<1>3. copied \in Text /\ Len(copied) = L
  BY <1>1, <1>2, CopiedIs
<1> HIDE DEF copied, back, match
<1>4. back \in Seq(Char)
  <2>1. L \in Nat /\ x \in Nat /\ x >= 1
    BY <1>1, <1>2
  <2>2. \A m \in x..L : copied[m] \in Char
    BY <1>3, <2>1, TextType
  <2> HIDE DEF L, x
  <2> QED
    BY <1>3, <2>1, <2>2, SubSeqProperties DEF back
<1>5. match \in Seq(Char)
  <2>1. \A m \in k..(next - 1) : input[m] \in Char
    BY <1>1, <1>2, TextType
  <2> QED
    BY <1>2, <2>1, SubSeqProperties DEF match
<1> QED
  BY <1>1, <1>4, <1>5, ConcatProperties DEF Text

LEMMA RedactedIsText ==
    ASSUME TypeOK, NEW k, NEW n, NEW next, Redacts(k, n, next)
    PROVE  Rewritten(Out, result', (Len(result) + ((k - i) - n)) + 1, Placeholder(pass))
<1>1. /\ i \in 1..(Len(input) + 1) /\ input \in Text /\ result \in Text
      /\ k \in i..Len(input) /\ n \in 0..(Len(result) + (k - i)) /\ pass \in Scanners
      /\ result' = Pop(result \o SubSeq(input, i, k - 1), n) \o Placeholder(pass)
  BY TypeParts DEF Redacts
<1>2. k \in i..(Len(input) + 1)
  BY <1>1, TextType
<1>3. Placeholder(pass) \in Text
  BY <1>1, PlaceholderIsText DEF Scanners
<1> QED
  BY <1>1, <1>2, <1>3, RewrittenIs DEF Out

LEMMA NextPassIs ==
    ASSUME TypeOK, NextPass
    PROVE  /\ pass \in Scanners /\ pass' = NextScanner(pass)
           /\ input' = Out /\ i' = 1 /\ result' = <<>> /\ removed' = <<>>
           /\ overran' = overran
           /\ \A k \in i..Len(input) : MatchAt(pass, input, k) = 0
<1>1. pass \in Scanners
  BY TypeParts DEF NextPass
<1>2. pass' = NextScanner(pass)
  BY <1>1, PassesAre DEF NextPass
<1>3. \A k \in i..Len(input) : MatchAt(pass, input, k) = 0
  BY DEF NextPass, Matches
<1> QED
  BY <1>1, <1>2, <1>3 DEF NextPass, Out, Joined

(* The texts stay texts, and the scan within its text.                        *)
LEMMA TypeStep ==
    ASSUME TypeOK, [Next]_vars
    PROVE  TypeOK'
<1>0. \A p \in Scanners : NextScanner(p) \in Scanners \cup {"done"}
  BY DEF Scanners, NextScanner
<1>1. ASSUME Redact PROVE TypeOK'
  <2>1. PICK k, n, next : Redacts(k, n, next)
    BY <1>1, RedactIs
  <2>2. removed' \in Text
    BY <2>1, RemovedIsText
  <2>3. result' \in Text
    BY <2>1, RedactedIsText DEF Rewritten
  <2>4. i' \in 1..(Len(input) + 1)
    <3>1. /\ next \in (k + 1)..(Len(input) + 1) /\ k \in i..Len(input) /\ i' = next
          /\ i \in 1..(Len(input) + 1) /\ Len(input) \in Nat
      BY <2>1, TypeParts, TextType DEF Redacts
    <3> QED
      BY <3>1
  <2>5. overran' \in BOOLEAN
    BY <2>1, TypeParts DEF Redacts
  <2> QED
    BY <2>1, <2>2, <2>3, <2>4, <2>5 DEF TypeOK, Redacts, Text
<1>2. ASSUME NextPass PROVE TypeOK'
  <2>1. Out \in Text
    BY TypeParts, JoinedIs DEF Out
  <2>2. Len(Out) \in Nat
    BY <2>1, TextType
  <2>3. <<>> \in Seq(Char)
    OBVIOUS
  <2>4. pass' \in Range(Passes)
    BY <1>0, <1>2, NextPassIs, PassesAre
  <2>5. 1 \in 1..(Len(Out) + 1)
    BY <2>2
  <2> QED
    BY <1>2, <2>1, <2>3, <2>4, <2>5, NextPassIs, TypeParts DEF TypeOK, Text
<1>3. ASSUME Done \/ UNCHANGED vars PROVE TypeOK'
  BY <1>3 DEF Done, vars, TypeOK
<1> QED
  BY <1>1, <1>2, <1>3 DEF Next

LEMMA TypeInit ==
    ASSUME Init
    PROVE  TypeOK
<1>1. input \in Text
  BY TextsAssumption DEF Init, Text
<1>2. 1 \in 1..(Len(input) + 1)
  BY <1>1, TextType
<1>3. <<>> \in Seq(Char)
  OBVIOUS
<1>4. pass \in Range(Passes)
  BY PassesAre DEF Init, Scanners
<1> QED
  BY <1>1, <1>2, <1>3, <1>4 DEF Init, TypeOK, Text

(* The output, what is taken out of it and the position in the text stay what  *)
(* strip_pii's passes take them for.                                          *)
THEOREM TypeCorrect == Spec => []TypeOK
<1> QED
  BY TypeInit, TypeStep, PTL DEF Spec
----------------------------------------------------------------------------
(* A redaction edits the output.                                              *)

(* What stands before a place that is not in the output yet. *)
LEMMA PlaceBefore ==
    ASSUME NEW r \in Text, NEW t \in Text, NEW j \in 1..(Len(t) + 1), Border(r, t, j),
           NEW x \in j..(Len(t) + 1), NEW class, "]" \notin class, ~At(t, x - 1, class)
    PROVE  ~At(Joined(r, t, j), Len(r) + (x - j), class)
<1> DEFINE w == Joined(r, t, j)
           y == Len(r) + (x - j)
           s == (j - 1) - Len(r)
<1>1. Len(t) \in Nat /\ Len(r) \in Nat /\ j \in Nat \ {0} /\ x \in Nat /\ j <= x
      /\ w \in Text
  BY JoinedIs, TextType
<1> HIDE DEF w
<1>2. CASE x > j
  <2>1. y \in Int /\ y > Len(r) /\ y + s = x - 1 /\ s \in Int
    BY <1>1, <1>2
  <2>2. Same(w, t, s, y, y)
    BY <2>1, JoinedSame DEF w
  <2> HIDE DEF y, s
  <2>3. At(w, y, class) <=> At(t, y + s, class)
    BY <2>1, <2>2, SameAt
  <2> QED
    BY <2>1, <2>3 DEF w, y
<1>3. CASE x = j
  <2>1. y = Len(r)
    BY <1>1, <1>3
  <2>2. CASE j = 1 /\ r = <<>>
    <3>1. Len(<<>>) = 0 /\ 0 \notin 1..Len(w)
      OBVIOUS
    <3>2. y = 0
      BY <2>1, <2>2, <3>1, Zenon
    <3>3. ~At(w, 0, class)
      BY <1>1, <3>1, TextType
    <3> QED
      BY <3>2, <3>3 DEF w
  <2>3. CASE At(r, Len(r), {"]"})
    <3>1. Len(r) \in 1..Len(r) /\ r[Len(r)] = "]"
      BY <2>3, TextType DEF At
    <3>2. w[Len(r)] = "]"
      BY <3>1, JoinedIs DEF w
    <3>3. ~At(w, Len(r), class)
      BY <3>2 DEF At
    <3> QED
      BY <2>1, <3>3 DEF w
  <2> QED
    BY <2>2, <2>3 DEF Border
<1> QED
  BY <1>1, <1>2, <1>3

(* A place that is not in the output yet. *)
LEMMA PlaceBehind ==
    ASSUME NEW r \in Text, NEW t \in Text, NEW j \in 1..(Len(t) + 1),
           NEW x \in j..(Len(t) + 1), NEW class
    PROVE  At(Joined(r, t, j), (Len(r) + (x - j)) + 1, class) <=> At(t, x, class)
<1> DEFINE y == (Len(r) + (x - j)) + 1
           s == (j - 1) - Len(r)
<1>1. Len(r) \in Nat /\ j \in Nat /\ x \in Nat /\ j <= x
  BY TextType
<1>2. y \in Int /\ y > Len(r) /\ s \in Int /\ y + s = x
  BY <1>1
<1>3. Same(Joined(r, t, j), t, s, y, y)
  BY <1>2, JoinedSame
<1> HIDE DEF y, s
<1>4. At(Joined(r, t, j), y, class) <=> At(t, y + s, class)
  BY <1>2, <1>3, SameAt
<1> QED
  BY <1>2, <1>4 DEF y

Start(k, n) == (Len(result) + ((k - i) - n)) + 1

(* What the redaction of a match at k, n characters of it before k, does. *)
Edits(k, n, next, b) ==
    /\ n \in 0..(k - i) /\ n = Popped(pass, input, k)
    /\ Edited(Out, Out', Start(k, n), b, Placeholder(pass))
    /\ Len(result') = (Start(k, n) - 1) + Len(Placeholder(pass))
    /\ \A class : "]" \notin class /\ ~At(input, (k - n) - 1, class)
                    => ~At(Out, Start(k, n) - 1, class)
    /\ \A class : ~At(input, next, class) => ~At(Out, b, class)

LEMMA RedactEdits ==
    ASSUME TypeOK, Border(result, input, i), NEW k, NEW n, NEW next, Redacts(k, n, next),
           ~overran'
    PROVE  \E b : Edits(k, n, next, b)
<1> DEFINE b == (Len(result) + (next - i)) + 1
           P == Placeholder(pass)
           a == Start(k, n)
<1>1. /\ i \in 1..(Len(input) + 1) /\ input \in Text /\ result \in Text
      /\ k \in i..Len(input) /\ next \in (k + 1)..(Len(input) + 1) /\ pass \in Scanners
      /\ n \in 0..(Len(result) + (k - i)) /\ input' = input /\ i' = next
  BY TypeParts DEF Redacts
<1>2. /\ Len(input) \in Nat /\ Len(result) \in Nat /\ i \in Nat \ {0} /\ k \in Nat
      /\ next \in Nat /\ next \in i..(Len(input) + 1)
  BY <1>1, TextType
<1>3. n \in 0..(k - i) /\ n = Popped(pass, input, k)
  <2>1. Popped(pass, input, k) <= k - i
    <3>1. Popped(pass, input, k) \in Nat /\ ~(Popped(pass, input, k) > k - i)
      BY DEF Redacts
    <3> QED
      BY <1>2, <3>1
  <2>2. n = Popped(pass, input, k)
    BY <2>1 DEF Redacts
  <2> QED
    BY <1>1, <1>2, <2>1, <2>2
<1>4. Rewritten(Out, result', a, P)
  BY RedactedIsText DEF Start
<1>5. PlaceholderText(P) /\ P \in Text
  BY <1>1, PlaceholderIsText DEF Scanners
<1>6. Len(P) > 2 /\ result' \in Text
  BY <1>4, <1>5 DEF PlaceholderText, Rewritten
<1> HIDE DEF P
<1>a. /\ a = (Len(result) + ((k - i) - n)) + 1
      /\ Rewritten(Joined(result, input, i), result', a, P)
  BY <1>4 DEF Start, Out
<1>b. b = (Len(result) + (next - i)) + 1
  OBVIOUS
<1> HIDE DEF a, b
<1>7. /\ Len(result') = (a - 1) + Len(P)
      /\ Edited(Joined(result, input, i), Joined(result', input, next), a, b, P)
  <2>1. Rewrite(result, input, i, k, next, n, P, a, b, result')
    BY <1>1, <1>3, <1>5, <1>6, <1>a, <1>b DEF Rewrite
  <2> QED
    BY <2>1, RewrittenIsEdited
<1>8. Out' = Joined(result', input, next)
  BY <1>1 DEF Out
<1>9. ASSUME NEW class, "]" \notin class, ~At(input, (k - n) - 1, class)
      PROVE  ~At(Out, a - 1, class)
  <2>1. k - n \in i..(Len(input) + 1) /\ a - 1 = Len(result) + ((k - n) - i)
    <3>1. k - n \in i..(Len(input) + 1)
      BY <1>1, <1>2, <1>3
    <3>2. k - n \in Nat /\ (k - i) - n = (k - n) - i /\ Len(result) \in Nat
      BY <1>1, <1>2, <1>3
    <3> QED
      BY <1>1, <1>2, <1>a, <3>1, <3>2
  <2> DEFINE x == k - n
  <2> HIDE DEF x
  <2>2. ~At(Joined(result, input, i), Len(result) + (x - i), class)
    BY <1>1, <1>9, <2>1, PlaceBefore DEF x
  <2> QED
    BY <2>1, <2>2 DEF Out, x
<1>10. \A class : ~At(input, next, class) => ~At(Out, b, class)
  BY <1>1, <1>2, PlaceBehind DEF Out, b
<1>11. Edits(k, n, next, b)
  BY <1>3, <1>7, <1>8, <1>9, <1>10 DEF Edits, Out, P, a
<1> QED
  BY <1>11

(* What is left of the output still has a border. *)
LEMMA RedactKeepsBorder ==
    ASSUME TypeOK, NEW k, NEW n, NEW next, Redacts(k, n, next)
    PROVE  /\ At(result', Len(result'), {"]"})
           /\ ~At(input, next, Digit)
           /\ pass = "ipv6" => ~At(input, next, GroupChar)
<1> DEFINE P == Placeholder(pass)
           a == Start(k, n)
<1>1. /\ k \in i..Len(input) /\ i \in 1..(Len(input) + 1) /\ input \in Text /\ result \in Text
      /\ pass \in Scanners /\ MatchAt(pass, input, k) = next /\ next # 0
      /\ n \in 0..(Len(result) + (k - i))
  BY TypeParts DEF Redacts
<1>2. k \in 1..Len(input) /\ Len(result) \in Nat /\ i \in Nat
  BY <1>1, TextType
<1>3. Rewritten(Out, result', a, P)
  BY RedactedIsText DEF Start
<1>4. PlaceholderText(P)
  BY <1>1, PlaceholderIsText DEF Scanners
<1>5. a \in Nat \ {0} /\ Len(P) \in Nat /\ Len(P) \in 1..Len(P) /\ Len(P) > 2 /\ P[Len(P)] = "]"
  <2>1. a \in Nat \ {0}
    BY <1>1, <1>2 DEF Start
  <2>2. Len(P) \in Nat /\ Len(P) > 2 /\ P[Len(P)] = "]"
    BY <1>4 DEF PlaceholderText
  <2> QED
    BY <2>1, <2>2
<1> HIDE DEF a, P
<1>6. result' \in Text /\ Len(result') = (a - 1) + Len(P) /\ result'[(a - 1) + Len(P)] = P[Len(P)]
  BY <1>3, <1>5 DEF Rewritten
<1>7. Len(result') \in DOMAIN result'
  <2>1. (a - 1) + Len(P) \in 1..((a - 1) + Len(P))
    BY <1>5
  <2> QED
    BY <1>6, <2>1, TextType
<1>8. At(result', Len(result'), {"]"})
  BY <1>5, <1>6, <1>7 DEF At
<1> QED
  BY <1>1, <1>2, <1>8, MatchRange
----------------------------------------------------------------------------
(* What the scanners leave is clean.                                          *)

NoMatch(q, t, n) == \A x \in 1..n : MatchAt(q, t, x) = 0

(* The scanners whose work is done when p begins, IPv6 aside. *)
Earlier(p) == CASE p = "ipv6" -> {}
                [] p = "ipv4" -> {}
                [] p = "emails" -> {"ipv4"}
                [] p = "dob" -> {"ipv4", "emails"}
                [] p = "done" -> {"ipv4", "emails", "dob"}

(* The output so far and the rest of the text have no pattern of an earlier    *)
(* scanner, and the output so far none of this one.                           *)
Clean ==
    /\ \A q \in Earlier(pass) : NoMatch(q, Out, Len(Out))
    /\ pass \in {"ipv4", "emails", "dob"} => NoMatch(pass, Out, Len(result))

Edge ==
    /\ Border(result, input, i)
    /\ pass = "ipv6" => (i = 1 /\ result = <<>>) \/ ~At(input, i, GroupChar)
    /\ pass = "done" => i = 1 /\ result = <<>>

CleanInv == TypeOK /\ Edge /\ (overran \/ Clean)

(* A pattern of the text with a placeholder was one of the text before. *)
Kept(q, t, u, a, b, P) ==
    \A x \in 1..Len(u) : MatchAt(q, u, x) # 0 =>
        \/ x < a /\ MatchAt(q, t, x) # 0
        \/ x > a + Len(P) /\ \E y \in 1..Len(t) : MatchAt(q, t, y) # 0

LEMMA IPv4Kept ==
    ASSUME NEW t \in Text, NEW u \in Text, NEW a, NEW b, NEW P,
           PlaceholderText(P), Edited(t, u, a, b, P),
           ~At(t, a - 1, Digit), ~At(t, b, Digit)
    PROVE  Kept("ipv4", t, u, a, b, P)
<1> DEFINE s == b - (a + Len(P))
<1> SUFFICES ASSUME NEW x \in 1..Len(u), MatchAt("ipv4", u, x) # 0
             PROVE  \/ x < a /\ MatchAt("ipv4", t, x) # 0
                    \/ x > a + Len(P) /\ \E y \in 1..Len(t) : MatchAt("ipv4", t, y) # 0
  BY DEF Kept
<1>1. x \in Nat \ {0} /\ x \in 1..(Len(u) + 1) /\ Len(t) \in Nat
  BY TextType
<1>2. \A w, y : MatchAt("ipv4", w, y) = IPv4At(w, y)
  BY DEF MatchAt
<1> DEFINE end == IPv4At(u, x)
<1>3. end = IPv4At(u, x)
  OBVIOUS
<1> HIDE DEF end
<1>4. IPv4Is(u, x, end)
  BY <1>1, <1>2, <1>3, MatchedIPv4
<1>5. end \in Nat /\ x < end
  BY <1>1, <1>4, IPv4Shape
<1>6. a \in Nat /\ b \in Nat /\ Len(P) \in Nat
  BY BesidePlaceholder
<1>7. \/ end < a /\ IPv4Is(t, x, end)
      \/ x > a + Len(P) /\ IPv4Is(t, x + s, end + s)
  BY <1>1, <1>4, IPv4Survives
<1>8. s \in Int /\ x + s \in Int /\ end + s \in Int
  BY <1>1, <1>5, <1>6
<1> HIDE DEF s
<1>9. \A y \in Int : \A e : IPv4Is(t, y, e) /\ y >= 0 => y \in 1..Len(t) /\ IPv4At(t, y) # 0
  <2> SUFFICES ASSUME NEW y \in Int, NEW e, IPv4Is(t, y, e), y >= 0
               PROVE  y \in 1..Len(t) /\ IPv4At(t, y) # 0
    OBVIOUS
  <2>1. y \in Nat
    OBVIOUS
  <2>2. At(t, y, Digit) /\ e \in Nat /\ y < e
    BY <2>1, IPv4Shape
  <2>3. y \in 1..Len(t) /\ y \in 1..(Len(t) + 1) /\ e # 0
    BY <1>1, <2>1, <2>2, TextType
  <2> QED
    BY <2>3, MatchedIPv4
<1>10. CASE end < a /\ IPv4Is(t, x, end)
  <2>1. x < a
    BY <1>1, <1>5, <1>6, <1>10
  <2> QED
    BY <1>1, <1>2, <1>9, <1>10, <2>1
<1>11. CASE x > a + Len(P) /\ IPv4Is(t, x + s, end + s)
  <2>1. x + s >= 0
    BY <1>1, <1>6, <1>11 DEF s
  <2> QED
    BY <1>2, <1>8, <1>9, <1>11, <2>1
<1> QED
  BY <1>7, <1>10, <1>11

LEMMA EmailKept ==
    ASSUME NEW t \in Text, NEW u \in Text, NEW a, NEW b, NEW P,
           PlaceholderText(P), Edited(t, u, a, b, P), ~At(t, a - 1, Alphanumeric)
    PROVE  Kept("emails", t, u, a, b, P)
<1> DEFINE s == b - (a + Len(P))
<1> SUFFICES ASSUME NEW x \in 1..Len(u), MatchAt("emails", u, x) # 0
             PROVE  \/ x < a /\ MatchAt("emails", t, x) # 0
                    \/ x > a + Len(P) /\ \E y \in 1..Len(t) : MatchAt("emails", t, y) # 0
  BY DEF Kept
<1>1. x \in Nat \ {0} /\ Len(t) \in Nat
  BY TextType
<1>2. \A w, y : MatchAt("emails", w, y) = EmailAt(w, y)
  BY DEF MatchAt
<1> DEFINE end == EmailAt(u, x)
<1>3. end = EmailAt(u, x)
  OBVIOUS
<1> HIDE DEF end
<1>4. EmailIs(u, x, end)
  BY <1>1, <1>2, <1>3, MatchedEmail
<1>5. end \in Nat /\ x < end
  BY <1>1, <1>4, EmailShapes
<1>6. a \in Nat /\ b \in Nat /\ Len(P) \in Nat
  BY BesidePlaceholder
<1>7. \/ end < a /\ EmailIs(t, x, end)
      \/ x > a + Len(P) /\ EmailIs(t, x + s, end + s)
  BY <1>1, <1>4, EmailSurvives
<1>8. s \in Int /\ x + s \in Int /\ end + s \in Int
  BY <1>1, <1>5, <1>6
<1> HIDE DEF s
<1>9. \A y \in Int : \A e : EmailIs(t, y, e) /\ y >= 0 => y \in 1..Len(t) /\ EmailAt(t, y) # 0
  <2> SUFFICES ASSUME NEW y \in Int, NEW e, EmailIs(t, y, e), y >= 0
               PROVE  y \in 1..Len(t) /\ EmailAt(t, y) # 0
    OBVIOUS
  <2>1. y \in Nat
    OBVIOUS
  <2>2. At(t, y, {"@"}) /\ e \in Nat /\ y < e
    BY <2>1, EmailShapes DEF EmailIs
  <2>3. y \in 1..Len(t) /\ e # 0
    BY <1>1, <2>1, <2>2, TextType
  <2> QED
    BY <2>3, MatchedEmail
<1>10. CASE end < a /\ EmailIs(t, x, end)
  <2>1. x < a
    BY <1>1, <1>5, <1>6, <1>10
  <2> QED
    BY <1>1, <1>2, <1>9, <1>10, <2>1
<1>11. CASE x > a + Len(P) /\ EmailIs(t, x + s, end + s)
  <2>1. x + s >= 0
    BY <1>1, <1>6, <1>11 DEF s
  <2> QED
    BY <1>2, <1>8, <1>9, <1>11, <2>1
<1> QED
  BY <1>7, <1>10, <1>11

(* What stands at the two ends of what a redaction takes out. *)
LEMMA RedactEdge ==
    ASSUME TypeOK, NEW k, NEW n, NEW next, NEW b, Redacts(k, n, next), Edits(k, n, next, b)
    PROVE  /\ ~At(Out, b, Digit)
           /\ pass \in {"ipv4", "emails", "dob"} => ~At(Out, Start(k, n) - 1, Digit)
           /\ pass \in {"emails", "dob"} => ~At(Out, Start(k, n) - 1, Alphanumeric)
<1>1. /\ k \in i..Len(input) /\ i \in 1..(Len(input) + 1) /\ input \in Text
      /\ MatchAt(pass, input, k) = next /\ next # 0 /\ n = Popped(pass, input, k)
      /\ pass \in Scanners
  BY TypeParts DEF Redacts, Edits
<1>2. k \in 1..Len(input) /\ k \in Nat /\ k \in 1..(Len(input) + 1)
  BY <1>1, TextType
<1>3. ~At(Out, b, Digit)
  <2>1. ~At(input, next, Digit)
    BY <1>1, <1>2, MatchRange
  <2> QED
    BY <2>1 DEF Edits
<1>4. "]" \notin Alphanumeric /\ "]" \notin Digit
  BY ClassesDiffer
<1>5. \A x : /\ At(input, x, Digit) => At(input, x, is_ipv4_adjacent)
             /\ At(input, x, Alphanumeric) => At(input, x, is_email_local_char)
  BY DEF At, is_ipv4_adjacent, is_email_local_char
<1>6. \A x : At(Out, x, Digit) => At(Out, x, Alphanumeric)
  BY ClassesDiffer DEF At
<1>7. ASSUME pass = "ipv4" PROVE ~At(Out, Start(k, n) - 1, Digit)
  <2>1. IPv4At(input, k) = next
    BY <1>1, <1>7 DEF MatchAt
  <2>2. ~At(input, k - 1, is_ipv4_adjacent)
    BY <1>1, <1>2, <2>1, MatchedIPv4 DEF IPv4Is
  <2>3. n = 0 /\ (k - n) - 1 = k - 1
    <3>1. n = 0
      BY <1>1, <1>7 DEF Popped
    <3> QED
      BY <1>2, <3>1
  <2> QED
    BY <1>4, <1>5, <2>2, <2>3 DEF Edits
<1>8. ASSUME pass = "emails" PROVE ~At(Out, Start(k, n) - 1, Alphanumeric)
  <2>1. scan_email_local_back(input, k) \in 1..k
        /\ ~At(input, scan_email_local_back(input, k) - 1, is_email_local_char)
    BY <1>1, <1>2, LocalBack
  <2>2. n = k - scan_email_local_back(input, k)
    BY <1>1, <1>8 DEF Popped
  <2>3. (k - n) - 1 = scan_email_local_back(input, k) - 1
    BY <1>2, <2>1, <2>2
  <2> QED
    BY <1>4, <1>5, <2>1, <2>3 DEF Edits
<1>9. ASSUME pass = "dob" PROVE ~At(Out, Start(k, n) - 1, Alphanumeric)
  <2>1. DateAt(input, k) # 0
    BY <1>1, <1>9 DEF MatchAt
  <2>2. ~At(input, k - 1, Alphanumeric)
    BY <1>1, <1>2, <2>1, DateShape
  <2>3. n = 0 /\ (k - n) - 1 = k - 1
    <3>1. n = 0
      BY <1>1, <1>9 DEF Popped
    <3> QED
      BY <1>2, <3>1
  <2> QED
    BY <1>4, <2>2, <2>3 DEF Edits
<1> QED
  BY <1>3, <1>6, <1>7, <1>8, <1>9

LEMMA OutIsText ==
    ASSUME TypeOK
    PROVE  Out \in Text /\ Len(Out) \in Nat
BY TypeParts, JoinedIs, TextType DEF Out

(* A redaction leaves what the scanners before this one cleaned as it is. *)
LEMMA EarlierStaysClean ==
    ASSUME TypeOK, TypeOK', NEW k, NEW n, NEW next, NEW b, Redacts(k, n, next),
           Edits(k, n, next, b), NEW q \in Earlier(pass), NoMatch(q, Out, Len(Out))
    PROVE  NoMatch(q, Out', Len(Out'))
<1> DEFINE a == Start(k, n)
           P == Placeholder(pass)
<1>1. Out \in Text /\ Out' \in Text
  BY OutIsText, JoinedIs, TypeParts DEF Out, TypeOK, Text
<1>2. pass \in Scanners
  BY DEF Redacts
<1>3. PlaceholderText(P) /\ Edited(Out, Out', a, b, P)
  BY <1>2, PlaceholderIsText DEF Scanners, Edits
<1>4. pass \in {"emails", "dob"} /\ (q = "ipv4" \/ (q = "emails" /\ pass = "dob"))
  BY <1>2 DEF Earlier, Scanners
<1>5. ~At(Out, b, Digit) /\ ~At(Out, a - 1, Digit) /\ ~At(Out, a - 1, Alphanumeric)
  BY <1>4, RedactEdge
<1> HIDE DEF a, P
<1>6. Kept(q, Out, Out', a, b, P)
  <2>1. CASE q = "ipv4"
    BY <1>1, <1>3, <1>5, <2>1, IPv4Kept
  <2>2. CASE q = "emails"
    BY <1>1, <1>3, <1>5, <2>2, EmailKept
  <2> QED
    BY <1>4, <2>1, <2>2
<1>7. a \in Nat /\ Len(Out) \in Nat /\ a <= Len(Out) + 1
  <2>1. Len(Out) \in Nat
    BY <1>1, TextType
  <2>2. b \in 1..(Len(Out) + 1) /\ a \in 1..b
    BY <1>3 DEF Edited
  <2> QED
    BY <2>1, <2>2
<1>8. \A x \in 1..Len(Out') : x < a => x \in 1..Len(Out)
  BY <1>7
<1> QED
  BY <1>6, <1>8 DEF Kept, NoMatch

(* Before the first match there is none in the output with the rest. *)
LEMMA NoMatchBefore ==
    ASSUME TypeOK, Border(result, input, i), NEW k, NEW n, NEW next, NEW b,
           Redacts(k, n, next), Edits(k, n, next, b),
           pass \in {"ipv4", "emails", "dob"}, NoMatch(pass, Out, Len(result)),
           NEW x \in Nat \ {0}, x < Start(k, n), x <= Len(Out)
    PROVE  MatchAt(pass, Out, x) = 0
<1> SUFFICES ASSUME MatchAt(pass, Out, x) # 0 PROVE FALSE
  OBVIOUS
<1>1. /\ i \in 1..(Len(input) + 1) /\ input \in Text /\ result \in Text
      /\ k \in i..Len(input) /\ n \in 0..(k - i)
      /\ \A m \in i..(k - 1) : MatchAt(pass, input, m) = 0
  BY TypeParts DEF Redacts, Edits
<1>2. Len(input) \in Nat /\ Len(result) \in Nat /\ i \in Nat /\ k \in Nat /\ n \in Nat
  BY <1>1, TextType
<1>3. x > Len(result)
  BY <1>2 DEF NoMatch
<1> DEFINE y == x + ((i - 1) - Len(result))
<1>4. y \in i..Len(input) /\ MatchAt(pass, input, y) # 0
  BY <1>1, <1>3, UnreadMatch DEF Out
<1>5. x < (Len(result) + ((k - i) - n)) + 1
  BY DEF Start
<1>6. y <= k - 1
  BY <1>1, <1>2, <1>5
<1>7. y \in i..(k - 1)
  BY <1>2, <1>4, <1>6
<1> HIDE DEF y
<1> QED
  BY <1>1, <1>4, <1>7

LEMMA OwnStaysClean ==
    ASSUME TypeOK, TypeOK', Border(result, input, i), NEW k, NEW n, NEW next, NEW b,
           Redacts(k, n, next), Edits(k, n, next, b),
           pass \in {"ipv4", "emails", "dob"}, NoMatch(pass, Out, Len(result))
    PROVE  NoMatch(pass, Out', Len(result'))
<1> DEFINE a == Start(k, n)
           P == Placeholder(pass)
<1> SUFFICES ASSUME NEW x \in 1..Len(result'), MatchAt(pass, Out', x) # 0 PROVE FALSE
  BY DEF NoMatch
<1>1. Out \in Text /\ Out' \in Text /\ Len(Out) \in Nat /\ Len(result') \in Nat
      /\ x \in 1..Len(Out') /\ x \in Nat \ {0}
  <2>1. /\ i' \in 1..(Len(input') + 1) /\ input' \in Text /\ result' \in Text
    BY DEF TypeOK, Text
  <2>2. /\ Out' \in Text /\ Len(Out') = Len(result') + ((Len(input') - i') + 1)
    BY <2>1, JoinedIs DEF Out
  <2>3. Len(result') \in Nat /\ Len(input') \in Nat
    BY <2>1, TextType
  <2>4. Len(result') <= Len(Out') /\ Len(Out') \in Nat
    BY <2>1, <2>2, <2>3
  <2> QED
    BY <2>2, <2>3, <2>4, OutIsText
<1>2. pass \in Scanners
  BY DEF Redacts
<1>3. PlaceholderText(P) /\ Edited(Out, Out', a, b, P) /\ Len(result') = (a - 1) + Len(P)
  BY <1>2, PlaceholderIsText DEF Scanners, Edits
<1>4. ~At(Out, b, Digit) /\ ~At(Out, a - 1, Digit)
      /\ (pass \in {"emails", "dob"} => ~At(Out, a - 1, Alphanumeric))
  BY RedactEdge
<1>5. a \in Nat \ {0} /\ Len(P) \in Nat
  <2>1. /\ i \in 1..(Len(input) + 1) /\ k \in i..Len(input) /\ n \in 0..(k - i)
        /\ Len(input) \in Nat /\ Len(result) \in Nat
    BY TypeParts, TextType DEF Redacts, Edits
  <2>2. a \in Nat \ {0}
    BY <2>1 DEF Start
  <2> QED
    BY <1>3, <2>2 DEF PlaceholderText
<1>6. ASSUME pass = "dob" PROVE Digits(Out, a, 2) /\ ~At(Out, a + 2, {":"})
  <2>1. /\ k \in i..Len(input) /\ i \in 1..(Len(input) + 1) /\ input \in Text /\ result \in Text
        /\ MatchAt(pass, input, k) = next /\ next # 0 /\ n = Popped(pass, input, k)
    BY TypeParts DEF Redacts, Edits
  <2>2. n = 0 /\ DateAt(input, k) # 0
    BY <1>6, <2>1 DEF Popped, MatchAt
  <2>3. k \in Nat /\ i \in Nat /\ Len(result) \in Nat
    BY <2>1, TextType
  <2>4. Digits(input, k, 2) /\ ~At(input, k + 2, {":"})
    BY <2>1, <2>2, <2>3, DateShape
  <2> DEFINE s == (i - 1) - Len(result)
  <2>5. a > Len(result) /\ a + s = k /\ s \in Int
    BY <2>1, <2>2, <2>3 DEF Start
  <2>6. Same(Out, input, s, a, a + 2)
    BY <1>5, <2>1, <2>5, JoinedSame DEF Out
  <2> HIDE DEF s
  <2> HIDE DEF a
  <2>7. \A m \in a..(a + 2) : \A class : At(Out, m, class) <=> At(input, m + s, class)
    BY <1>5, <2>5, <2>6, SameAt
  <2>8. \A m \in a..(a + (2 - 1)) : m \in a..(a + 2) /\ m + s \in k..(k + (2 - 1))
    BY <1>5, <2>3, <2>5
  <2>9. Digits(Out, a, 2)
    <3>1. \A m \in k..(k + (2 - 1)) : At(input, m, Digit)
      BY <2>4 DEF Digits
    <3> QED
      BY <1>5, <2>3, <2>7, <2>8, <3>1 DEF Digits
  <2>10. ~At(Out, a + 2, {":"})
    <3>1. a + 2 \in a..(a + 2) /\ (a + 2) + s = k + 2
      BY <1>5, <2>3, <2>5
    <3> QED
      BY <2>4, <2>7, <3>1
  <2> QED
    BY <2>9, <2>10
<1>7. x < a /\ MatchAt(pass, Out, x) # 0
  <2> HIDE DEF a, P
  <2>1. x < a + Len(P) /\ ~(x > a + Len(P))
    BY <1>1, <1>3, <1>5
  <2>2. CASE pass = "ipv4"
    <3>1. Kept("ipv4", Out, Out', a, b, P)
      BY <1>1, <1>3, <1>4, IPv4Kept
    <3> QED
      BY <1>1, <2>1, <2>2, <3>1 DEF Kept
  <2>3. CASE pass = "emails"
    <3>1. Kept("emails", Out, Out', a, b, P)
      BY <1>1, <1>3, <1>4, <2>3, EmailKept
    <3> QED
      BY <1>1, <2>1, <2>3, <3>1 DEF Kept
  <2>4. CASE pass = "dob"
    <3>1. DateAt(Out', x) # 0
      BY <2>4 DEF MatchAt
    <3>2. x + 10 < a /\ DateAt(Out, x) # 0
      BY <1>1, <1>3, <1>4, <1>6, <2>1, <2>4, <3>1, DateSurvives
    <3>3. x < a
      BY <1>1, <1>5, <3>2
    <3> QED
      BY <2>4, <3>2, <3>3 DEF MatchAt
  <2> QED
    BY <2>2, <2>3, <2>4
<1>8. x <= Len(Out)
  <2>1. b \in 1..(Len(Out) + 1) /\ a \in 1..b
    BY <1>3 DEF Edited
  <2> HIDE DEF a
  <2> QED
    BY <1>1, <1>5, <1>7, <2>1
<1> QED
  BY <1>1, <1>7, <1>8, NoMatchBefore

LEMMA CleanAfterRedact ==
    ASSUME CleanInv, TypeOK', Redact
    PROVE  CleanInv'
<1>1. PICK k, n, next : Redacts(k, n, next)
  BY RedactIs DEF CleanInv
<1>2. TypeOK /\ Border(result, input, i)
  BY DEF CleanInv, Edge
<1>3. input' = input /\ i' = next /\ pass' = pass /\ pass \in Scanners
  BY <1>1 DEF Redacts
<1>4. Edge'
  <2>1. /\ At(result', Len(result'), {"]"}) /\ ~At(input, next, Digit)
        /\ pass = "ipv6" => ~At(input, next, GroupChar)
    BY <1>1, <1>2, RedactKeepsBorder
  <2>2. pass # "done"
    BY <1>3 DEF Scanners
  <2>3. Border(result', input', i')
    BY <1>3, <2>1 DEF Border
  <2>4. pass' = "ipv6" => ~At(input', i', GroupChar)
    BY <1>3, <2>1
  <2> QED
    BY <1>3, <2>2, <2>3, <2>4 DEF Edge
<1>5. ASSUME ~overran' PROVE Clean'
  <2>1. Clean
    BY <1>1, <1>5 DEF CleanInv, Redacts
  <2>2. PICK b : Edits(k, n, next, b)
    BY <1>1, <1>2, <1>5, RedactEdits
  <2>3. ASSUME NEW q \in Earlier(pass) PROVE NoMatch(q, Out', Len(Out'))
    <3>1. NoMatch(q, Out, Len(Out))
      BY <2>1 DEF Clean
    <3> QED
      BY <1>1, <1>2, <2>2, <3>1, EarlierStaysClean
  <2>4. ASSUME pass \in {"ipv4", "emails", "dob"} PROVE NoMatch(pass, Out', Len(result'))
    <3>1. NoMatch(pass, Out, Len(result))
      BY <2>1, <2>4 DEF Clean
    <3> QED
      BY <1>1, <1>2, <2>2, <2>4, <3>1, OwnStaysClean
  <2>5. \A q \in Earlier(pass') : NoMatch(q, Out', Len(Out'))
    BY <1>3, <2>3
  <2>6. pass' \in {"ipv4", "emails", "dob"} => NoMatch(pass', Out', Len(result'))
    BY <1>3, <2>4
  <2> QED
    BY <2>5, <2>6 DEF Clean
<1> QED
  BY <1>4, <1>5 DEF CleanInv

(* With nothing left to redact, the output with the rest has no match. *)
LEMMA WholeIsClean ==
    ASSUME TypeOK, Border(result, input, i), pass \in {"ipv4", "emails", "dob"},
           \A k \in i..Len(input) : MatchAt(pass, input, k) = 0,
           NoMatch(pass, Out, Len(result))
    PROVE  NoMatch(pass, Out, Len(Out))
<1> SUFFICES ASSUME NEW x \in 1..Len(Out), MatchAt(pass, Out, x) # 0 PROVE FALSE
  BY DEF NoMatch
<1>1. /\ i \in 1..(Len(input) + 1) /\ input \in Text /\ result \in Text
      /\ Len(result) \in Nat /\ Len(Out) \in Nat
  BY TypeParts, TextType, OutIsText
<1>2. x > Len(result) /\ x \in Nat /\ x <= Len(Out)
  BY <1>1 DEF NoMatch
<1> DEFINE y == x + ((i - 1) - Len(result))
<1>3. y \in i..Len(input) /\ MatchAt(pass, input, y) # 0
  BY <1>1, <1>2, UnreadMatch DEF Out
<1> HIDE DEF y
<1> QED
  BY <1>3

(* A text is all of itself. *)
LEMMA WholeText ==
    ASSUME NEW t \in Text
    PROVE  Joined(<<>>, t, 1) = t
<1>1. Len(t) \in Nat /\ DOMAIN t = 1..Len(t)
  BY TextType
<1>2. <<>> \in Text /\ Len(<<>>) = 0 /\ 1 \in 1..(Len(t) + 1)
  BY <1>1 DEF Text
<1> DEFINE w == Joined(<<>>, t, 1)
           none == <<>>
<1>3. none \in Text /\ Len(none) = 0
  BY <1>2
<1> HIDE DEF none
<1>4. /\ Joined(none, t, 1) \in Text
      /\ Len(Joined(none, t, 1)) = Len(none) + ((Len(t) - 1) + 1)
      /\ \A x \in (Len(none) + 1)..(Len(none) + ((Len(t) - 1) + 1)) :
            Joined(none, t, 1)[x] = t[x + ((1 - 1) - Len(none))]
  BY <1>2, <1>3, JoinedIs
<1>5. w \in Text /\ Len(w) = Len(t) /\ \A x \in 1..Len(t) : w[x] = t[x]
  BY <1>1, <1>3, <1>4 DEF none
<1> HIDE DEF w
<1> QED
  BY <1>1, <1>5, SeqEqual DEF Text, w

LEMMA CleanAfterNextPass ==
    ASSUME CleanInv, TypeOK', NextPass
    PROVE  CleanInv'
<1>1. TypeOK /\ Edge /\ Border(result, input, i)
  BY DEF CleanInv, Edge
<1>2. /\ pass \in Scanners /\ pass' = NextScanner(pass)
      /\ input' = Out /\ i' = 1 /\ result' = <<>> /\ overran' = overran
      /\ \A k \in i..Len(input) : MatchAt(pass, input, k) = 0
  BY <1>1, NextPassIs
<1>3. Edge'
  BY <1>2 DEF Edge, Border
<1>4. Out' = Out
  <2>1. Out \in Text
    BY <1>1, OutIsText
  <2>2. Out' = Joined(<<>>, Out, 1)
    BY <1>2 DEF Out
  <2> QED
    BY <2>1, <2>2, WholeText
<1>5. ASSUME Clean PROVE Clean'
  <2>1. pass \in {"ipv4", "emails", "dob"} => NoMatch(pass, Out, Len(Out))
    BY <1>1, <1>2, <1>5, WholeIsClean DEF Clean
  <2>2. \A q \in Earlier(pass') : q \in Earlier(pass)
                                  \/ (q = pass /\ pass \in {"ipv4", "emails", "dob"})
    BY <1>2 DEF Earlier, NextScanner, Scanners
  <2>3. \A q \in Earlier(pass') : NoMatch(q, Out', Len(Out'))
    BY <1>4, <1>5, <2>1, <2>2 DEF Clean
  <2>4. Len(result') = 0
    BY <1>2
  <2>5. NoMatch(pass', Out', 0)
    BY DEF NoMatch
  <2> QED
    BY <2>3, <2>4, <2>5 DEF Clean
<1> QED
  BY <1>2, <1>3, <1>5 DEF CleanInv

LEMMA CleanInit ==
    ASSUME Init
    PROVE  CleanInv
<1>1. pass = "ipv6" /\ i = 1 /\ result = <<>>
  BY PassesAre DEF Init
<1>2. Edge
  BY <1>1 DEF Edge, Border
<1>3. Clean
  BY <1>1 DEF Clean, Earlier
<1> QED
  BY <1>2, <1>3, TypeInit DEF CleanInv

LEMMA CleanStep ==
    ASSUME CleanInv, [Next]_vars
    PROVE  CleanInv'
<1>1. TypeOK'
  BY TypeStep DEF CleanInv
<1>2. ASSUME Redact PROVE CleanInv'
  BY <1>1, <1>2, CleanAfterRedact
<1>3. ASSUME NextPass PROVE CleanInv'
  BY <1>1, <1>3, CleanAfterNextPass
<1>4. ASSUME Done \/ UNCHANGED vars PROVE CleanInv'
  <2>1. UNCHANGED vars
    BY <1>4 DEF Done
  <2> QED
    BY <1>1, <2>1 DEF CleanInv, Edge, Clean, Out, vars
<1> QED
  BY <1>2, <1>3, <1>4 DEF Next

LEMMA CleanEnough ==
    ASSUME CleanInv
    PROVE  NothingLeft
<1> SUFFICES ASSUME pass = "done", ~overran, NEW p \in {"ipv4", "emails", "dob"}
             PROVE  Matches(p, input, 1) = {}
  BY DEF NothingLeft
<1>1. TypeOK /\ Edge /\ Clean
  BY DEF CleanInv
<1>2. Out = input
  <2>1. i = 1 /\ result = <<>> /\ input \in Text
    BY <1>1, TypeParts DEF Edge
  <2> QED
    BY <2>1, WholeText DEF Out
<1>3. NoMatch(p, input, Len(input))
  BY <1>1, <1>2 DEF Clean, Earlier
<1> QED
  BY <1>3 DEF NoMatch, Matches

(* What strip_pii returns has no IPv4 address, e-mail address or date of birth *)
(* that its scanner would redact, whatever the text: none of them is made by a *)
(* placeholder and what stands beside it, or by a later scanner's placeholder. *)
THEOREM NothingIsLeft == Spec => []NothingLeft
<1> QED
  BY CleanInit, CleanStep, CleanEnough, PTL DEF Spec
----------------------------------------------------------------------------
(* An IPv4 address inside an IPv6 address.                                    *)

LEMMA SameBack ==
    ASSUME NEW t, NEW u, NEW s \in Int, NEW lo \in Int, NEW hi \in Int,
           Same(t, u, s, lo, hi)
    PROVE  Same(u, t, 0 - s, lo + s, hi + s)
<1> SUFFICES ASSUME NEW x \in (lo + s)..(hi + s)
             PROVE  /\ x \in DOMAIN u <=> x + (0 - s) \in DOMAIN t
                    /\ x \in DOMAIN u => u[x] = t[x + (0 - s)]
  BY DEF Same
<1> DEFINE y == x + (0 - s)
<1>1. y \in lo..hi /\ y + s = x
  OBVIOUS
<1> HIDE DEF y
<1>2. /\ y \in DOMAIN t <=> y + s \in DOMAIN u
      /\ y \in DOMAIN t => t[y] = u[y + s]
  BY <1>1 DEF Same
<1> QED
  BY <1>1, <1>2 DEF y

QuadTo(t, k, end) == \E a, b, c \in Nat : Quad(t, k, a, b, c, end)

(* The IPv4 part of an IPv6 address is the one its scanner finds. *)
LEMMA NoDotBefore ==
    ASSUME NEW t \in Text, NEW m \in Nat \ {0}, NEW e, GroupsShape(t, m, e),
           NEW x \in Nat, m <= x, x < e, ~At(t, x - 1, is_ipv4_adjacent)
    PROVE  DotFree(t, m, x)
<1> SUFFICES ASSUME NEW d \in m..(x - 1), At(t, d, {"."}) PROVE FALSE
  BY DEF DotFree
<1>1. PICK q \in m..e : /\ \A y \in m..(q - 1) : At(t, y, GroupChar)
                        /\ \A y \in q..(e - 1) : At(t, y, is_ipv4_adjacent)
  BY DEF GroupsShape
<1>2. e \in Int /\ Len(t) \in Nat
  BY TextType DEF GroupsShape
<1>3. ~At(t, d, GroupChar)
  BY ClassesDiffer DEF At, GroupChar
<1>4. ~(d \in m..(q - 1))
  BY <1>1, <1>3
<1>5. x - 1 \in q..(e - 1)
  BY <1>1, <1>2, <1>4
<1> QED
  BY <1>1, <1>5

(* Any address that starts before it would have a dot there, and one that      *)
(* starts in it ends where it ends, at the latest.                            *)
LEMMA QuadInside ==
    ASSUME NEW t \in Text, NEW m \in Nat \ {0}, NEW x \in Nat, m <= x, NEW f,
           IPv4Is(t, x, f), DotFree(t, m, x), NEW g \in Nat, m <= g, DotFree(t, m, g),
           NEW q, QuadTo(t, g, q)
    PROVE  x <= g /\ q \in Nat /\ q <= f /\ f \in Nat
<1>1. PICK a, b, c \in Nat : Quad(t, g, a, b, c, q)
  BY DEF QuadTo
<1>2. /\ q \in Nat /\ g < a /\ a < b /\ b < c /\ c < q
      /\ \A y \in g..(q - 1) : At(t, y, is_ipv4_adjacent)
  BY <1>1, QuadShape
<1>3. At(t, a, {"."})
  BY <1>1 DEF Quad
<1>4. f \in Nat /\ x < f
  BY IPv4Shape
<1>5. ~At(t, x - 1, is_ipv4_adjacent) /\ ~At(t, f, is_ipv4_adjacent)
  BY DEF IPv4Is
<1>6. x <= g
  <2> SUFFICES ASSUME g < x PROVE FALSE
    OBVIOUS
  <2>1. ~(a \in m..(x - 1))
    BY <1>3 DEF DotFree
  <2>2. x - 1 \in g..(q - 1)
    BY <1>2, <2>1
  <2> QED
    BY <1>2, <1>5, <2>2
<1>7. g <= f
  <2>1. PICK a4, b4, c4 \in Nat : Quad(t, x, a4, b4, c4, f)
    BY DEF IPv4Is
  <2>2. x < a4 /\ a4 < b4 /\ b4 < c4 /\ c4 < f
    BY <2>1, QuadShape
  <2>3. At(t, a4, {"."})
    BY <2>1 DEF Quad
  <2>4. ~(a4 \in m..(g - 1))
    BY <2>3 DEF DotFree
  <2> SUFFICES ASSUME f < g PROVE FALSE
    BY <1>4
  <2> QED
    BY <1>4, <2>2, <2>4
<1>8. ~(f \in g..(q - 1))
  BY <1>2, <1>5
<1> QED
  BY <1>2, <1>4, <1>6, <1>7, <1>8

(* Such an address is in one text where it is in the other. *)
LEMMA QuadCarried ==
    ASSUME NEW t \in Text, NEW u \in Text, NEW s \in Int, NEW m \in Nat \ {0},
           NEW x \in Nat, m <= x, NEW f, IPv4Is(t, x, f), DotFree(t, m, x),
           NEW hi \in Int, f <= hi, Same(t, u, s, m - 1, hi),
           NEW g \in Nat, m <= g, g + s \in Nat, DotFree(t, m, g), NEW q, QuadTo(t, g, q)
    PROVE  QuadTo(u, g + s, q + s)
<1>1. x <= g /\ q \in Nat /\ q <= f /\ f \in Nat
  BY QuadInside
<1>2. PICK a, b, c \in Nat : Quad(t, g, a, b, c, q)
  BY DEF QuadTo
<1>3. Same(t, u, s, g, q)
  <2>1. m - 1 \in Int /\ m - 1 <= g /\ q <= hi
    BY <1>1
  <2> QED
    BY <1>1, <2>1, SameWithin
<1>4. g \in Nat \ {0}
  OBVIOUS
<1>5. /\ a + s \in Nat /\ b + s \in Nat /\ c + s \in Nat
      /\ Quad(u, g + s, a + s, b + s, c + s, q + s)
  BY <1>2, <1>3, <1>4, SameQuad
<1> QED
  BY <1>5 DEF QuadTo

LEMMA ParsedAlike ==
    ASSUME NEW t \in Text, NEW u \in Text, NEW s \in Int, NEW g \in 1..(Len(t) + 1),
           g + s \in 1..(Len(u) + 1),
           \A q : QuadTo(t, g, q) => QuadTo(u, g + s, q + s),
           \A q : QuadTo(u, g + s, q) => QuadTo(t, g, q - s)
    PROVE  try_parse_ipv4(u, g + s) =
               IF try_parse_ipv4(t, g) = 0 THEN 0 ELSE try_parse_ipv4(t, g) + s
<1>1. \A q : /\ q # 0 /\ try_parse_ipv4(t, g) = q <=> QuadTo(t, g, q)
             /\ q # 0 /\ try_parse_ipv4(u, g + s) = q <=> QuadTo(u, g + s, q)
  BY ParsedIPv4 DEF QuadTo
<1>2. CASE try_parse_ipv4(t, g) # 0
  BY <1>1, <1>2
<1>3. CASE try_parse_ipv4(t, g) = 0
  <2> SUFFICES ASSUME try_parse_ipv4(u, g + s) # 0 PROVE FALSE
    BY <1>3
  <2>1. QuadTo(t, g, try_parse_ipv4(u, g + s) - s)
    BY <1>1
  <2> QED
    BY <1>1, <1>3, <2>1
<1> QED
  BY <1>2, <1>3

LEMMA DotFreeSame ==
    ASSUME NEW t, NEW u, NEW s \in Int, NEW m \in Int, NEW y \in Int, NEW hi \in Int,
           y <= hi, Same(t, u, s, m, hi), DotFree(t, m, y)
    PROVE  DotFree(u, m + s, y + s)
<1> SUFFICES ASSUME NEW d \in (m + s)..((y + s) - 1), At(u, d, {"."}) PROVE FALSE
  BY DEF DotFree
<1> DEFINE c == d - s
<1>1. c \in m..(y - 1) /\ c \in m..hi /\ c + s = d
  OBVIOUS
<1> HIDE DEF c
<1>2. At(t, c, {"."}) <=> At(u, c + s, {"."})
  BY <1>1, SameAt
<1> QED
  BY <1>1, <1>2 DEF DotFree

(* An IPv6 address and the IPv4 address in it stay together. *)
LEMMA NestedStays ==
    ASSUME NEW t \in Text, NEW u \in Text, NEW s \in Int, NEW m \in 1..Len(t),
           m + s \in Nat \ {0}, NEW e, e = IPv6At(t, m), e # 0,
           NEW x \in Nat, m <= x, x < e, NEW f, IPv4Is(t, x, f),
           NEW hi \in Nat, e <= hi, f <= hi, Same(t, u, s, m - 1, hi)
    PROVE  IPv6At(u, m + s) = e + s /\ IPv4Is(u, x + s, f + s)
<1>1. m \in Nat \ {0} /\ Len(t) \in Nat /\ m <= Len(t) /\ m - 1 \in Int
  BY TextType
<1>2. GroupsShape(t, m, e) /\ e \in Nat /\ m < e /\ e <= Len(t) + 1
  <2>1. GroupsShape(t, m, e) /\ m < e
    BY IPv6Shape
  <2> QED
    BY <1>1, <2>1 DEF GroupsShape
<1>3. f \in Nat /\ x < f
  BY IPv4Shape
<1>4. DotFree(t, m, x)
  BY <1>1, <1>2, NoDotBefore DEF IPv4Is
<1>5. x \in Nat \ {0} /\ x + s \in Nat \ {0} /\ m - 1 <= x - 1 /\ x - 1 \in Int
      /\ m <= hi /\ x <= hi /\ m - 1 <= m
  BY <1>1, <1>2
<1>6. IPv4Is(u, x + s, f + s)
  <2>1. Same(t, u, s, x - 1, f)
    BY <1>1, <1>3, <1>5, SameWithin
  <2> QED
    BY <1>5, <2>1, SameIPv4
<1>7. Same(t, u, s, m, hi) /\ Same(t, u, s, m - 1, e)
  BY <1>1, <1>2, <1>5, SameWithin
<1>8. Same(u, t, 0 - s, (m + s) - 1, hi + s)
  <2>1. Same(u, t, 0 - s, (m - 1) + s, hi + s)
    BY <1>1, SameBack
  <2>2. (m - 1) + s = (m + s) - 1
    BY <1>1
  <2> QED
    BY <2>1, <2>2
<1>9. DotFree(u, m + s, x + s)
  BY <1>1, <1>4, <1>5, <1>7, DotFreeSame
<1>10. ASSUME NEW g \in m..e, DotFree(t, m, g)
       PROVE  try_parse_ipv4(u, g + s) =
                  IF try_parse_ipv4(t, g) = 0 THEN 0 ELSE try_parse_ipv4(t, g) + s
  <2>1. /\ g \in Nat /\ g \in m..hi /\ g <= Len(t) + 1 /\ g \in 1..(Len(t) + 1) /\ m <= g
        /\ g + s \in Nat /\ m + s <= g + s /\ m + s <= x + s /\ g <= hi
    BY <1>1, <1>2
  <2>2. g + s \in 1..(Len(u) + 1)
    BY <1>1, <1>7, <2>1, SameDomain
  <2>3. ASSUME NEW q, QuadTo(t, g, q) PROVE QuadTo(u, g + s, q + s)
    BY <1>1, <1>4, <2>1, <2>3, <1>10, QuadCarried
  <2>4. ASSUME NEW q, QuadTo(u, g + s, q) PROVE QuadTo(t, g, q - s)
    <3> DEFINE m2 == m + s
               x2 == x + s
               f2 == f + s
               g2 == g + s
               s2 == 0 - s
               hi2 == hi + s
    <3>1. /\ s2 \in Int /\ m2 \in Nat \ {0} /\ x2 \in Nat /\ m2 <= x2 /\ IPv4Is(u, x2, f2)
          /\ DotFree(u, m2, x2) /\ hi2 \in Int /\ f2 <= hi2 /\ Same(u, t, s2, m2 - 1, hi2)
          /\ g2 \in Nat /\ m2 <= g2 /\ g2 + s2 \in Nat /\ g2 + s2 = g
      BY <1>3, <1>5, <1>6, <1>8, <1>9, <2>1
    <3>2. DotFree(u, m2, g2)
      BY <1>1, <1>7, <1>10, <2>1, DotFreeSame
    <3> HIDE DEF m2, x2, f2, g2, s2, hi2
    <3>3. QuadTo(u, g2, q)
      BY <2>4 DEF g2
    <3>4. QuadTo(t, g2 + s2, q + s2) /\ q \in Nat
      BY <3>1, <3>2, <3>3, QuadCarried, QuadInside
    <3>5. q + s2 = q - s
      BY <3>4 DEF s2
    <3> QED
      BY <3>1, <3>4, <3>5
  <2> QED
    BY <2>1, <2>2, <2>3, <2>4, ParsedAlike
<1>11. Alike(t, u, s, m, e)
  BY <1>10 DEF Alike
<1>12. IPv6At(u, m + s) = e + s
  BY <1>7, <1>11, SameIPv6
<1> QED
  BY <1>6, <1>12

(* No IPv4 address lies in an IPv6 address that starts in the first n places. *)
Unmixed(t, n) ==
    \A m \in 1..n, x \in Nat :
        m <= x /\ x < IPv6At(t, m) /\ x <= Len(t) => IPv4At(t, x) = 0

MixInv ==
    /\ CleanInv
    /\ pass = "ipv6" => ~overran /\ Unmixed(Out, Len(result))
    /\ pass = "ipv4" => Unmixed(input, Len(input))

(* An IPv6 address with an IPv4 address in it does not reach a placeholder. *)
LEMMA MixedBefore ==
    ASSUME NEW t \in Text, NEW u \in Text, NEW a, NEW b, NEW P,
           PlaceholderText(P), Edited(t, u, a, b, P),
           ~At(t, a - 1, GroupChar),
           NEW m \in 1..Len(u), m <= (a - 1) + Len(P), NEW e, e = IPv6At(u, m), e # 0,
           NEW x \in Nat, m <= x, x < e, At(u, x, Digit)
    PROVE  e < a
<1>1. GroupsShape(u, m, e) /\ m < e
  BY IPv6Shape
<1>2. m \in Nat \ {0} /\ e \in Nat /\ Len(u) \in Nat
  BY <1>1, TextType DEF GroupsShape
<1>3. a \in Nat \ {0} /\ Len(P) \in Nat /\ Len(P) > 2 /\ P[1] = "[" /\ P[Len(P)] = "]"
      /\ P \in Seq(PlaceholderChar)
  BY BesidePlaceholder DEF PlaceholderText
<1>4. \A y \in 1..Len(P) : (a - 1) + y \in DOMAIN u /\ u[(a - 1) + y] = P[y]
  BY DEF Edited
<1>5. \A y \in m..(e - 1) : At(u, y, GroupChar) \/ At(u, y, is_ipv4_adjacent)
  <2>1. PICK q \in m..e : /\ \A y \in m..(q - 1) : At(u, y, GroupChar)
                          /\ \A y \in q..(e - 1) : At(u, y, is_ipv4_adjacent)
    BY <1>1 DEF GroupsShape
  <2>2. \A y \in m..(e - 1) : y \in m..(q - 1) \/ y \in q..(e - 1)
    BY <1>2
  <2> QED
    BY <2>1, <2>2
<1>6. \A y \in m..(e - 1) : u[y] # "[" /\ u[y] # "]"
  <2>1. \A c \in {"[", "]"} : c \notin GroupChar /\ c \notin is_ipv4_adjacent
    BY ClassesDiffer DEF GroupChar, is_ipv4_adjacent
  <2> QED
    BY <1>5, <2>1 DEF At
<1>7. u[a] = "[" /\ u[(a - 1) + Len(P)] = "]"
  <2>1. 1 \in 1..Len(P) /\ Len(P) \in 1..Len(P) /\ (a - 1) + 1 = a
    BY <1>3
  <2> QED
    BY <1>3, <1>4, <2>1
<1>8. ~(a \in m..(e - 1)) /\ ~((a - 1) + Len(P) \in m..(e - 1))
  BY <1>6, <1>7
<1>9. e <= a \/ (a < m /\ e <= (a - 1) + Len(P))
  BY <1>2, <1>3, <1>8
<1>10. ASSUME a < m, e <= (a - 1) + Len(P) PROVE FALSE
  <2> DEFINE y == x - (a - 1)
  <2>1. y \in 1..Len(P) /\ (a - 1) + y = x
    BY <1>2, <1>3, <1>10
  <2> HIDE DEF y
  <2>2. u[x] = P[y] /\ P[y] \in PlaceholderChar
    BY <1>3, <1>4, <2>1
  <2> QED
    BY <2>2, PlaceholderLacks DEF At
<1>11. e # a
  <2> SUFFICES ASSUME e = a PROVE FALSE
    OBVIOUS
  <2>1. At(u, a - 1, GroupChar)
    BY <1>1, <1>2 DEF GroupsShape
  <2> QED
    BY <2>1, BesidePlaceholder
<1> QED
  BY <1>2, <1>3, <1>9, <1>10, <1>11

(* What is in the unread part of the output is in the text. *)
LEMMA UnreadMixed ==
    ASSUME TypeOK, Edge, pass = "ipv6", NEW m \in Nat, m > Len(result), m <= Len(Out),
           NEW e, e = IPv6At(Out, m), e # 0,
           NEW x \in Nat, m <= x, x < e, NEW f, IPv4Is(Out, x, f)
    PROVE  /\ m + ((i - 1) - Len(result)) \in i..Len(input)
           /\ IPv6At(input, m + ((i - 1) - Len(result))) # 0
           /\ IPv6At(input, m + ((i - 1) - Len(result)))
                 > x + ((i - 1) - Len(result))
           /\ IPv4Is(input, x + ((i - 1) - Len(result)), f + ((i - 1) - Len(result)))
<1> DEFINE s == (i - 1) - Len(result)
<1>1. /\ i \in 1..(Len(input) + 1) /\ input \in Text /\ result \in Text
      /\ Len(input) \in Nat /\ Len(result) \in Nat /\ i \in Nat \ {0}
      /\ Out \in Text /\ Len(Out) \in Nat
      /\ Len(Out) = Len(result) + ((Len(input) - i) + 1)
  <2>1. i \in 1..(Len(input) + 1) /\ input \in Text /\ result \in Text
    BY TypeParts
  <2>2. Len(input) \in Nat /\ Len(result) \in Nat
    BY <2>1, TextType
  <2>3. Len(Out) = Len(result) + ((Len(input) - i) + 1)
    BY <2>1, JoinedIs DEF Out
  <2> QED
    BY <2>1, <2>2, <2>3, OutIsText
<1>2. m \in 1..Len(Out) /\ s \in Int /\ m + s \in Nat \ {0} /\ m + s \in i..Len(input)
  BY <1>1
<1>3. GroupsShape(Out, m, e) /\ At(Out, m, GroupChar)
  BY <1>1, <1>2, IPv6Shape
<1>4. e \in Nat /\ f \in Nat
  BY <1>1, <1>2, <1>3, IPv4Shape DEF GroupsShape
<1>5. m > Len(result) + 1 \/ (m > Len(result) /\ i = 1 /\ result = <<>>)
  <2> SUFFICES ASSUME m = Len(result) + 1, ~(i = 1 /\ result = <<>>) PROVE FALSE
    BY <1>1
  <2>1. ~At(input, i, GroupChar)
    BY DEF Edge
  <2>2. Same(Out, input, s, m, m)
    BY <1>1, JoinedSame DEF Out
  <2>3. m + s = i
    BY <1>1
  <2> HIDE DEF s
  <2>4. At(Out, m, GroupChar) <=> At(input, m + s, GroupChar)
    BY <1>2, <2>2, SameAt
  <2> QED
    BY <1>3, <2>1, <2>3, <2>4
<1>6. PICK hi \in Nat : e <= hi /\ f <= hi
  <2>1. e + f \in Nat /\ e <= e + f /\ f <= e + f
    BY <1>4
  <2> QED
    BY <2>1
<1>7. Same(Out, input, s, m - 1, hi)
  BY <1>1, <1>5, UnreadSame DEF Out
<1> HIDE DEF s
<1>8. IPv6At(input, m + s) = e + s /\ IPv4Is(input, x + s, f + s)
  BY <1>1, <1>2, <1>6, <1>7, NestedStays
<1>9. e + s # 0 /\ e + s > x + s
  BY <1>2, <1>4
<1> QED
  BY <1>2, <1>8, <1>9 DEF s

LEMMA UnmixedAfterRedact ==
    ASSUME MixInv, TypeOK', Redact, pass = "ipv6"
    PROVE  ~overran' /\ Unmixed(Out', Len(result'))
<1>1. PICK k, n, next : Redacts(k, n, next)
  BY RedactIs DEF MixInv, CleanInv
<1>2. /\ TypeOK /\ Edge /\ Border(result, input, i)
      /\ ~overran /\ Unmixed(Out, Len(result))
  BY DEF MixInv, CleanInv, Edge
<1>3. /\ i \in 1..(Len(input) + 1) /\ input \in Text /\ result \in Text
      /\ k \in i..Len(input) /\ MatchAt(pass, input, k) = next /\ next # 0
      /\ \A y \in i..(k - 1) : MatchAt(pass, input, y) = 0
  BY <1>1, <1>2, TypeParts DEF Redacts
<1>4. /\ Len(input) \in Nat /\ Len(result) \in Nat /\ i \in Nat /\ k \in Nat
      /\ k \in 1..Len(input)
  BY <1>3, TextType
<1>5. Popped(pass, input, k) = 0
  BY DEF Popped
<1>6. ~overran'
  <2>1. ~(Popped(pass, input, k) > k - i)
    BY <1>3, <1>4, <1>5
  <2> QED
    BY <1>1, <1>2, <2>1 DEF Redacts
<1>7. PICK b : Edits(k, n, next, b)
  BY <1>1, <1>2, <1>6, RedactEdits
<1> DEFINE a == Start(k, n)
           P == Placeholder(pass)
<1>8. Out \in Text /\ Out' \in Text /\ Len(Out) \in Nat
  BY <1>2, OutIsText, JoinedIs, TypeParts DEF Out, TypeOK, Text
<1>9. /\ PlaceholderText(P) /\ Edited(Out, Out', a, b, P) /\ Len(result') = (a - 1) + Len(P)
      /\ n = 0
  BY <1>5, <1>7, PlaceholderIsText DEF Edits
<1>10. a = (Len(result) + (k - i)) + 1 /\ a \in Nat
  BY <1>3, <1>4, <1>9 DEF Start
<1>11. ~At(Out, a - 1, GroupChar) /\ ~At(Out, a - 1, Digit) /\ ~At(Out, b, Digit)
  <2>1. ~At(input, k - 1, GroupChar)
    <3>1. IPv6At(input, k) # 0
      BY <1>3 DEF MatchAt
    <3> QED
      BY <1>3, <1>4, <3>1, IPv6Shape
  <2>2. "]" \notin GroupChar
    BY ClassesDiffer DEF GroupChar
  <2>3. (k - n) - 1 = k - 1
    BY <1>4, <1>9
  <2>4. ~At(Out, a - 1, GroupChar)
    BY <1>7, <2>1, <2>2, <2>3 DEF Edits
  <2>5. At(Out, a - 1, Digit) => At(Out, a - 1, GroupChar)
    BY ClassesDiffer DEF At, GroupChar
  <2> QED
    BY <1>1, <1>2, <1>7, <2>4, <2>5, RedactEdge
<1> HIDE DEF a, P
<1>12. ASSUME NEW m \in 1..Len(result'), NEW x \in Nat, m <= x,
              x < IPv6At(Out', m), x <= Len(Out'), IPv4At(Out', x) # 0
       PROVE  FALSE
  <2> DEFINE e == IPv6At(Out', m)
             f == IPv4At(Out', x)
             s == (i - 1) - Len(result)
  <2>1. Len(result') <= Len(Out') /\ Len(Out') \in Nat /\ Len(result') \in Nat
    <3>1. /\ i' \in 1..(Len(input') + 1) /\ input' \in Text /\ result' \in Text
      BY DEF TypeOK, Text
    <3>2. Len(Out') = Len(result') + ((Len(input') - i') + 1)
      BY <3>1, JoinedIs DEF Out
    <3>3. Len(result') \in Nat /\ Len(input') \in Nat
      BY <3>1, TextType
    <3> QED
      BY <3>1, <3>2, <3>3
  <2>2. /\ m \in 1..Len(Out') /\ m \in Nat \ {0} /\ m - 1 \in Int /\ m - 1 >= 0
        /\ x \in Nat \ {0} /\ x \in 1..(Len(Out') + 1)
    BY <1>12, <2>1
  <2>3. e = IPv6At(Out', m) /\ x < e /\ f = IPv4At(Out', x) /\ f # 0
    BY <1>12
  <2> HIDE DEF e, f
  <2>4. e # 0
    BY <2>2, <2>3
  <2>5. IPv4Is(Out', x, f)
    BY <1>8, <2>2, <2>3, MatchedIPv4
  <2>6. At(Out', x, Digit) /\ f \in Nat /\ x < f
    BY <1>8, <2>5, IPv4Shape
  <2>7. e < a
    <3>1. m <= (a - 1) + Len(P)
      BY <1>9, <2>1, <2>2
    <3> QED
      BY <1>8, <1>9, <1>11, <1>12, <2>2, <2>3, <2>4, <2>6, <3>1, MixedBefore
  <2>8. e \in Nat /\ GroupsShape(Out', m, e)
    <3>1. GroupsShape(Out', m, e)
      BY <1>8, <2>2, <2>3, <2>4, IPv6Shape
    <3>2. e \in m..(Len(Out') + 1)
      BY <3>1 DEF GroupsShape
    <3> QED
      BY <2>1, <2>2, <3>1, <3>2
  <2>9. f < a /\ IPv4Is(Out, x, f)
    <3>1. x < a /\ Len(P) \in Nat
      BY <1>8, <1>9, <1>10, <2>2, <2>3, <2>7, <2>8, BesidePlaceholder
    <3>2. ~(x > a + Len(P))
      BY <1>10, <2>2, <3>1
    <3> QED
      BY <1>8, <1>9, <1>11, <2>2, <2>5, <3>2, IPv4Survives
  <2>10. Same(Out', Out, 0, m - 1, a - 1)
    <3>1. Len(P) \in Nat /\ a - 1 \in Int /\ a - 1 < a
      BY <1>8, <1>9, <1>10, BesidePlaceholder
    <3> QED
      BY <1>8, <1>9, <2>2, <3>1, HalvesStay
  <2>11. IPv6At(Out, m) = e
    <3>1. a - 1 \in Nat /\ e <= a - 1 /\ f <= a - 1
      BY <1>10, <2>6, <2>7, <2>8, <2>9
    <3>2. m + 0 \in Nat \ {0} /\ 0 \in Int
      BY <2>2
    <3>3. IPv6At(Out, m + 0) = e + 0
      BY <1>8, <1>12, <2>2, <2>3, <2>4, <2>5, <2>10, <3>1, <3>2, NestedStays
    <3>4. m + 0 = m /\ e + 0 = e
      BY <2>2, <2>8
    <3> QED
      BY <3>3, <3>4
  <2>12. x \in 1..Len(Out) /\ x \in 1..(Len(Out) + 1)
    <3>1. At(Out, x, Digit)
      BY <1>8, <2>2, <2>9, IPv4Shape
    <3> QED
      BY <1>8, <3>1, TextType
  <2>13. IPv4At(Out, x) = f
    BY <1>8, <2>3, <2>9, <2>12, MatchedIPv4
  <2>14. m > Len(result)
    <3> SUFFICES ASSUME m <= Len(result) PROVE FALSE
      BY <1>4, <2>2
    <3>1. m \in 1..Len(result)
      BY <1>4, <2>2
    <3>2. x <= Len(Out)
      BY <1>8, <2>12
    <3> QED
      BY <1>2, <1>12, <2>3, <2>11, <2>13, <3>1, <3>2 DEF Unmixed
  <2>15. m <= Len(Out)
    BY <1>8, <1>12, <2>2, <2>12
  <2>16. m + s \in i..Len(input) /\ IPv6At(input, m + s) # 0
    BY <1>2, <1>12, <2>2, <2>3, <2>4, <2>9, <2>11, <2>14, <2>15, UnreadMixed
  <2>17. m + s \in i..(k - 1)
    <3>1. m < a
      BY <1>10, <1>12, <2>2, <2>3, <2>7, <2>8
    <3> QED
      BY <1>4, <1>10, <2>2, <2>16, <3>1
  <2> HIDE DEF s
  <2> QED
    BY <1>3, <2>16, <2>17 DEF MatchAt
<1>13. Unmixed(Out', Len(result'))
  BY <1>12 DEF Unmixed
<1> QED
  BY <1>6, <1>13

(* The IPv6 scanner leaves no IPv4 address inside an IPv6 address. *)
LEMMA UnmixedAfterNextPass ==
    ASSUME MixInv, NextPass, pass = "ipv6"
    PROVE  Unmixed(Out, Len(Out))
<1>1. TypeOK /\ Edge /\ Unmixed(Out, Len(result))
  BY DEF MixInv, CleanInv
<1>2. \A y \in i..Len(input) : IPv6At(input, y) = 0
  BY <1>1, NextPassIs DEF MatchAt
<1>3. Out \in Text /\ Len(Out) \in Nat /\ Len(result) \in Nat
  BY <1>1, OutIsText, TypeParts, TextType
<1>4. ASSUME NEW m \in 1..Len(Out), NEW x \in Nat, m <= x, x < IPv6At(Out, m), x <= Len(Out),
             IPv4At(Out, x) # 0
      PROVE  FALSE
  <2> DEFINE e == IPv6At(Out, m)
             f == IPv4At(Out, x)
  <2>1. e = IPv6At(Out, m) /\ x < e /\ f = IPv4At(Out, x) /\ f # 0
    BY <1>4
  <2> HIDE DEF e, f
  <2>2. m \in Nat /\ m <= Len(Out) /\ x \in 1..(Len(Out) + 1)
    BY <1>3, <1>4
  <2>3. e # 0
    BY <1>3, <1>4, <2>1
  <2>4. IPv4Is(Out, x, f)
    BY <1>3, <2>1, <2>2, MatchedIPv4
  <2>5. m > Len(result)
    <3> SUFFICES ASSUME m <= Len(result) PROVE FALSE
      BY <1>3, <2>2
    <3>1. m \in 1..Len(result)
      BY <1>3, <1>4
    <3> QED
      BY <1>1, <1>4, <3>1 DEF Unmixed
  <2> DEFINE s == (i - 1) - Len(result)
  <2>6. m + s \in i..Len(input) /\ IPv6At(input, m + s) # 0
    BY <1>1, <1>4, <2>1, <2>2, <2>3, <2>4, <2>5, UnreadMixed
  <2> HIDE DEF s
  <2> QED
    BY <1>2, <2>6
<1> QED
  BY <1>4 DEF Unmixed

LEMMA MixInit ==
    ASSUME Init
    PROVE  MixInv
<1>1. pass = "ipv6" /\ result = <<>> /\ ~overran
  BY PassesAre DEF Init
<1>2. Len(result) = 0
  BY <1>1
<1>3. Unmixed(Out, Len(result))
  BY <1>2 DEF Unmixed
<1> QED
  BY <1>1, <1>3, CleanInit DEF MixInv

LEMMA MixStep ==
    ASSUME MixInv, [Next]_vars
    PROVE  MixInv'
<1>1. CleanInv' /\ TypeOK'
  BY CleanStep DEF MixInv, CleanInv
<1>2. ASSUME Redact PROVE MixInv'
  <2>1. pass' = pass /\ input' = input
    BY <1>2 DEF Redact
  <2>2. pass = "ipv6" => ~overran' /\ Unmixed(Out', Len(result'))
    BY <1>1, <1>2, UnmixedAfterRedact
  <2> QED
    BY <1>1, <2>1, <2>2 DEF MixInv
<1>3. ASSUME NextPass PROVE MixInv'
  <2>1. pass \in Scanners /\ pass' = NextScanner(pass) /\ input' = Out
    BY <1>3, NextPassIs DEF MixInv, CleanInv
  <2>2. pass' # "ipv6" /\ (pass' = "ipv4" => pass = "ipv6")
    BY <2>1 DEF NextScanner, Scanners
  <2>3. pass' = "ipv4" => Unmixed(input', Len(input'))
    BY <1>3, <2>1, <2>2, UnmixedAfterNextPass
  <2> QED
    BY <1>1, <2>2, <2>3 DEF MixInv
<1>4. ASSUME Done \/ UNCHANGED vars PROVE MixInv'
  <2>1. UNCHANGED vars
    BY <1>4 DEF Done
  <2> QED
    BY <1>1, <2>1 DEF MixInv, Out, vars
<1> QED
  BY <1>2, <1>3, <1>4 DEF Next

LEMMA MixEnough ==
    ASSUME MixInv
    PROVE  MappedIsOneAddress
<1> SUFFICES ASSUME pass = "ipv4",
                    NEW k \in Matches("ipv4", input, i), NEW m \in Matches("ipv6", input, 1),
                    ~(m > k \/ MatchAt("ipv6", input, m) <= k)
             PROVE  FALSE
  BY DEF MappedIsOneAddress
<1>1. /\ i \in 1..(Len(input) + 1) /\ input \in Text /\ Unmixed(input, Len(input))
      /\ Len(input) \in Nat
  BY TypeParts, TextType DEF MixInv, CleanInv
<1>2. /\ k \in i..Len(input) /\ IPv4At(input, k) # 0
      /\ m \in 1..Len(input) /\ IPv6At(input, m) # 0
      /\ MatchAt("ipv6", input, m) = IPv6At(input, m)
  BY DEF Matches, MatchAt
<1>3. IPv6At(input, m) \in (m + 1)..(Len(input) + 1)
  BY <1>1, <1>2, MatchRange DEF Scanners
<1>4. k \in Nat /\ m <= k /\ k < IPv6At(input, m) /\ k <= Len(input)
  BY <1>1, <1>2, <1>3
<1> QED
  BY <1>1, <1>2, <1>4 DEF Unmixed

(* When the IPv4 scanner is at work, no address it finds lies within an IPv6   *)
(* address: the IPv6 scanner, which goes first, has taken each of them whole,  *)
(* and its placeholders have not made a new one.                              *)
THEOREM MappedIsOne == Spec => []MappedIsOneAddress
<1> QED
  BY MixInit, MixStep, MixEnough, PTL DEF Spec
----------------------------------------------------------------------------
(* What a redaction takes out is a pattern.                                   *)

(* The stretch of t from k to end, as a text of its own. *)
Cut(t, s, k, end) ==
    /\ t \in Text /\ s \in Text /\ k \in Nat \ {0} /\ end \in Nat
    /\ k <= end /\ end <= Len(t) + 1 /\ Len(s) = end - k
    /\ \A n \in 1..(end - k) : s[n] = t[(k - 1) + n]

LEMMA CutIs ==
    ASSUME NEW t \in Text, NEW k \in Nat \ {0}, NEW end \in Nat,
           k <= end, end <= Len(t) + 1
    PROVE  Cut(t, SubSeq(t, k, end - 1), k, end)
<1> DEFINE s == SubSeq(t, k, end - 1)
<1>1. \A n \in k..(end - 1) : t[n] \in Char
  BY TextType
<1>2. /\ s \in Seq(Char) /\ Len(s) = IF k <= end - 1 THEN (end - 1) - k + 1 ELSE 0
      /\ \A n \in 1..((end - 1) - k + 1) : s[n] = t[k + n - 1]
  BY <1>1, SubSeqProperties
<1> HIDE DEF s
<1>3. Len(s) = end - k
  BY <1>2
<1>4. ASSUME NEW n \in 1..(end - k) PROVE s[n] = t[(k - 1) + n]
  <2>1. n \in 1..((end - 1) - k + 1) /\ k + n - 1 = (k - 1) + n
    OBVIOUS
  <2> QED
    BY <1>2, <2>1
<1>5. Cut(t, s, k, end)
  BY <1>2, <1>3, <1>4 DEF Cut, Text
<1> QED
  BY <1>5 DEF s

LEMMA CutSame ==
    ASSUME NEW t, NEW s, NEW k, NEW end, Cut(t, s, k, end)
    PROVE  Same(t, s, 1 - k, k, end - 1)
<1>1. /\ t \in Text /\ s \in Text /\ k \in Nat \ {0} /\ end \in Nat
      /\ k <= end /\ end <= Len(t) + 1 /\ Len(s) = end - k
      /\ \A n \in 1..(end - k) : s[n] = t[(k - 1) + n]
  BY DEF Cut
<1>2. Len(t) \in Nat /\ DOMAIN t = 1..Len(t) /\ DOMAIN s = 1..Len(s)
  BY <1>1, TextType
<1>3. ASSUME NEW x \in k..(end - 1)
      PROVE  x \in DOMAIN t /\ x + (1 - k) \in DOMAIN s /\ t[x] = s[x + (1 - k)]
  <2>1. x + (1 - k) \in 1..(end - k) /\ (k - 1) + (x + (1 - k)) = x
    BY <1>1
  <2>2. x \in 1..Len(t)
    BY <1>1, <1>2
  <2> QED
    BY <1>1, <1>2, <2>1, <2>2
<1> QED
  BY <1>3 DEF Same

(* A stretch, from a to b, of the stretch. *)
CutAgain(t, s, k, end, a, b, x, y) ==
    /\ Cut(t, s, k, end) /\ a \in Nat /\ b \in Nat /\ k <= a /\ a <= b + 1 /\ b < end
    /\ x = (a - k) + 1 /\ y = (b - k) + 1

Part(t, a, b) == SubSeq(t, a, b)

LEMMA CutCut ==
    ASSUME NEW t, NEW s, NEW k, NEW end, NEW a, NEW b, NEW x, NEW y,
           CutAgain(t, s, k, end, a, b, x, y)
    PROVE  Part(s, x, y) = Part(t, a, b)
<1>1. /\ t \in Text /\ s \in Text /\ k \in Nat \ {0} /\ end <= Len(t) + 1 /\ end \in Nat
      /\ Same(t, s, 1 - k, k, end - 1)
      /\ a \in Nat /\ b \in Nat /\ k <= a /\ a <= b + 1 /\ b < end
      /\ x = (a - k) + 1 /\ y = (b - k) + 1
  BY CutSame DEF Cut, CutAgain
<1>2. Len(t) \in Nat
  BY <1>1, TextType
<1>3. Same(t, s, 1 - k, a, b)
  BY <1>1, SameWithin
<1>4. /\ a \in Nat \ {0} /\ b + 1 <= Len(t) + 1 /\ 1 - k \in Int
      /\ (b + 1) - 1 = b /\ b + 1 \in Nat
      /\ a + (1 - k) = x /\ ((b + 1) + (1 - k)) - 1 = y
  BY <1>1, <1>2
<1>5. Piece(t, s, 1 - k, a, b + 1)
  BY <1>1, <1>3, <1>4 DEF Piece
<1>6. SubSeq(t, a, (b + 1) - 1) = SubSeq(s, a + (1 - k), ((b + 1) + (1 - k)) - 1)
  BY <1>1, <1>4, <1>5, SamePiece
<1>7. SubSeq(t, a, b) = SubSeq(s, x, y)
  BY <1>4, <1>6
<1> QED
  BY <1>7 DEF Part

LEMMA OctetIsOctet ==
    ASSUME NEW t \in Text, NEW k \in Nat \ {0}, NEW end, OctetAt(t, k, end)
    PROVE  IsOctet(Part(t, k, end - 1))
<1> DEFINE s == SubSeq(t, k, end - 1)
<1>1. /\ end \in Nat /\ k <= end /\ end - k \in 1..3 /\ Number(s) <= 255
      /\ \A n \in k..(end - 1) : At(t, n, Digit)
  BY DEF OctetAt, Run
<1>2. end <= Len(t) + 1
  <2>1. At(t, end - 1, Digit)
    BY <1>1
  <2> QED
    BY <1>1, <2>1, TextType
<1>3. Cut(t, s, k, end)
  BY <1>1, <1>2, CutIs
<1> HIDE DEF s
<1>4. s \in Text /\ Len(s) = end - k /\ \A n \in 1..(end - k) : s[n] = t[(k - 1) + n]
  BY <1>3 DEF Cut
<1>5. ASSUME NEW m \in 1..(1 + Len(s) - 1) PROVE At(s, m, Digit)
  <2>1. m \in 1..(end - k) /\ (k - 1) + m \in k..(end - 1) /\ m \in 1..Len(s)
    BY <1>1, <1>4
  <2>2. s[m] \in Digit
    BY <1>1, <1>4, <2>1 DEF At
  <2> QED
    BY <1>4, <2>1, <2>2, TextType DEF At
<1>6. Digits(s, 1, Len(s)) /\ Len(s) \in 1..3
  BY <1>1, <1>4, <1>5 DEF Digits
<1> QED
  BY <1>1, <1>6 DEF IsOctet, Part, s

LEMMA QuadIsIPv4 ==
    ASSUME NEW t \in Text, NEW k \in Nat \ {0}, NEW a \in Nat, NEW b \in Nat, NEW c \in Nat,
           NEW end, Quad(t, k, a, b, c, end)
    PROVE  IsIPv4(SubSeq(t, k, end - 1))
<1> DEFINE s == SubSeq(t, k, end - 1)
<1>1. end \in Nat /\ k < a /\ a < b /\ b < c /\ c < end /\ end <= Len(t) + 1
  BY QuadShape
<1>2. Cut(t, s, k, end)
  BY <1>1, CutIs
<1> HIDE DEF s
<1>3. s \in Text /\ Len(s) = end - k /\ DOMAIN s = 1..(end - k)
      /\ \A n \in 1..(end - k) : s[n] = t[(k - 1) + n]
  BY <1>2, TextType DEF Cut
<1> DEFINE x == (a - k) + 1  y == (b - k) + 1  z == (c - k) + 1
<1>4. /\ x \in DOMAIN s /\ y \in DOMAIN s /\ z \in DOMAIN s /\ x < y /\ y < z
      /\ (k - 1) + x = a /\ (k - 1) + y = b /\ (k - 1) + z = c
  BY <1>1, <1>3
<1>5. s[x] = "." /\ s[y] = "." /\ s[z] = "."
  <2>1. At(t, a, {"."}) /\ At(t, b, {"."}) /\ At(t, c, {"."})
    BY DEF Quad
  <2> HIDE DEF x, y, z
  <2> QED
    BY <1>3, <1>4, <2>1 DEF At
<1>6. /\ Part(s, 1, x - 1) = Part(t, k, a - 1)
      /\ Part(s, x + 1, y - 1) = Part(t, a + 1, b - 1)
      /\ Part(s, y + 1, z - 1) = Part(t, b + 1, c - 1)
      /\ Part(s, z + 1, Len(s)) = Part(t, c + 1, end - 1)
  <2>1. /\ CutAgain(t, s, k, end, k, a - 1, 1, x - 1)
        /\ CutAgain(t, s, k, end, a + 1, b - 1, x + 1, y - 1)
        /\ CutAgain(t, s, k, end, b + 1, c - 1, y + 1, z - 1)
        /\ CutAgain(t, s, k, end, c + 1, end - 1, z + 1, Len(s))
    BY <1>1, <1>2, <1>3 DEF CutAgain
  <2>2. x \in Nat /\ y \in Nat /\ z \in Nat
    BY <1>1
  <2> HIDE DEF x, y, z
  <2>3. Part(s, 1, x - 1) = Part(t, k, a - 1)
    BY <1>1, <2>1, <2>2, CutCut
  <2>4. Part(s, x + 1, y - 1) = Part(t, a + 1, b - 1)
    BY <1>1, <2>1, <2>2, CutCut
  <2>5. Part(s, y + 1, z - 1) = Part(t, b + 1, c - 1)
    BY <1>1, <2>1, <2>2, CutCut
  <2>6. Part(s, z + 1, Len(s)) = Part(t, c + 1, end - 1)
    BY <1>1, <2>1, <2>2, CutCut
  <2> QED
    BY <2>3, <2>4, <2>5, <2>6
<1> HIDE DEF x, y, z
<1>8. /\ IsOctet(Part(t, k, a - 1)) /\ IsOctet(Part(t, a + 1, b - 1))
      /\ IsOctet(Part(t, b + 1, c - 1)) /\ IsOctet(Part(t, c + 1, end - 1))
  BY <1>1, OctetIsOctet DEF Quad
<1>9. /\ IsOctet(Part(s, 1, x - 1)) /\ IsOctet(Part(s, x + 1, y - 1))
      /\ IsOctet(Part(s, y + 1, z - 1)) /\ IsOctet(Part(s, z + 1, Len(s)))
  BY <1>6, <1>8
<1>10. IsIPv4(s)
  BY <1>4, <1>5, <1>9 DEF IsIPv4, Part
<1> QED
  BY <1>10 DEF s

LEMMA EmailIsEmail ==
    ASSUME NEW t \in Text, NEW k \in Nat \ {0}, NEW end, EmailIs(t, k, end),
           NEW lo \in 1..k, lo < k,
           \A m \in lo..(k - 1) : At(t, m, is_email_local_char)
    PROVE  IsEmail(SubSeq(t, lo, end - 1)) \/ IsLoneTld(SubSeq(t, lo, end - 1))
<1> DEFINE s == SubSeq(t, lo, end - 1)
<1>1. /\ end \in Nat /\ k + 3 < end /\ end <= Len(t) + 1
      /\ \A x \in (k + 1)..(end - 1) : At(t, x, EmailDomain)
  BY EmailShapes
<1>2. Cut(t, s, lo, end)
  BY <1>1, CutIs
<1> HIDE DEF s
<1>3. s \in Text /\ Len(s) = end - lo /\ DOMAIN s = 1..(end - lo)
      /\ \A n \in 1..(end - lo) : s[n] = t[(lo - 1) + n]
  BY <1>2, TextType DEF Cut
<1>4. PICK d \in (k + 1)..(end - 1) :
          /\ At(t, d, {"."}) /\ end - d > 2
          /\ \A n \in (d + 1)..(end - 1) : At(t, n, Alphabetic)
  BY DEF EmailIs
<1> DEFINE x == (k - lo) + 1  y == (d - lo) + 1
<1>5. /\ x \in DOMAIN s /\ y \in DOMAIN s /\ 1 < x /\ x < y /\ y + 2 <= Len(s)
      /\ (lo - 1) + x = k /\ (lo - 1) + y = d
  BY <1>1, <1>3, <1>4
<1>6. s[x] = "@" /\ s[y] = "."
  <2>1. At(t, k, {"@"})
    BY DEF EmailIs
  <2> HIDE DEF x, y
  <2> QED
    BY <1>3, <1>4, <1>5, <2>1 DEF At
<1>7. ASSUME NEW m \in 1..(x - 1) PROVE s[m] \in is_email_local_char
  <2>1. m \in 1..(end - lo) /\ (lo - 1) + m \in lo..(k - 1)
    BY <1>1
  <2> QED
    BY <1>3, <2>1 DEF At
<1>8. ASSUME NEW m \in (x + 1)..Len(s) PROVE s[m] \in Alphanumeric \cup {"-", "."}
  <2>1. m \in 1..(end - lo) /\ (lo - 1) + m \in (k + 1)..(end - 1)
    BY <1>1, <1>3
  <2> QED
    BY <1>1, <1>3, <2>1 DEF At, EmailDomain
<1>9. ASSUME NEW m \in (y + 1)..Len(s) PROVE s[m] \in Alphabetic
  <2>1. m \in 1..(end - lo) /\ (lo - 1) + m \in (d + 1)..(end - 1)
    BY <1>1, <1>3, <1>4
  <2> QED
    BY <1>3, <1>4, <2>1 DEF At
<1> HIDE DEF x, y
<1>10. CASE x + 1 < y
  BY <1>5, <1>6, <1>7, <1>8, <1>9, <1>10 DEF IsEmail, s
<1>11. CASE ~(x + 1 < y)
  <2>1. y = x + 1 /\ y + 1 = x + 2 /\ x + 3 <= Len(s)
    BY <1>3, <1>5, <1>11
  <2>2. s[x + 1] = "." /\ \A m \in (x + 2)..Len(s) : s[m] \in Alphabetic
    BY <1>6, <1>9, <2>1
  <2>3. IsLoneTld(s)
    BY <1>5, <1>6, <1>7, <2>1, <2>2 DEF IsLoneTld
  <2> QED
    BY <2>3 DEF s
<1> QED
  BY <1>10, <1>11

(* What is taken out is the match, and before it what was popped. *)
LEMMA RemovedIs ==
    ASSUME TypeOK, NEW k, NEW n, NEW next, Redacts(k, n, next), n <= k - i
    PROVE  removed' = SubSeq(input, k - n, next - 1)
<1> DEFINE copied == result \o SubSeq(input, i, k - 1)
           L == Len(result) + (k - i)
           x == (L - n) + 1
           back == SubSeq(copied, x, L)
           match == SubSeq(input, k, next - 1)
           s == SubSeq(input, k - n, next - 1)
<1>1. /\ i \in 1..(Len(input) + 1) /\ input \in Text /\ result \in Text
      /\ k \in i..Len(input) /\ next \in (k + 1)..(Len(input) + 1) /\ n \in 0..L
      /\ removed' = back \o match
  BY TypeParts DEF Redacts
<1>2. /\ Len(input) \in Nat /\ Len(result) \in Nat /\ k \in i..(Len(input) + 1)
      /\ i \in Nat \ {0} /\ k \in Nat \ {0} /\ next \in Nat /\ n \in Nat
      /\ k - n \in Nat \ {0} /\ k - n >= i /\ next <= Len(input) + 1
  BY <1>1, TextType
<1>3. /\ copied \in Text /\ Len(copied) = L
      /\ \A y \in 1..L : copied[y] = Out[y]
  BY <1>1, <1>2, CopiedIs DEF Out
<1>4. \A y \in (Len(result) + 1)..(Len(result) + ((Len(input) - i) + 1)) :
          Out[y] = input[y + ((i - 1) - Len(result))]
  BY <1>1, JoinedIs DEF Out
<1>5. Cut(input, s, k - n, next) /\ Cut(input, match, k, next)
  BY <1>1, <1>2, CutIs
<1>6. Cut(copied, back, x, L + 1)
  <2>1. x \in Nat \ {0} /\ L + 1 \in Nat /\ x <= L + 1 /\ L + 1 <= Len(copied) + 1
    BY <1>1, <1>2, <1>3
  <2>2. (L + 1) - 1 = L
    BY <1>1, <1>2
  <2> HIDE DEF copied, L, x
  <2>3. Cut(copied, SubSeq(copied, x, (L + 1) - 1), x, L + 1)
    BY <1>3, <2>1, CutIs
  <2> QED
    BY <2>2, <2>3
<1> HIDE DEF copied, back, match, s
<1>7. /\ s \in Text /\ Len(s) = next - (k - n)
      /\ \A m \in 1..(next - (k - n)) : s[m] = input[((k - n) - 1) + m]
      /\ match \in Text /\ Len(match) = next - k
      /\ \A m \in 1..(next - k) : match[m] = input[(k - 1) + m]
  BY <1>5 DEF Cut
<1>8. /\ back \in Text /\ Len(back) = n
      /\ \A m \in 1..n : back[m] = copied[(x - 1) + m]
  <2>1. (L + 1) - x = n
    BY <1>1, <1>2
  <2> HIDE DEF L, x
  <2> QED
    BY <1>6, <2>1 DEF Cut
<1>9. ASSUME NEW m \in 1..n PROVE back[m] = s[m]
  <2>1. /\ (x - 1) + m \in 1..L
        /\ (x - 1) + m \in (Len(result) + 1)..(Len(result) + ((Len(input) - i) + 1))
        /\ ((x - 1) + m) + ((i - 1) - Len(result)) = ((k - n) - 1) + m
        /\ m \in 1..(next - (k - n))
    BY <1>1, <1>2
  <2> HIDE DEF x, L
  <2> QED
    BY <1>3, <1>4, <1>7, <1>8, <2>1
<1>10. ASSUME NEW m \in 1..(next - k) PROVE match[m] = s[n + m]
  <2>1. n + m \in 1..(next - (k - n)) /\ ((k - n) - 1) + (n + m) = (k - 1) + m
    BY <1>1, <1>2
  <2> QED
    BY <1>7, <2>1
<1>11. /\ back \o match \in Seq(Char) /\ Len(back \o match) = Len(back) + Len(match)
       /\ \A m \in 1..(Len(back) + Len(match)) :
             (back \o match)[m] = IF m <= Len(back) THEN back[m] ELSE match[m - Len(back)]
  BY <1>7, <1>8, ConcatProperties DEF Text
<1> DEFINE r == back \o match
<1>12. r \in Seq(Char) /\ Len(r) = Len(s)
  BY <1>1, <1>2, <1>7, <1>8, <1>11
<1>13. ASSUME NEW m \in 1..Len(r) PROVE r[m] = s[m]
  <2>1. m \in 1..(n + (next - k)) /\ m \in Nat /\ next - k \in Nat
    BY <1>1, <1>2, <1>7, <1>12
  <2>2. r[m] = IF m <= n THEN back[m] ELSE match[m - n]
    BY <1>7, <1>8, <1>11, <2>1
  <2> HIDE DEF r, L
  <2>3. CASE m <= n
    BY <1>9, <2>1, <2>2, <2>3
  <2>4. CASE ~(m <= n)
    <3>1. m - n \in 1..(next - k) /\ n + (m - n) = m
      BY <1>2, <2>1, <2>4
    <3> QED
      BY <1>10, <2>2, <2>4, <3>1
  <2> QED
    BY <2>3, <2>4
<1> HIDE DEF r
<1>14. r = s
  BY <1>7, <1>12, <1>13, SeqEqual DEF Text
<1> QED
  BY <1>1, <1>14 DEF r, s

LEMMA DateIsBirthDate ==
    ASSUME NEW t \in Text, NEW k \in Nat \ {0}, DateAt(t, k) # 0
    PROVE  IsBirthDate(SubSeq(t, k, (k + 10) - 1))
<1> DEFINE s == SubSeq(t, k, (k + 10) - 1)
<1>1. At(t, k + 9, Digit)
  BY DateShape
<1>2. k + 10 \in Nat /\ k <= k + 10 /\ k + 10 <= Len(t) + 1
  BY <1>1, TextType
<1>3. Cut(t, s, k, k + 10)
  BY <1>2, CutIs
<1> HIDE DEF s
<1>4. s \in Text /\ Len(s) = 10
  <2>1. s \in Text /\ Len(s) = (k + 10) - k
    BY <1>3 DEF Cut
  <2> QED
    BY <2>1
<1>5. Same(t, s, 1 - k, k, k + 9)
  <2>1. (k + 10) - 1 = k + 9
    OBVIOUS
  <2> QED
    BY <1>3, <2>1, CutSame
<1>6. 1 - k \in Int /\ k + (1 - k) = 1 /\ (k + (1 - k)) + 10 = 11 /\ 1 \in Nat \ {0}
  OBVIOUS
<1>7. ~TimeFollows(s, 11)
  <2>1. \A class : ~At(s, 11, class)
    BY <1>4, TextType
  <2> QED
    BY <2>1 DEF TimeFollows
<1>8. \/ try_parse_iso_date(t, k) \/ try_parse_slash_date(t, k)
      \/ try_parse_dot_date(t, k)
  BY DEF DateAt
<1>9. \/ try_parse_iso_date(s, 1) \/ try_parse_slash_date(s, 1)
      \/ try_parse_dot_date(s, 1)
  <2>1. /\ try_parse_iso_date(t, k) => try_parse_iso_date(s, k + (1 - k))
        /\ try_parse_slash_date(t, k) => try_parse_slash_date(s, k + (1 - k))
        /\ try_parse_dot_date(t, k) => try_parse_dot_date(s, k + (1 - k))
    BY <1>4, <1>5, <1>6, <1>7, SameDateText
  <2> QED
    BY <1>6, <1>8, <2>1
<1>10. IsBirthDate(s)
  BY <1>4, <1>9 DEF IsBirthDate
<1> QED
  BY <1>10 DEF s

(* The groups of an IPv6 address between k and e: where they start, where two   *)
(* colons meet, and what one is.                                              *)
Starts(t, k, e) == {x \in k..(e - 1) : t[x] # ":" /\ (x = k \/ t[x - 1] = ":")}

Pairs(t, k, e) == {x \in k..(e - 2) : t[x] = ":" /\ t[x + 1] = ":"}

Group(t, x, e) ==
    \E z \in (x + 1)..e :
        /\ z = e \/ t[z] = ":"
        /\ \A y \in x..(z - 1) : t[y] # ":"
        /\ \/ z - x <= 4 /\ \A y \in x..(z - 1) : t[y] \in HexDigit
           \/ z = e /\ IsIPv4(Part(t, x, e - 1))

(* At most m groups, and no two colons if double. *)
Groups(t, k, e, m, double) ==
    /\ e \in k..(Len(t) + 1)
    /\ k < e => t[k] # ":"
    /\ \A x \in Starts(t, k, e) : Group(t, x, e)
    /\ Cardinality(Starts(t, k, e)) <= m
    /\ \A x, y \in Pairs(t, k, e) : x = y /\ ~double

LEMMA StartsFinite ==
    ASSUME NEW t, NEW k \in Nat, NEW e \in Nat
    PROVE  IsFiniteSet(Starts(t, k, e)) /\ Cardinality(Starts(t, k, e)) \in Nat
<1>1. IsFiniteSet(k..(e - 1))
  BY FS_Interval
<1>2. Starts(t, k, e) \subseteq k..(e - 1)
  BY DEF Starts
<1>3. IsFiniteSet(Starts(t, k, e))
  BY <1>1, <1>2, FS_Subset
<1> QED
  BY <1>3, FS_CardinalityType

(* One start more is one element more. *)
LEMMA StartsGrow ==
    ASSUME NEW t, NEW k \in Nat, NEW h \in Nat, NEW e \in Nat, NEW m \in Nat,
           Cardinality(Starts(t, h, e)) <= m,
           Starts(t, k, e) \subseteq Starts(t, h, e) \cup {k}
    PROVE  Cardinality(Starts(t, k, e)) <= m + 1
<1> DEFINE S == Starts(t, h, e)  R == Starts(t, k, e)
<1>1. IsFiniteSet(S) /\ Cardinality(S) \in Nat /\ IsFiniteSet(R) /\ Cardinality(R) \in Nat
  BY StartsFinite
<1>2. Cardinality(S) <= m /\ R \subseteq S \cup {k}
  OBVIOUS
<1> HIDE DEF S, R
<1>3. IsFiniteSet(S \cup {k}) /\ Cardinality(S \cup {k}) \in Nat
      /\ Cardinality(S \cup {k}) <= Cardinality(S) + 1
  <2>1. IsFiniteSet(S \cup {k})
        /\ Cardinality(S \cup {k}) = IF k \in S THEN Cardinality(S) ELSE Cardinality(S) + 1
    BY <1>1, FS_AddElement
  <2> QED
    BY <1>1, <2>1
<1>4. Cardinality(R) <= Cardinality(S \cup {k})
  BY <1>2, <1>3, FS_Subset
<1>5. Cardinality(R) <= m + 1
  BY <1>1, <1>2, <1>3, <1>4
<1> QED
  BY <1>5 DEF R

LEMMA NoGroups ==
    ASSUME NEW t \in Text, NEW h \in 1..(Len(t) + 1), NEW m \in Nat, NEW double
    PROVE  Groups(t, h, h, m, double)
<1>1. h \in Nat /\ h \in h..(Len(t) + 1) /\ ~(h < h)
  BY TextType
<1>2. Starts(t, h, h) = {} /\ Pairs(t, h, h) = {}
  BY <1>1 DEF Starts, Pairs
<1>3. Cardinality(Starts(t, h, h)) <= m
  BY <1>2, FS_EmptySet
<1> QED
  BY <1>1, <1>2, <1>3 DEF Groups

LEMMA OneGroup ==
    ASSUME NEW t \in Text, NEW k \in 1..(Len(t) + 1), NEW e \in (k + 1)..(Len(t) + 1),
           \A y \in k..(e - 1) : t[y] # ":", Group(t, k, e), NEW m \in Nat, NEW double
    PROVE  Groups(t, k, e, m + 1, double)
<1>1. k \in Nat /\ e \in Nat /\ e \in k..(Len(t) + 1) /\ k < e /\ k \in k..(e - 1)
      /\ e \in 1..(Len(t) + 1)
  BY TextType
<1>2. t[k] # ":"
  BY <1>1
<1>3. ASSUME NEW x \in Starts(t, k, e) PROVE x = k
  <2>1. x \in k..(e - 1) /\ (x = k \/ t[x - 1] = ":")
    BY DEF Starts
  <2>2. x # k => x - 1 \in k..(e - 1)
    BY <1>1, <2>1
  <2> QED
    BY <2>1, <2>2
<1>4. Pairs(t, k, e) = {}
  <2>1. \A x \in k..(e - 2) : x \in k..(e - 1)
    BY <1>1
  <2> QED
    BY <2>1 DEF Pairs
<1>5. Cardinality(Starts(t, k, e)) <= m + 1
  <2>1. Starts(t, e, e) = {} /\ Cardinality(Starts(t, e, e)) <= m
    <3>1. Starts(t, e, e) = {}
      BY <1>1 DEF Starts
    <3> QED
      BY <3>1, FS_EmptySet
  <2>2. Starts(t, k, e) \subseteq Starts(t, e, e) \cup {k}
    BY <1>3
  <2> QED
    BY <1>1, <2>1, <2>2, StartsGrow
<1> QED
  BY <1>1, <1>2, <1>3, <1>4, <1>5 DEF Groups

LEMMA GroupAndGroups ==
    ASSUME NEW t \in Text, NEW k \in 1..(Len(t) + 1), NEW end \in (k + 1)..(k + 4),
           \A y \in k..(end - 1) : At(t, y, HexDigit), At(t, end, {":"}),
           NEW h \in {end + 1, end + 2}, h = end + 2 => At(t, end + 1, {":"}),
           NEW e, NEW m \in Nat, NEW before, NEW double, Groups(t, h, e, m, double),
           h = end + 2 => double /\ ~before, h = end + 1 => double = before
    PROVE  Groups(t, k, e, m + 1, before)
<1>1. /\ k \in Nat /\ end \in Nat /\ h \in Nat /\ e \in Nat /\ k < end /\ end < h /\ h <= e
      /\ e <= Len(t) + 1 /\ Len(t) \in Nat /\ h <= end + 2 /\ end <= k + 4
  BY TextType DEF Groups
<1>2. ":" \notin HexDigit
  BY ClassesDiffer
<1>3. /\ \A y \in k..(end - 1) : t[y] # ":" /\ t[y] \in HexDigit
      /\ t[end] = ":" /\ (h = end + 2 => t[end + 1] = ":")
  BY <1>2 DEF At
<1>4. /\ h < e => t[h] # ":"
      /\ \A x \in Starts(t, h, e) : Group(t, x, e)
      /\ Cardinality(Starts(t, h, e)) <= m
      /\ \A x, y \in Pairs(t, h, e) : x = y /\ ~double
  BY DEF Groups
<1>5. Starts(t, k, e) \subseteq Starts(t, h, e) \cup {k}
  <2> SUFFICES ASSUME NEW x \in Starts(t, k, e), x # k PROVE x \in Starts(t, h, e)
    OBVIOUS
  <2>1. x \in k..(e - 1) /\ t[x] # ":" /\ t[x - 1] = ":"
    BY DEF Starts
  <2>2. ~(x \in (k + 1)..end)
    <3> SUFFICES ASSUME x \in (k + 1)..end PROVE FALSE
      OBVIOUS
    <3>1. x - 1 \in k..(end - 1)
      BY <1>1
    <3> QED
      BY <1>3, <2>1, <3>1
  <2>3. x \in h..(e - 1)
    <3>1. x # end /\ (h = end + 2 => x # end + 1)
      BY <1>3, <2>1
    <3>2. x > end /\ (h = end + 1 \/ h = end + 2)
      BY <1>1, <2>1, <2>2
    <3> QED
      BY <1>1, <2>1, <3>1, <3>2
  <2> QED
    BY <2>1, <2>3 DEF Starts
<1>6. Cardinality(Starts(t, k, e)) <= m + 1
  BY <1>1, <1>4, <1>5, StartsGrow
<1>7. Group(t, k, e)
  <2>1. end \in (k + 1)..e /\ end - k <= 4
    BY <1>1
  <2> QED
    BY <1>3, <2>1 DEF Group
<1>8. \A x \in Starts(t, k, e) : Group(t, x, e)
  BY <1>4, <1>5, <1>7
<1>9. ASSUME NEW x \in Pairs(t, k, e)
      PROVE  x \in Pairs(t, h, e) \/ (h = end + 2 /\ x = end)
  <2>1. x \in k..(e - 2) /\ t[x] = ":" /\ t[x + 1] = ":"
    BY DEF Pairs
  <2>2. ~(x \in k..(end - 1))
    BY <1>3, <2>1
  <2>3. ~(x = h - 1)
    <3> SUFFICES ASSUME x = h - 1 PROVE FALSE
      OBVIOUS
    <3>1. x + 1 = h /\ h < e
      BY <1>1, <2>1
    <3> QED
      BY <1>4, <2>1, <3>1
  <2>4. x \in h..(e - 2) \/ (h = end + 2 /\ x = end)
    <3>1. x \in Int /\ end <= x /\ x <= e - 2
      BY <1>1, <2>1, <2>2
    <3>2. x >= h \/ x < h - 1
      BY <1>1, <2>3, <3>1
    <3>3. x < h - 1 => (h = end + 2 /\ x = end)
      BY <1>1, <3>1
    <3> QED
      BY <1>1, <3>1, <3>2, <3>3
  <2> QED
    BY <2>1, <2>4 DEF Pairs
<1>10. \A x, y \in Pairs(t, k, e) : x = y /\ ~before
  <2>1. CASE h = end + 2
    <3>1. Pairs(t, h, e) = {}
      BY <1>4, <2>1
    <3> QED
      BY <1>9, <2>1, <3>1
  <2>2. CASE h = end + 1
    <3>1. h # end + 2
      BY <1>1, <2>2
    <3> QED
      BY <1>4, <1>9, <2>2, <3>1
  <2> QED
    BY <2>1, <2>2
<1>11. e \in k..(Len(t) + 1) /\ t[k] # ":"
  <2>1. k \in k..(end - 1)
    BY <1>1
  <2> QED
    BY <1>1, <1>3, <2>1
<1> QED
  BY <1>6, <1>8, <1>10, <1>11 DEF Groups

LEMMA LayerGroups ==
    ASSUME NEW t \in Text, NEW f, Layers(t, f), NEW n \in 0..7,
           n # 0 => \A x \in 1..(Len(t) + 1), d \in BOOLEAN :
                       Groups(t, x, EndAt(f[n - 1], x, d), n, d),
           NEW k \in 1..(Len(t) + 1), NEW double \in BOOLEAN
    PROVE  Groups(t, k, EndAt(f[n], k, double), n + 1, double)
<1> DEFINE end == GroupEnd(t, k)
           e == EndAt(f[n], k, double)
<1> SUFFICES Groups(t, k, e, n + 1, double)
  OBVIOUS
<1>1. /\ end \in k..(k + 4) /\ end <= Len(t) + 1
      /\ \A x \in k..(end - 1) : At(t, x, HexDigit)
  BY GroupEndIs, Zenon
<1>2. LayerStep(t, f, n, k, double, end, e)
  BY LayerIs
<1> HIDE DEF end, e
<1>3. /\ k \in Nat /\ end \in Nat /\ k <= end /\ Len(t) \in Nat /\ n \in Nat /\ n + 1 \in Nat
  BY <1>1, TextType
<1>4. ASSUME NEW x \in 1..(Len(t) + 1), NEW d \in BOOLEAN
      PROVE  Groups(t, x, EndAfter(f, n, x, d), n, d)
  <2>1. Groups(t, x, x, n, d)
    BY <1>3, NoGroups
  <2> QED
    BY <1>4, <2>1 DEF EndAfter
<1>5. CASE end = k /\ e = k
  BY <1>3, <1>5, NoGroups
<1>6. CASE e = try_parse_ipv4(t, k) /\ try_parse_ipv4(t, k) # 0
  <2>1. PICK a, b, c \in Nat : Quad(t, k, a, b, c, e)
    BY <1>6, ParsedIPv4
  <2>2. /\ e \in Nat /\ k < e /\ e <= Len(t) + 1
        /\ \A x \in k..(e - 1) : At(t, x, is_ipv4_adjacent)
    <3>1. e \in Nat /\ k < a /\ a < b /\ b < c /\ c < e /\ e <= Len(t) + 1
      BY <1>3, <2>1, QuadShape
    <3>2. \A x \in k..(e - 1) : At(t, x, is_ipv4_adjacent)
      BY <1>3, <2>1, QuadShape
    <3> QED
      BY <1>3, <3>1, <3>2
  <2>3. IsIPv4(Part(t, k, e - 1))
    <3>1. IsIPv4(SubSeq(t, k, e - 1))
      <4>1. k \in Nat \ {0}
        BY <1>3
      <4> QED
        BY <2>1, <4>1, QuadIsIPv4
    <3> QED
      BY <3>1, Zenon DEF Part
  <2>4. ":" \notin is_ipv4_adjacent
    BY ClassesDiffer DEF is_ipv4_adjacent
  <2>5. \A x \in k..(e - 1) : t[x] # ":"
    BY <2>2, <2>4 DEF At
  <2>6. e \in (k + 1)..e /\ e \in (k + 1)..(Len(t) + 1)
    BY <1>3, <2>2
  <2>7. Group(t, k, e)
    BY <2>3, <2>5, <2>6 DEF Group
  <2> QED
    BY <1>3, <2>5, <2>6, <2>7, OneGroup
<1>7. CASE e = end /\ end # k
  <2>1. \A x \in k..(e - 1) : t[x] \in HexDigit /\ t[x] # ":"
    BY <1>1, <1>7, ClassesDiffer DEF At
  <2>2. e \in (k + 1)..e /\ e \in (k + 1)..(Len(t) + 1) /\ e - k <= 4
    BY <1>1, <1>3, <1>7
  <2>3. Group(t, k, e)
    BY <2>1, <2>2 DEF Group
  <2> QED
    BY <1>3, <2>1, <2>2, <2>3, OneGroup
<1>8. ASSUME end # k
      PROVE  end \in (k + 1)..(k + 4)
  BY <1>1, <1>3, <1>8
<1>9. CASE /\ end # k /\ ~double /\ At(t, end, {":"}) /\ At(t, end + 1, {":"})
           /\ e = end + 2 \/ e = EndAfter(f, n, end + 2, TRUE)
  <2>1. end + 2 \in 1..(Len(t) + 1) /\ end + 2 \in {end + 1, end + 2} /\ end + 2 # end + 1
    BY <1>3, <1>9, TextType
  <2>2. Groups(t, end + 2, e, n, TRUE)
    BY <1>3, <1>4, <1>9, <2>1, NoGroups
  <2> QED
    BY <1>1, <1>3, <1>8, <1>9, <2>1, <2>2, GroupAndGroups
<1>10. CASE /\ end # k /\ At(t, end, {":"}) /\ At(t, end + 1, HexDigit)
            /\ e = EndAfter(f, n, end + 1, double)
  <2>1. end + 1 \in 1..(Len(t) + 1) /\ end + 1 \in {end + 1, end + 2} /\ end + 2 # end + 1
    BY <1>3, <1>10, TextType
  <2>2. Groups(t, end + 1, e, n, double)
    BY <1>4, <1>10, <2>1
  <2> QED
    BY <1>1, <1>3, <1>8, <1>10, <2>1, <2>2, GroupAndGroups
<1> QED
  BY <1>2, <1>5, <1>6, <1>7, <1>9, <1>10 DEF LayerStep

LEMMA GroupsEndGroups ==
    ASSUME NEW t \in Text, NEW k \in 1..(Len(t) + 1), NEW double \in BOOLEAN
    PROVE  Groups(t, k, GroupsEnd(t)[k][double], 8, double)
<1>1. PICK f : Layers(t, f) /\ GroupsEnd(t) = f[7]
  BY GroupsEndIsLayer
<1> DEFINE P(n) == \A x \in 1..(Len(t) + 1), d \in BOOLEAN :
                       Groups(t, x, EndAt(f[n], x, d), n + 1, d)
<1>2. ASSUME NEW n \in 0..7, n # 0 => P(n - 1) PROVE P(n)
  <2>1. (n - 1) + 1 = n
    OBVIOUS
  <2>2. n # 0 => \A x \in 1..(Len(t) + 1), d \in BOOLEAN :
                       Groups(t, x, EndAt(f[n - 1], x, d), n, d)
    BY <1>2, <2>1
  <2> QED
    BY <1>1, <2>2, LayerGroups
<1> HIDE DEF P
<1>3. P(0)
  BY <1>2
<1>4. \A n \in 1..7 : P(n - 1) => P(n)
  BY <1>2
<1>5. P(1) /\ P(2) /\ P(3)
  BY <1>3, <1>4
<1>6. P(4) /\ P(5)
  BY <1>4, <1>5
<1>7. P(6) /\ P(7)
  BY <1>4, <1>6
<1>8. 7 + 1 = 8
  OBVIOUS
<1> QED
  BY <1>1, <1>7, <1>8 DEF P, EndAt

(* The whole of an address. *)
Address(t, k, e) ==
    /\ \A x \in Starts(t, k, e) : Group(t, x, e)
    /\ Cardinality(Starts(t, k, e)) <= 8
    /\ \A x, y \in Pairs(t, k, e) : x = y

LEMMA ParsedAddress ==
    ASSUME NEW t \in Text, NEW k \in 1..Len(t), try_parse_ipv6(t, k) # 0
    PROVE  Address(t, k, try_parse_ipv6(t, k))
<1> DEFINE e == try_parse_ipv6(t, k)
<1> SUFFICES Address(t, k, e)
  OBVIOUS
<1>1. \/ /\ At(t, k, {":"}) /\ At(t, k + 1, {":"})
         /\ e = GroupsEnd(t)[k + 2][TRUE]
      \/ At(t, k, HexDigit) /\ e = GroupsEnd(t)[k][FALSE]
  BY DEF try_parse_ipv6
<1> HIDE DEF e
<1>2. CASE At(t, k, HexDigit) /\ e = GroupsEnd(t)[k][FALSE]
  <2>1. k \in 1..(Len(t) + 1)
    BY TextType
  <2>2. \A d \in BOOLEAN : Groups(t, k, GroupsEnd(t)[k][d], 8, d)
    BY <2>1, GroupsEndGroups
  <2>3. Groups(t, k, e, 8, FALSE)
    BY <1>2, <2>2, Zenon
  <2> QED
    BY <2>3 DEF Groups, Address
<1>3. CASE /\ At(t, k, {":"}) /\ At(t, k + 1, {":"})
           /\ e = GroupsEnd(t)[k + 2][TRUE]
  <2>1. k + 2 \in 1..(Len(t) + 1) /\ k \in Nat
    BY <1>3, TextType
  <2>2. \A d \in BOOLEAN : Groups(t, k + 2, GroupsEnd(t)[k + 2][d], 8, d)
    BY <2>1, GroupsEndGroups
  <2>3. Groups(t, k + 2, e, 8, TRUE)
    BY <1>3, <2>2, Zenon
  <2>4. /\ e \in (k + 2)..(Len(t) + 1) /\ (k + 2 < e => t[k + 2] # ":")
        /\ \A x \in Starts(t, k + 2, e) : Group(t, x, e)
        /\ Cardinality(Starts(t, k + 2, e)) <= 8
        /\ Pairs(t, k + 2, e) = {}
    BY <2>3 DEF Groups
  <2>5. t[k] = ":" /\ t[k + 1] = ":" /\ e \in Nat /\ k + 2 <= e
    <3>1. t[k] = ":" /\ t[k + 1] = ":"
      BY <1>3 DEF At
    <3>2. e \in (k + 2)..(Len(t) + 1)
      BY <2>4
    <3>3. e \in Nat /\ k + 2 <= e
      BY <2>1, <3>2
    <3> QED
      BY <3>1, <3>3
  <2>6. Starts(t, k, e) = Starts(t, k + 2, e)
    <3>1. ASSUME NEW x \in Starts(t, k, e) PROVE x \in Starts(t, k + 2, e)
      <4>1. x \in k..(e - 1) /\ t[x] # ":" /\ (x = k \/ t[x - 1] = ":")
        BY DEF Starts
      <4>2. x # k /\ x # k + 1
        BY <2>5, <4>1
      <4>3. x \in (k + 2)..(e - 1)
        BY <2>1, <2>5, <4>1, <4>2
      <4> QED
        BY <4>1, <4>2, <4>3 DEF Starts
    <3>2. ASSUME NEW x \in Starts(t, k + 2, e) PROVE x \in Starts(t, k, e)
      <4>1. x \in (k + 2)..(e - 1) /\ t[x] # ":" /\ (x = k + 2 \/ t[x - 1] = ":")
        BY DEF Starts
      <4>2. x = k + 2 => x - 1 = k + 1
        BY <2>1
      <4>3. x \in k..(e - 1)
        BY <2>1, <2>5, <4>1
      <4> QED
        BY <2>5, <4>1, <4>2, <4>3 DEF Starts
    <3> QED
      BY <3>1, <3>2
  <2>7. ASSUME NEW x \in Pairs(t, k, e) PROVE x = k
    <3>1. x \in k..(e - 2) /\ t[x] = ":" /\ t[x + 1] = ":"
      BY DEF Pairs
    <3>2. x # k + 1
      <4> SUFFICES ASSUME x = k + 1 PROVE FALSE
        OBVIOUS
      <4>1. x + 1 = k + 2 /\ k + 2 < e
        BY <2>1, <2>5, <3>1
      <4> QED
        BY <2>4, <3>1, <4>1
    <3>3. ~(x \in (k + 2)..(e - 2))
      <4> SUFFICES ASSUME x \in (k + 2)..(e - 2) PROVE FALSE
        OBVIOUS
      <4>1. x \in Pairs(t, k + 2, e)
        BY <3>1 DEF Pairs
      <4> QED
        BY <2>4, <4>1
    <3> QED
      BY <2>1, <2>5, <3>1, <3>2, <3>3
  <2> QED
    BY <2>4, <2>6, <2>7 DEF Address
<1> QED
  BY <1>1, <1>2, <1>3

(* The places between which the groups of an address s lie, and two neighbours. *)
Cuts(s) == {0, Len(s) + 1} \cup {n \in DOMAIN s : s[n] = ":"}

Gap(s, a, b) == /\ a \in Cuts(s) /\ b \in Cuts(s) /\ a < b
                /\ \A c \in Cuts(s) : c <= a \/ c >= b

LEMMA CutsMany ==
    ASSUME NEW s \in Text, Colons(s) >= 2
    PROVE  Cardinality(Cuts(s)) >= 4
<1> DEFINE C == {n \in DOMAIN s : s[n] = ":"}
<1>1. Len(s) \in Nat /\ DOMAIN s = 1..Len(s)
  BY TextType
<1>2. IsFiniteSet(C)
  <2>1. IsFiniteSet(1..Len(s))
    BY <1>1, FS_Interval
  <2> QED
    BY <1>1, <2>1, FS_Subset
<1>3. Cardinality(C) >= 2 /\ Cardinality(C) \in Nat
  BY <1>2, FS_CardinalityType DEF Colons
<1>4. 0 \notin C /\ Len(s) + 1 \notin C /\ Len(s) + 1 # 0
  BY <1>1
<1>5. Cuts(s) = (C \cup {0}) \cup {Len(s) + 1}
  BY DEF Cuts
<1> HIDE DEF C
<1>6. IsFiniteSet(C \cup {0}) /\ Cardinality(C \cup {0}) = Cardinality(C) + 1
  BY <1>2, <1>4, FS_AddElement
<1>7. Len(s) + 1 \notin C \cup {0}
  BY <1>4
<1>8. Cardinality((C \cup {0}) \cup {Len(s) + 1}) = Cardinality(C \cup {0}) + 1
  <2> DEFINE w == Len(s) + 1
  <2>1. w \notin C \cup {0}
    BY <1>7
  <2> HIDE DEF w
  <2>2. Cardinality((C \cup {0}) \cup {w}) = Cardinality(C \cup {0}) + 1
    BY <1>6, <2>1, FS_AddElement
  <2> QED
    BY <2>2 DEF w
<1>9. Cardinality(Cuts(s)) = (Cardinality(C) + 1) + 1
  BY <1>5, <1>6, <1>8
<1> QED
  BY <1>3, <1>9

(* Between two neighbours that have something between them lies a group. *)
LEMMA GapIsGroup ==
    ASSUME NEW t \in Text, NEW s, NEW k, NEW e, Cut(t, s, k, e), Address(t, k, e),
           NEW a, NEW b, Gap(s, a, b), b # a + 1
    PROVE  /\ (k + a) \in Starts(t, k, e)
           /\ \/ b - a <= 5 /\ \A n \in (a + 1)..(b - 1) : s[n] \in HexDigit
              \/ b = Len(s) + 1 /\ IsIPv4(Part(s, a + 1, Len(s)))
<1>1. /\ s \in Text /\ k \in Nat \ {0} /\ e \in Nat /\ k <= e /\ e <= Len(t) + 1
      /\ Len(s) = e - k /\ \A n \in 1..(e - k) : s[n] = t[(k - 1) + n]
  BY DEF Cut
<1>2. DOMAIN s = 1..(e - k) /\ Len(s) \in Nat
  BY <1>1, TextType
<1>3. /\ a = 0 \/ a = Len(s) + 1 \/ (a \in 1..(e - k) /\ s[a] = ":")
      /\ b = 0 \/ b = Len(s) + 1 \/ (b \in 1..(e - k) /\ s[b] = ":")
      /\ a < b /\ \A c \in Cuts(s) : c <= a \/ c >= b
  BY <1>2 DEF Gap, Cuts
<1>4. /\ a \in Nat /\ b \in Nat /\ a + 1 < b /\ b <= (e - k) + 1
      /\ (a = 0 \/ s[a] = ":")
      /\ (b = (e - k) + 1 \/ s[b] = ":")
  BY <1>1, <1>2, <1>3
<1>5. ASSUME NEW n \in (a + 1)..(b - 1) PROVE n \in 1..(e - k) /\ s[n] # ":"
  <2>1. n \in 1..(e - k) /\ ~(n <= a) /\ ~(n >= b)
    BY <1>1, <1>4
  <2> QED
    BY <1>2, <1>3, <2>1 DEF Cuts
<1> DEFINE x == k + a
<1>6. x \in Starts(t, k, e)
  <2>1. x \in k..(e - 1) /\ a + 1 \in (a + 1)..(b - 1) /\ (k - 1) + (a + 1) = x
    BY <1>1, <1>4
  <2>2. a + 1 \in 1..(e - k) /\ s[a + 1] # ":"
    BY <1>5, <2>1
  <2>3. t[x] # ":"
    BY <1>1, <2>1, <2>2
  <2>4. CASE a = 0
    <3>1. x = k
      BY <1>1, <2>4
    <3> QED
      BY <2>1, <2>3, <3>1 DEF Starts
  <2>5. CASE a # 0
    <3>1. a \in 1..(e - k) /\ (k - 1) + a = x - 1
      BY <1>1, <1>4, <2>5
    <3>2. t[x - 1] = ":"
      BY <1>1, <1>4, <2>5, <3>1
    <3> QED
      BY <2>1, <2>3, <3>2 DEF Starts
  <2> QED
    BY <2>4, <2>5
<1>7. PICK z \in (x + 1)..e :
          /\ z = e \/ t[z] = ":"
          /\ \A y \in x..(z - 1) : t[y] # ":"
          /\ \/ z - x <= 4 /\ \A y \in x..(z - 1) : t[y] \in HexDigit
             \/ z = e /\ IsIPv4(Part(t, x, e - 1))
  <2>1. Group(t, x, e)
    BY <1>6 DEF Address
  <2> HIDE DEF x
  <2> QED
    BY <2>1 DEF Group
<1>8. z \in Nat /\ x < z /\ z <= e /\ x \in Nat
  BY <1>1, <1>4
<1> DEFINE w == (z - k) + 1
<1>9. w \in Nat /\ a < w /\ w <= (e - k) + 1 /\ (k - 1) + w = z
  BY <1>1, <1>4, <1>8
<1>10. b = w
  <2>1. w \in Cuts(s)
    <3>1. CASE z = e
      BY <1>1, <3>1 DEF Cuts
    <3>2. CASE z # e
      <4>1. w \in 1..(e - k)
        BY <1>1, <1>4, <1>8, <1>9, <3>2
      <4> HIDE DEF w
      <4>2. s[w] = ":"
        BY <1>1, <1>7, <1>9, <3>2, <4>1
      <4> QED
        BY <1>2, <4>1, <4>2 DEF Cuts
    <3> QED
      BY <3>1, <3>2
  <2>2. w >= b
    <3>1. w <= a \/ w >= b
      BY <1>3, <2>1, Zenon
    <3> QED
      BY <1>4, <1>9, <3>1
  <2>3. ~(w > b)
    <3> SUFFICES ASSUME w > b PROVE FALSE
      OBVIOUS
    <3>1. (k - 1) + b \in x..(z - 1) /\ b # (e - k) + 1 /\ b \in 1..(e - k)
      BY <1>1, <1>4, <1>8, <1>9
    <3>2. s[b] = ":" /\ s[b] = t[(k - 1) + b]
      BY <1>1, <1>4, <3>1
    <3> HIDE DEF x
    <3> QED
      BY <1>7, <3>1, <3>2
  <2> QED
    BY <1>4, <1>9, <2>2, <2>3
<1>11. CASE z - x <= 4 /\ \A y \in x..(z - 1) : t[y] \in HexDigit
  <2>1. b - a <= 5
    BY <1>1, <1>4, <1>8, <1>9, <1>10, <1>11
  <2>2. ASSUME NEW n \in (a + 1)..(b - 1) PROVE s[n] \in HexDigit
    <3>1. (k - 1) + n \in x..(z - 1)
      BY <1>1, <1>4, <1>8, <1>9, <1>10
    <3>2. n \in 1..(e - k)
      BY <1>5
    <3> QED
      BY <1>1, <1>11, <3>1, <3>2
  <2> QED
    BY <1>6, <2>1, <2>2
<1>12. CASE z = e /\ IsIPv4(Part(t, x, e - 1))
  <2>1. b = Len(s) + 1
    BY <1>1, <1>10, <1>12
  <2>2. CutAgain(t, s, k, e, x, e - 1, a + 1, Len(s))
    BY <1>1, <1>4, <1>8, <1>12 DEF CutAgain
  <2>3. Part(s, a + 1, Len(s)) = Part(t, x, e - 1)
    <3> HIDE DEF x
    <3> QED
      BY <1>1, <1>4, <1>8, <2>2, CutCut
  <2> QED
    BY <1>6, <1>12, <2>1, <2>3
<1> QED
  BY <1>7, <1>11, <1>12

LEMMA OnePair ==
    ASSUME NEW t \in Text, NEW s, NEW k, NEW e, Cut(t, s, k, e), Address(t, k, e),
           NEW a, NEW b, Gap(s, a, a + 1), a > 0, a + 1 <= Len(s),
           Gap(s, b, b + 1), b > 0, b + 1 <= Len(s)
    PROVE  a = b
<1>1. /\ s \in Text /\ k \in Nat \ {0} /\ e \in Nat /\ k <= e /\ e <= Len(t) + 1
      /\ Len(s) = e - k /\ \A n \in 1..(e - k) : s[n] = t[(k - 1) + n]
  BY DEF Cut
<1>2. DOMAIN s = 1..(e - k) /\ Len(s) \in Nat
  BY <1>1, TextType
<1>3. ASSUME NEW c, Gap(s, c, c + 1), c > 0, c + 1 <= Len(s)
      PROVE  c \in Nat /\ (k - 1) + c \in Pairs(t, k, e)
  <2>1. /\ c = 0 \/ c = Len(s) + 1 \/ (c \in 1..(e - k) /\ s[c] = ":")
        /\ c + 1 = 0 \/ c + 1 = Len(s) + 1 \/ (c + 1 \in 1..(e - k) /\ s[c + 1] = ":")
    BY <1>2, <1>3 DEF Gap, Cuts
  <2>2. c \in 1..(e - k) /\ s[c] = ":" /\ c + 1 \in 1..(e - k)
    BY <1>1, <1>2, <1>3, <2>1
  <2>3. s[c + 1] = ":"
    BY <1>1, <1>2, <1>3, <2>1, <2>2
  <2> DEFINE x == (k - 1) + c
  <2>4. x \in k..(e - 2) /\ (k - 1) + (c + 1) = x + 1
    BY <1>1, <2>2
  <2>5. t[x] = ":" /\ t[x + 1] = ":"
    BY <1>1, <2>2, <2>3, <2>4
  <2> QED
    BY <2>2, <2>4, <2>5 DEF Pairs
<1>4. /\ a \in Nat /\ b \in Nat
      /\ (k - 1) + a \in Pairs(t, k, e) /\ (k - 1) + b \in Pairs(t, k, e)
  BY <1>3
<1>5. (k - 1) + a = (k - 1) + b
  BY <1>4 DEF Address
<1> QED
  BY <1>1, <1>4, <1>5

LEMMA AddressIsIPv6 ==
    ASSUME NEW t \in Text, NEW s, NEW k, NEW e, Cut(t, s, k, e), Address(t, k, e),
           Colons(s) >= 2
    PROVE  IsIPv6(s)
<1> DEFINE gaps == {g \in Cuts(s) \X Cuts(s) :
                       g[1] < g[2] /\ \A c \in Cuts(s) : c <= g[1] \/ c >= g[2]}
           empty(g) == g[2] = g[1] + 1
           inner == {g \in gaps : empty(g) /\ g[1] > 0 /\ g[2] <= Len(s)}
           full == {g \in gaps : ~empty(g)}
<1>1. s \in Text /\ k \in Nat \ {0} /\ e \in Nat /\ Len(s) \in Nat /\ DOMAIN s = 1..Len(s)
  BY TextType DEF Cut
<1>2. Cuts(s) \subseteq Nat
  BY <1>1 DEF Cuts
<1>3. Cardinality(Cuts(s)) >= 4
  BY <1>1, CutsMany
<1>4. \A g \in gaps : /\ Gap(s, g[1], g[2]) /\ g = <<g[1], g[2]>>
                      /\ g[1] \in Nat /\ g[2] \in Nat
  BY <1>2 DEF Gap
<1> HIDE DEF gaps
<1>5. ASSUME NEW g \in gaps
      PROVE  \/ empty(g)
             \/ g[2] - g[1] <= 5 /\ \A n \in (g[1] + 1)..(g[2] - 1) : s[n] \in HexDigit
             \/ g[2] = Len(s) + 1 /\ IsIPv4(SubSeq(s, g[1] + 1, Len(s)))
  <2> DEFINE a == g[1]  b == g[2]
  <2>1. Gap(s, a, b)
    BY <1>4
  <2> SUFFICES ASSUME b # a + 1
               PROVE  \/ b - a <= 5 /\ \A n \in (a + 1)..(b - 1) : s[n] \in HexDigit
                      \/ b = Len(s) + 1 /\ IsIPv4(SubSeq(s, a + 1, Len(s)))
    OBVIOUS
  <2> HIDE DEF a, b
  <2>2. \/ b - a <= 5 /\ \A n \in (a + 1)..(b - 1) : s[n] \in HexDigit
        \/ b = Len(s) + 1 /\ IsIPv4(Part(s, a + 1, Len(s)))
    BY <2>1, GapIsGroup
  <2> QED
    BY <2>2, Zenon DEF Part
<1>6. Cardinality(inner) <= 1
  <2>1. ASSUME NEW g \in inner, NEW h \in inner PROVE g = h
    <3> DEFINE a == g[1]  b == h[1]
    <3>1. /\ Gap(s, a, g[2]) /\ Gap(s, b, h[2]) /\ g = <<a, g[2]>> /\ h = <<b, h[2]>>
          /\ g[2] = a + 1 /\ h[2] = b + 1 /\ a > 0 /\ b > 0
          /\ a + 1 <= Len(s) /\ b + 1 <= Len(s)
      BY <1>4
    <3>2. Gap(s, a, a + 1) /\ Gap(s, b, b + 1)
      BY <3>1
    <3> HIDE DEF a, b
    <3>3. a = b
      BY <3>1, <3>2, OnePair
    <3> QED
      BY <3>1, <3>3
  <2> HIDE DEF inner
  <2>2. CASE inner = {}
    BY <2>2, FS_EmptySet
  <2>3. CASE inner # {}
    <3>1. PICK g : inner = {g}
      BY <2>1, <2>3
    <3> QED
      BY <3>1, FS_Singleton
  <2> QED
    BY <2>2, <2>3
<1>7. Cardinality(full) <= 8
  <2> DEFINE S == Starts(t, k, e)
             f == [g \in full |-> k + g[1]]
  <2>1. ASSUME NEW g \in full PROVE k + g[1] \in S
    <3> DEFINE a == g[1]  b == g[2]
    <3>1. Gap(s, a, b) /\ b # a + 1
      BY <1>4
    <3> HIDE DEF a, b
    <3>2. (k + a) \in Starts(t, k, e)
      BY <3>1, GapIsGroup
    <3> QED
      BY <3>2 DEF a
  <2>2. ASSUME NEW g \in full, NEW h \in full, k + g[1] = k + h[1] PROVE g = h
    <3> DEFINE a == g[1]  b == g[2]  c == h[1]  d == h[2]
    <3>1. /\ Gap(s, a, b) /\ Gap(s, c, d) /\ g = <<a, b>> /\ h = <<c, d>>
          /\ a \in Nat /\ b \in Nat /\ c \in Nat /\ d \in Nat /\ k + a = k + c
      BY <1>4, <2>2
    <3> HIDE DEF a, b, c, d
    <3>2. a = c
      BY <1>1, <3>1
    <3>3. b \in Cuts(s) /\ d \in Cuts(s) /\ a < b /\ a < d
          /\ (b <= a \/ b >= d) /\ (d <= a \/ d >= b)
      BY <3>1, <3>2 DEF Gap
    <3>4. b = d
      BY <3>1, <3>3
    <3> QED
      BY <3>1, <3>2, <3>4
  <2>3. IsFiniteSet(S) /\ Cardinality(S) \in Nat /\ Cardinality(S) <= 8
    BY <1>1, StartsFinite DEF Address
  <2> HIDE DEF S, full
  <2>4. f \in [full -> S]
    BY <2>1
  <2>5. \A g, h \in full : f[g] = f[h] => g = h
    BY <2>2
  <2>6. IsFiniteSet(full) /\ Cardinality(full) <= Cardinality(S)
    <3>1. \A g, h \in DOMAIN f : f[g] = f[h] => g = h
      BY <2>4, <2>5
    <3> HIDE DEF f
    <3>2. f \in Injection(full, S)
      BY <2>4, <3>1 DEF Injection, IsInjective
    <3> QED
      BY <2>3, <3>2, FS_Injection
  <2>7. Cardinality(full) \in Nat
    BY <2>6, FS_CardinalityType
  <2> QED
    BY <2>3, <2>6, <2>7
<1>8. Cuts(s) = {0, Len(s) + 1} \cup {n \in DOMAIN s : s[n] = ":"}
  BY DEF Cuts
<1> QED
  BY <1>3, <1>5, <1>6, <1>7, <1>8, Zenon DEF IsIPv6, gaps

LEMMA MatchIsIPv6 ==
    ASSUME NEW t \in Text, NEW k \in 1..Len(t), IPv6At(t, k) # 0
    PROVE  IsIPv6(SubSeq(t, k, IPv6At(t, k) - 1))
<1> DEFINE e == IPv6At(t, k)
           s == SubSeq(t, k, e - 1)
<1>1. /\ e = try_parse_ipv6(t, k) /\ GroupsShape(t, k, e) /\ k < e
      /\ Colons(s) >= 2
  BY IPv6Shape
<1> HIDE DEF e
<1>2. k \in Nat \ {0} /\ e \in Nat /\ k <= e /\ e <= Len(t) + 1 /\ e # 0
  BY <1>1, TextType DEF GroupsShape
<1>3. Cut(t, s, k, e)
  BY <1>2, CutIs
<1>4. Address(t, k, e)
  BY <1>1, <1>2, ParsedAddress
<1> HIDE DEF s
<1>5. IsIPv6(s)
  BY <1>1, <1>3, <1>4, AddressIsIPv6
<1> QED
  BY <1>5 DEF s, e


(* The end of r is s. *)
Ends(r, s) ==
    /\ r \in Text /\ s \in Text /\ Len(s) <= Len(r)
    /\ \A n \in 1..Len(s) : r[(Len(r) - Len(s)) + n] = s[n]

LEMMA EndsIsSuffix ==
    ASSUME NEW r, NEW s, Ends(r, s)
    PROVE  IsSuffix(s, r)
<1>1. /\ r \in Text /\ s \in Text /\ Len(r) \in Nat /\ Len(s) \in Nat /\ Len(s) <= Len(r)
      /\ \A n \in 1..Len(s) : r[(Len(r) - Len(s)) + n] = s[n]
  BY TextType DEF Ends
<1> DEFINE rs == Reverse(s)
           rr == Reverse(r)
<1>2. /\ rs \in Seq(Char) /\ Len(rs) = Len(s)
      /\ \A n \in 1..Len(s) : rs[n] = s[(Len(s) - n) + 1]
  BY <1>1 DEF Reverse, Text
<1>3. /\ rr \in Seq(Char) /\ Len(rr) = Len(r)
      /\ \A n \in 1..Len(r) : rr[n] = r[(Len(r) - n) + 1]
  BY <1>1 DEF Reverse, Text
<1>4. ASSUME NEW n \in 1..Len(s) PROVE rs[n] = rr[n]
  <2>1. n \in 1..Len(r) /\ (Len(s) - n) + 1 \in 1..Len(s)
        /\ (Len(r) - Len(s)) + ((Len(s) - n) + 1) = (Len(r) - n) + 1
    BY <1>1
  <2> HIDE DEF rs, rr
  <2> QED
    BY <1>1, <1>2, <1>3, <2>1
<1> HIDE DEF rs, rr
<1>5. SubSeq(rs, 1, Len(rs)) = SubSeq(rr, 1, Len(rs))
  BY <1>1, <1>2, <1>3, <1>4
<1> QED
  BY <1>1, <1>2, <1>3, <1>5 DEF IsSuffix, IsPrefix, rs, rr

(* Two ends of a text: the shorter is the end of the longer. *)
LEMMA TwoEnds ==
    ASSUME NEW r, NEW s, NEW u, Ends(r, s), Ends(r, u)
    PROVE  IsSuffix(s, u) \/ IsSuffix(u, s)
<1>1. /\ Len(r) \in Nat /\ Len(s) \in Nat /\ Len(u) \in Nat
      /\ s \in Text /\ u \in Text
  BY TextType DEF Ends
<1>2. ASSUME NEW a, NEW b, Ends(r, a), Ends(r, b), Len(a) \in Nat, Len(b) \in Nat,
             Len(a) <= Len(b)
      PROVE  IsSuffix(a, b)
  <2>1. ASSUME NEW n \in 1..Len(a) PROVE b[(Len(b) - Len(a)) + n] = a[n]
    <3>1. /\ (Len(b) - Len(a)) + n \in 1..Len(b)
          /\ (Len(r) - Len(b)) + ((Len(b) - Len(a)) + n) = (Len(r) - Len(a)) + n
      BY <1>1, <1>2
    <3> QED
      BY <1>2, <3>1 DEF Ends
  <2>2. Ends(b, a)
    BY <1>2, <2>1 DEF Ends
  <2> QED
    BY <2>2, EndsIsSuffix
<1> QED
  BY <1>1, <1>2

LEMMA EndsAppend ==
    ASSUME NEW r, NEW s, Ends(r, s), NEW x \in Text
    PROVE  Ends(r \o x, s \o x)
<1> DEFINE rx == r \o x
           sx == s \o x
<1>1. /\ Len(r) \in Nat /\ Len(s) \in Nat /\ Len(x) \in Nat /\ Len(s) <= Len(r)
      /\ r \in Seq(Char) /\ s \in Seq(Char) /\ x \in Seq(Char)
      /\ \A n \in 1..Len(s) : r[(Len(r) - Len(s)) + n] = s[n]
  BY TextType DEF Ends, Text
<1>2. /\ rx \in Seq(Char) /\ Len(rx) = Len(r) + Len(x)
      /\ \A n \in 1..(Len(r) + Len(x)) :
            rx[n] = IF n <= Len(r) THEN r[n] ELSE x[n - Len(r)]
  BY <1>1, ConcatProperties
<1>3. /\ sx \in Seq(Char) /\ Len(sx) = Len(s) + Len(x)
      /\ \A n \in 1..(Len(s) + Len(x)) :
            sx[n] = IF n <= Len(s) THEN s[n] ELSE x[n - Len(s)]
  BY <1>1, ConcatProperties
<1> HIDE DEF rx, sx
<1>4. ASSUME NEW n \in 1..Len(sx) PROVE rx[(Len(rx) - Len(sx)) + n] = sx[n]
  <2> DEFINE d == Len(r) - Len(s)
  <2>1. /\ d \in Nat /\ Len(rx) - Len(sx) = d /\ n \in 1..(Len(s) + Len(x))
        /\ d + n \in 1..(Len(r) + Len(x)) /\ (d + n) - Len(r) = n - Len(s)
        /\ n <= Len(s) <=> d + n <= Len(r)
    BY <1>1, <1>2, <1>3
  <2>2. n <= Len(s) => r[d + n] = s[n]
    BY <1>1, <2>1
  <2> HIDE DEF d
  <2> QED
    BY <1>2, <1>3, <2>1, <2>2
<1>5. Ends(rx, sx)
  BY <1>1, <1>2, <1>3, <1>4 DEF Ends, Text
<1> QED
  BY <1>5 DEF rx, sx

LEMMA EndOfConcat ==
    ASSUME NEW r \in Text, NEW s \in Text
    PROVE  Ends(r \o s, s)
<1> DEFINE rs == r \o s
<1>1. /\ Len(r) \in Nat /\ Len(s) \in Nat /\ r \in Seq(Char) /\ s \in Seq(Char)
  BY TextType DEF Text
<1>2. /\ rs \in Seq(Char) /\ Len(rs) = Len(r) + Len(s)
      /\ \A n \in 1..(Len(r) + Len(s)) :
            rs[n] = IF n <= Len(r) THEN r[n] ELSE s[n - Len(r)]
  BY <1>1, ConcatProperties
<1> HIDE DEF rs
<1>3. ASSUME NEW n \in 1..Len(s) PROVE rs[(Len(rs) - Len(s)) + n] = s[n]
  <2>1. /\ Len(r) + n \in 1..(Len(r) + Len(s)) /\ (Len(r) + n) - Len(r) = n
        /\ ~(Len(r) + n <= Len(r)) /\ Len(rs) - Len(s) = Len(r)
    BY <1>1, <1>2
  <2> QED
    BY <1>2, <2>1
<1>4. Ends(rs, s)
  BY <1>1, <1>2, <1>3 DEF Ends, Text
<1> QED
  BY <1>4 DEF rs

(* The last n characters of a text. *)
LEMMA EndOfText ==
    ASSUME NEW r \in Text, NEW n \in 0..Len(r)
    PROVE  Ends(r, SubSeq(r, (Len(r) - n) + 1, Len(r)))
           /\ Len(SubSeq(r, (Len(r) - n) + 1, Len(r))) = n
<1> DEFINE x == (Len(r) - n) + 1
           s == SubSeq(r, x, Len(r))
<1>1. /\ Len(r) \in Nat /\ n \in Nat /\ x \in Nat \ {0} /\ Len(r) + 1 \in Nat
      /\ x <= Len(r) + 1 /\ (Len(r) + 1) - 1 = Len(r) /\ (Len(r) + 1) - x = n
      /\ x - 1 = Len(r) - n
  BY TextType
<1> HIDE DEF x
<1>2. Cut(r, SubSeq(r, x, (Len(r) + 1) - 1), x, Len(r) + 1)
  BY <1>1, CutIs
<1>3. Cut(r, s, x, Len(r) + 1)
  BY <1>1, <1>2
<1> HIDE DEF s
<1>4. /\ s \in Text /\ Len(s) = n
      /\ \A m \in 1..n : s[m] = r[(Len(r) - n) + m]
  BY <1>1, <1>3 DEF Cut
<1>5. Ends(r, s)
  BY <1>1, <1>4 DEF Ends
<1> QED
  BY <1>4, <1>5 DEF s, x

(* Behind a redaction the e-mail pass goes on at the end of the address, with  *)
(* the placeholder at the end of the output.                                   *)
Carry ==
    pass = "emails" /\ i > 1 =>
        /\ \E m \in 1..Len(input) : EmailAt(input, m) = i
        /\ Ends(result, REDACTED_EMAIL)

LEMMA RedactCarries ==
    ASSUME TypeOK, Redact
    PROVE  Carry'
<1>1. PICK k, n, next : Redacts(k, n, next)
  BY RedactIs
<1> DEFINE P == Placeholder(pass)
           a == (Len(result) + ((k - i) - n)) + 1
<1>2. /\ pass \in Scanners /\ i \in 1..(Len(input) + 1) /\ input \in Text /\ result \in Text
      /\ k \in i..Len(input) /\ n \in 0..(Len(result) + (k - i))
      /\ MatchAt(pass, input, k) = next
      /\ pass' = pass /\ input' = input /\ i' = next
  BY <1>1, TypeParts DEF Redacts
<1>3. /\ Len(input) \in Nat /\ Len(result) \in Nat /\ k \in 1..Len(input)
      /\ a \in Nat \ {0}
  BY <1>2, TextType
<1>4. P \in Text /\ Len(P) \in Nat
  BY <1>2, PlaceholderIsText, TextType DEF Scanners
<1>5. Rewritten(Out, result', a, P)
  BY <1>1, RedactedIsText
<1> HIDE DEF P, a
<1>6. /\ result' \in Text /\ Len(result') = (a - 1) + Len(P)
      /\ \A x \in 1..Len(P) : result'[(a - 1) + x] = P[x]
  BY <1>5 DEF Rewritten
<1>7. Ends(result', P)
  <2>1. Len(result') - Len(P) = a - 1 /\ Len(P) <= Len(result')
    BY <1>3, <1>4, <1>6
  <2> QED
    BY <1>4, <1>6, <2>1 DEF Ends
<1>8. pass = "emails" => P = REDACTED_EMAIL /\ EmailAt(input, k) = next
  BY <1>2 DEF P, Placeholder, MatchAt
<1> QED
  BY <1>2, <1>3, <1>7, <1>8 DEF Carry

LEMMA CarryInit ==
    ASSUME Init
    PROVE  Carry
BY DEF Init, Carry

LEMMA CarryStep ==
    ASSUME TypeOK, Carry, [Next]_vars
    PROVE  Carry'
<1>1. ASSUME NextPass PROVE Carry'
  BY <1>1 DEF NextPass, Carry
<1>2. ASSUME Done \/ UNCHANGED vars PROVE Carry'
  BY <1>2 DEF Done, vars, Carry
<1> QED
  BY <1>1, <1>2, RedactCarries DEF Next

(* A local part that begins before the scan went on begins with the domain of  *)
(* the address redacted before.                                                *)
LEMMA SharedDomain ==
    ASSUME NEW t \in Text, NEW k \in 1..Len(t), NEW j \in 1..k, NEW m \in 1..Len(t),
           EmailAt(t, m) = j, scan_email_local_back(t, k) < j
    PROVE  scan_email_local_back(t, k) = m + 1
<1> DEFINE lo == scan_email_local_back(t, k)
<1>1. /\ lo \in 1..k /\ \A x \in lo..(k - 1) : At(t, x, is_email_local_char)
      /\ ~At(t, lo - 1, is_email_local_char)
  BY LocalBack
<1>2. EmailIs(t, m, j)
  BY MatchedEmail
<1>3. /\ m + 3 < j /\ At(t, m, {"@"}) /\ Len(t) \in Nat
      /\ \A x \in (m + 1)..(j - 1) : At(t, x, EmailDomain)
  <2>1. m \in Nat /\ Len(t) \in Nat
    BY TextType
  <2>2. m + 3 < j /\ \A x \in (m + 1)..(j - 1) : At(t, x, EmailDomain)
    BY <1>2, <2>1, EmailShapes
  <2> QED
    BY <1>2, <2>1, <2>2 DEF EmailIs
<1>4. "@" \notin is_email_local_char /\ EmailDomain \subseteq is_email_local_char
  <2>1. "@" \notin Alphanumeric
    BY ClassesDiffer
  <2> QED
    BY <2>1 DEF is_email_local_char, EmailDomain
<1> HIDE DEF lo
<1>5. lo > m
  <2> SUFFICES ASSUME lo <= m PROVE FALSE
    BY <1>1
  <2>1. m \in lo..(k - 1)
    BY <1>1, <1>3
  <2>2. At(t, m, is_email_local_char)
    BY <1>1, <2>1
  <2> QED
    BY <1>3, <1>4, <2>2 DEF At
<1>6. lo <= m + 1
  <2> SUFFICES ASSUME lo > m + 1 PROVE FALSE
    BY <1>1
  <2>1. lo - 1 \in (m + 1)..(j - 1)
    BY <1>1 DEF lo
  <2>2. At(t, lo - 1, EmailDomain)
    BY <1>3, <2>1
  <2> QED
    BY <1>1, <1>4, <2>2 DEF At
<1>7. lo = m + 1
  BY <1>1, <1>5, <1>6
<1> QED
  BY <1>7 DEF lo

(* What the pops of an e-mail redaction take when the local part is no longer  *)
(* in the output.                                                              *)
LEMMA OverrunTakes ==
    ASSUME TypeOK, Carry, NEW k, NEW n, NEW next, Redacts(k, n, next),
           pass = "emails", NEW lo \in 1..k, lo = scan_email_local_back(input, k),
           lo < i
    PROVE  /\ EmailAt(input, lo - 1) = i
           /\ Len(removed') <= Len(SubSeq(input, lo, next - 1))
           /\ \/ IsSuffix(removed', REDACTED_EMAIL \o SubSeq(input, i, next - 1))
              \/ IsSuffix(REDACTED_EMAIL \o SubSeq(input, i, next - 1), removed')
<1> DEFINE copied == result \o SubSeq(input, i, k - 1)
           L == Len(result) + (k - i)
           back == SubSeq(copied, (L - n) + 1, L)
           match == SubSeq(input, k, next - 1)
           rest == SubSeq(input, i, next - 1)
           address == SubSeq(input, lo, next - 1)
<1>1. /\ i \in 1..(Len(input) + 1) /\ input \in Text /\ result \in Text
      /\ k \in i..Len(input) /\ next \in (k + 1)..(Len(input) + 1) /\ n \in 0..L
      /\ n <= k - lo
      /\ removed' = back \o match
  BY TypeParts DEF Redacts, Popped
<1>2. /\ Len(input) \in Nat /\ Len(result) \in Nat /\ k \in i..(Len(input) + 1)
      /\ k \in 1..Len(input) /\ i \in 1..k /\ i > 1 /\ i \in Nat \ {0}
      /\ k \in Nat \ {0} /\ next \in Nat /\ lo \in Nat \ {0} /\ n \in Nat
      /\ k <= next /\ i <= next /\ lo <= next /\ next <= Len(input) + 1
  BY <1>1, TextType
<1>3. /\ Ends(result, REDACTED_EMAIL)
      /\ EmailAt(input, lo - 1) = i
  <2>1. PICK m \in 1..Len(input) : EmailAt(input, m) = i
    BY <1>2 DEF Carry
  <2>2. lo = m + 1
    BY <1>1, <1>2, <2>1, SharedDomain
  <2>3. lo - 1 = m
    BY <1>2, <2>2
  <2> QED
    BY <1>2, <2>1, <2>3 DEF Carry
<1>4. Cut(input, match, k, next) /\ Cut(input, rest, i, next) /\ Cut(input, address, lo, next)
  BY <1>1, <1>2, CutIs
<1>5. copied \in Text /\ Len(copied) = L
  BY <1>1, <1>2, CopiedIs
<1>6. Ends(copied, back) /\ Len(back) = n
  <2>1. n \in 0..Len(copied)
    BY <1>1, <1>5
  <2>2. Ends(copied, SubSeq(copied, (Len(copied) - n) + 1, Len(copied)))
        /\ Len(SubSeq(copied, (Len(copied) - n) + 1, Len(copied))) = n
    BY <1>5, <2>1, EndOfText
  <2> QED
    BY <1>5, <2>2, Zenon
<1>7. copied \o match = result \o rest
  <2> DEFINE between == SubSeq(input, i, k - 1)
  <2>1. Cut(input, between, i, k)
    BY <1>1, <1>2, CutIs
  <2>2. between \in Seq(Char) /\ match \in Seq(Char) /\ result \in Seq(Char)
    BY <1>1, <1>4, <2>1 DEF Cut, Text
  <2>3. between \o match = rest
    <3>1. /\ input \in Seq(Char) /\ i \in 1..(Len(input) + 1)
          /\ k - 1 \in (i - 1)..Len(input) /\ next - 1 \in (k - 1)..Len(input)
          /\ (k - 1) + 1 = k
      BY <1>1, <1>2 DEF Text
    <3>2. SubSeq(input, i, k - 1) \o SubSeq(input, (k - 1) + 1, next - 1)
              = SubSeq(input, i, next - 1)
      BY <3>1, ConcatAdjacentSubSeq
    <3> QED
      BY <3>1, <3>2, Zenon
  <2> HIDE DEF between, match, rest
  <2>4. (result \o between) \o match = result \o (between \o match)
    BY <2>2, ConcatAssociative
  <2> QED
    BY <2>3, <2>4, Zenon DEF copied, between
<1> HIDE DEF copied, back, match, rest, address, L
<1>8. match \in Text /\ rest \in Text /\ Len(match) = next - k /\ Len(address) = next - lo
  BY <1>4 DEF Cut
<1>9. Ends(result \o rest, removed')
  BY <1>1, <1>6, <1>7, <1>8, EndsAppend
<1>10. Ends(result \o rest, REDACTED_EMAIL \o rest)
  BY <1>3, <1>8, EndsAppend
<1>11. IsSuffix(removed', REDACTED_EMAIL \o rest) \/ IsSuffix(REDACTED_EMAIL \o rest, removed')
  BY <1>9, <1>10, TwoEnds
<1>12. Len(removed') <= Len(address)
  <2>1. Len(back \o match) = Len(back) + Len(match)
    <3>1. back \in Seq(Char) /\ match \in Seq(Char)
      BY <1>6, <1>8 DEF Ends, Text
    <3> QED
      BY <3>1, ConcatProperties
  <2>2. Len(removed') = n + (next - k)
    BY <1>1, <1>6, <1>8, <2>1
  <2> QED
    BY <1>1, <1>2, <1>8, <2>2
<1> QED
  BY <1>3, <1>11, <1>12 DEF rest, address


(* What becomes of a redaction: lo is where the address begins, or the date. *)
Accounted(lo, next) ==
    LET address == SubSeq(input, lo, next - 1)
        output == REDACTED_EMAIL \o SubSeq(input, EmailAt(input, lo - 1), next - 1)
    IN  /\ IsPattern(pass, address) \/ (pass = "emails" /\ IsLoneTld(address))
        /\ \/ removed' = address
           \/ /\ pass = "emails" /\ EmailAt(input, lo - 1) # 0
              /\ Len(removed') <= Len(address)
              /\ IsSuffix(removed', output) \/ IsSuffix(output, removed')

LEMMA AccountedFor ==
    ASSUME NEW next, NEW lo \in 1..(next - 1), Accounted(lo, next),
           pass' = pass, input' = input, i' = next
    PROVE  OnlyPatternsRemoved'
<1>1. OnlyPatternsRemoved' <=> (removed' # <<>> => \E x \in 1..(next - 1) : Accounted(x, next))
  BY Zenon DEF OnlyPatternsRemoved, TakenInstead, Accounted
<1> QED
  BY <1>1

LEMMA RedactTakesPattern ==
    ASSUME TypeOK, Carry, Redact
    PROVE  OnlyPatternsRemoved'
<1>1. PICK k, n, next : Redacts(k, n, next)
  BY RedactIs
<1>2. /\ pass \in Scanners /\ i \in 1..(Len(input) + 1) /\ input \in Text
      /\ k \in i..Len(input) /\ next \in (k + 1)..(Len(input) + 1)
      /\ MatchAt(pass, input, k) = next /\ next # 0
      /\ (Popped(pass, input, k) <= k - i => n = Popped(pass, input, k))
      /\ pass' = pass /\ input' = input /\ i' = next
  BY <1>1, TypeParts DEF Redacts
<1>3. k \in 1..Len(input) /\ k \in 1..(Len(input) + 1) /\ k \in Nat \ {0} /\ i \in Nat
      /\ next \in Nat /\ k \in 1..(next - 1)
  BY <1>2, TextType
<1>4. SUFFICES \E lo \in 1..(next - 1) : Accounted(lo, next)
  BY <1>2, AccountedFor
<1>5. ASSUME pass # "emails", IsPattern(pass, SubSeq(input, k, next - 1))
      PROVE  Accounted(k, next)
  <2>1. n = 0
    BY <1>2, <1>3, <1>5 DEF Popped
  <2>2. n <= k - i /\ k - n = k
    BY <1>2, <1>3, <2>1
  <2>3. removed' = SubSeq(input, k - n, next - 1)
    BY <1>1, <2>2, RemovedIs
  <2>4. removed' = SubSeq(input, k, next - 1)
    BY <2>2, <2>3, Zenon
  <2> QED
    BY <1>5, <2>4, Zenon DEF Accounted
<1>6. CASE pass = "ipv6"
  <2>1. IPv6At(input, k) = next
    BY <1>2, <1>6 DEF MatchAt
  <2>2. IsIPv6(SubSeq(input, k, next - 1))
    BY <1>2, <1>3, <2>1, MatchIsIPv6
  <2>3. IsPattern(pass, SubSeq(input, k, next - 1))
    BY <1>6, <2>2 DEF IsPattern
  <2> QED
    BY <1>3, <1>5, <1>6, <2>3
<1>7. CASE pass = "ipv4"
  <2>1. IPv4At(input, k) = next
    BY <1>2, <1>7 DEF MatchAt
  <2>2. PICK a, b, c \in Nat : Quad(input, k, a, b, c, next)
    BY <1>2, <1>3, <2>1, MatchedIPv4 DEF IPv4Is
  <2>3. IsIPv4(SubSeq(input, k, next - 1))
    BY <1>2, <1>3, <2>2, QuadIsIPv4
  <2>4. IsPattern(pass, SubSeq(input, k, next - 1))
    BY <1>7, <2>3 DEF IsPattern
  <2> QED
    BY <1>3, <1>5, <1>7, <2>4
<1>8. CASE pass = "emails"
  <2>1. EmailIs(input, k, next)
    BY <1>2, <1>3, <1>8, MatchedEmail DEF MatchAt
  <2> DEFINE lo == scan_email_local_back(input, k)
  <2>2. /\ lo \in 1..k /\ \A m \in lo..(k - 1) : At(input, m, is_email_local_char)
        /\ lo < k <=> At(input, k - 1, is_email_local_char)
    BY <1>2, <1>3, LocalBack
  <2>3. Popped(pass, input, k) = k - lo
    BY <1>8 DEF Popped
  <2>4. CASE lo < i
    <3>1. /\ EmailAt(input, lo - 1) = i
          /\ Len(removed') <= Len(SubSeq(input, lo, next - 1))
          /\ \/ IsSuffix(removed', REDACTED_EMAIL \o SubSeq(input, i, next - 1))
             \/ IsSuffix(REDACTED_EMAIL \o SubSeq(input, i, next - 1), removed')
      BY <1>1, <1>8, <2>2, <2>4, OverrunTakes
    <3> HIDE DEF lo
    <3>2. lo < k /\ lo \in 1..(next - 1) /\ i # 0
      BY <1>2, <1>3, <2>2, <2>4
    <3>3. IsEmail(SubSeq(input, lo, next - 1)) \/ IsLoneTld(SubSeq(input, lo, next - 1))
      BY <1>2, <1>3, <2>1, <2>2, <3>2, EmailIsEmail
    <3>4. IsPattern(pass, SubSeq(input, lo, next - 1)) <=> IsEmail(SubSeq(input, lo, next - 1))
      BY <1>8 DEF IsPattern
    <3>5. Accounted(lo, next)
      BY <1>8, <3>1, <3>2, <3>3, <3>4, Zenon DEF Accounted
    <3> QED
      BY <3>2, <3>5
  <2>5. CASE ~(lo < i)
    <3> HIDE DEF lo
    <3>1. n = k - lo /\ n <= k - i /\ k - n = lo
      BY <1>2, <1>3, <2>2, <2>3, <2>5
    <3>2. removed' = SubSeq(input, k - n, next - 1)
      BY <1>1, <3>1, RemovedIs
    <3>3. removed' = SubSeq(input, lo, next - 1)
      BY <3>1, <3>2, Zenon
    <3>4. lo < k /\ lo \in 1..(next - 1)
      BY <1>2, <1>3, <2>1, <2>2 DEF EmailIs
    <3>5. IsEmail(SubSeq(input, lo, next - 1)) \/ IsLoneTld(SubSeq(input, lo, next - 1))
      BY <1>2, <1>3, <2>1, <2>2, <3>4, EmailIsEmail
    <3>6. IsPattern(pass, SubSeq(input, lo, next - 1)) <=> IsEmail(SubSeq(input, lo, next - 1))
      BY <1>8 DEF IsPattern
    <3>7. Accounted(lo, next)
      BY <1>8, <3>3, <3>5, <3>6, Zenon DEF Accounted
    <3> QED
      BY <3>4, <3>7
  <2> QED
    BY <2>4, <2>5
<1>9. CASE pass = "dob"
  <2>1. DateAt(input, k) = next
    BY <1>2, <1>9 DEF MatchAt
  <2>2. next = k + 10 /\ DateAt(input, k) # 0
    BY <1>2, <1>3, <2>1, DateShape
  <2>3. IsBirthDate(SubSeq(input, k, (k + 10) - 1))
    BY <1>2, <1>3, <2>2, DateIsBirthDate
  <2>4. IsPattern(pass, SubSeq(input, k, next - 1))
    BY <1>9, <2>2, <2>3, Zenon DEF IsPattern
  <2> QED
    BY <1>3, <1>5, <1>9, <2>4
<1> QED
  BY <1>2, <1>6, <1>7, <1>8, <1>9 DEF Scanners

LEMMA PatternInit ==
    ASSUME Init
    PROVE  OnlyPatternsRemoved
BY DEF Init, OnlyPatternsRemoved

LEMMA PatternStep ==
    ASSUME TypeOK, Carry, OnlyPatternsRemoved, [Next]_vars
    PROVE  OnlyPatternsRemoved'
<1>1. ASSUME NextPass PROVE OnlyPatternsRemoved'
  BY <1>1 DEF NextPass, OnlyPatternsRemoved
<1>2. ASSUME Done \/ UNCHANGED vars PROVE OnlyPatternsRemoved'
  BY <1>2, Zenon DEF Done, vars, OnlyPatternsRemoved, TakenInstead
<1> QED
  BY <1>1, <1>2, RedactTakesPattern DEF Next

(* For every text: each redaction takes out one whole address or date of birth *)
(* of the documented pattern, or an e-mail address without a domain label, and *)
(* takes something else only where an address shares the domain of the one     *)
(* before it: then no more characters than the address has, from the end of    *)
(* the output, which is that one's placeholder and what follows it.            *)
THEOREM PatternsOnly == Spec => []OnlyPatternsRemoved
<1> QED
  BY TypeInit, TypeStep, CarryInit, CarryStep, PatternInit, PatternStep, PTL DEF Spec
----------------------------------------------------------------------------
(* The hashes that stand for personal data (Privacy).                         *)

Pii == INSTANCE Privacy

(* The tags are texts of eight bytes at least, and differ in the eighth. *)
LEMMA TagsDiffer ==
    /\ Pii!IP_DOMAIN_TAG \in Seq(Pii!Byte) /\ Len(Pii!IP_DOMAIN_TAG) >= 8
    /\ Pii!UA_DOMAIN_TAG \in Seq(Pii!Byte) /\ Len(Pii!UA_DOMAIN_TAG) >= 8
    /\ Pii!ORIGIN_DOMAIN_TAG \in Seq(Pii!Byte) /\ Len(Pii!ORIGIN_DOMAIN_TAG) >= 8
    /\ Pii!IP_DOMAIN_TAG[8] # Pii!UA_DOMAIN_TAG[8]
    /\ Pii!IP_DOMAIN_TAG[8] # Pii!ORIGIN_DOMAIN_TAG[8]
    /\ Pii!UA_DOMAIN_TAG[8] # Pii!ORIGIN_DOMAIN_TAG[8]
<1>1. Pii!IP_DOMAIN_TAG \in Seq(Pii!Byte) /\ Len(Pii!IP_DOMAIN_TAG) = 12
  BY DEF Pii!IP_DOMAIN_TAG, Pii!Byte
<1>2. Pii!UA_DOMAIN_TAG \in Seq(Pii!Byte) /\ Len(Pii!UA_DOMAIN_TAG) = 12
  BY DEF Pii!UA_DOMAIN_TAG, Pii!Byte
<1>3. Pii!ORIGIN_DOMAIN_TAG \in Seq(Pii!Byte) /\ Len(Pii!ORIGIN_DOMAIN_TAG) = 16
  BY DEF Pii!ORIGIN_DOMAIN_TAG, Pii!Byte
<1>4. /\ Pii!IP_DOMAIN_TAG[8] = 105 /\ Pii!UA_DOMAIN_TAG[8] = 117
      /\ Pii!ORIGIN_DOMAIN_TAG[8] = 111
  BY DEF Pii!IP_DOMAIN_TAG, Pii!UA_DOMAIN_TAG, Pii!ORIGIN_DOMAIN_TAG
<1> QED
  BY <1>1, <1>2, <1>3, <1>4

(* Texts that differ within what they begin with differ, whatever follows: a   *)
(* tag is not set off from the value by its length or a separator, so it is on *)
(* this that the separation rests.                                            *)
LEMMA TaggedDiffer ==
    ASSUME NEW s \in Seq(Pii!Byte), NEW t \in Seq(Pii!Byte),
           NEW a \in Seq(Pii!Byte), NEW b \in Seq(Pii!Byte), NEW n \in Nat \ {0},
           n <= Len(s), n <= Len(t), s[n] # t[n]
    PROVE  s \o a # t \o b
<1>1. (s \o a)[n] = s[n] /\ (t \o b)[n] = t[n]
  OBVIOUS
<1> QED
  BY <1>1

(* A hash of one kind is never a hash of another, even under the same salt and *)
(* for a value chosen to imitate a tag: the hash of an IP address cannot be    *)
(* mistaken for a user agent's or an origin's.                                *)
THEOREM DomainSeparation ==
    ASSUME NEW ip \in Seq(Pii!Byte), NEW ua \in Seq(Pii!Byte),
           NEW origin \in Seq(Pii!Byte), NEW salt
    PROVE  /\ Pii!hash_ip(ip, salt) # Pii!hash_user_agent(ua, salt)
           /\ Pii!hash_ip(ip, salt) # Pii!hash_origin(origin, salt)
           /\ Pii!hash_user_agent(ua, salt) # Pii!hash_origin(origin, salt)
<1>1. Pii!IP_DOMAIN_TAG \o ip # Pii!UA_DOMAIN_TAG \o ua
  BY TagsDiffer, TaggedDiffer
<1>2. Pii!IP_DOMAIN_TAG \o ip # Pii!ORIGIN_DOMAIN_TAG \o origin
  BY TagsDiffer, TaggedDiffer
<1>3. Pii!UA_DOMAIN_TAG \o ua # Pii!ORIGIN_DOMAIN_TAG \o origin
  BY TagsDiffer, TaggedDiffer
<1> QED
  BY <1>1, <1>2, <1>3 DEF Pii!hash_ip, Pii!hash_user_agent, Pii!hash_origin,
                         Pii!HmacSha256

(* The salt of a context is the one it was given, long enough and with a byte  *)
(* that is not zero; every other salt is refused.                              *)
LEMMA SaltIsUsable ==
    ASSUME NEW salt \in Seq(Pii!Byte)
    PROVE  IF Len(salt) >= Pii!MIN_SALT_LENGTH /\ \E n \in 1..Len(salt) : salt[n] # 0
           THEN Pii!new(salt) = salt
           ELSE Pii!new(salt) \in {Pii!TooShort, Pii!AllZeros}
BY DEF Pii!new, Pii!MIN_SALT_LENGTH
=============================================================================
