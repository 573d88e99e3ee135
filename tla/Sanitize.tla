------------------------------ MODULE Sanitize ------------------------------
(* strip_pii (rust/src/sanitize.rs): four passes over a text, each of which    *)
(* copies it from left to right and puts a placeholder where it recognises an  *)
(* IPv6 address, an IPv4 address, an e-mail address or a date of birth.  A     *)
(* text is a sequence of characters; positions count from 1 and an end is the  *)
(* position behind a match, 0 when there is none.  Characters outside ASCII    *)
(* belong to no class, so a position in characters serves for one in bytes.    *)
EXTENDS Naturals, FiniteSets, FiniteSetsExt, SequencesExt

CONSTANTS
    Char,                     \* the characters there are
    Texts                     \* the texts strip_pii is called with

VARIABLES
    pass,                     \* the scanner at work, or "done"
    input,                    \* its argument
    i,                        \* its position in input
    result,                   \* its output so far
    removed,                  \* history: what the last redaction took out
    overran                   \* history: some e-mail redaction took characters
                              \* that lie before the end of the previous one

vars == <<pass, input, i, result, removed, overran>>

Numerals == <<"0", "1", "2", "3", "4", "5", "6", "7", "8", "9">>
Digit == Range(Numerals)
HexDigit == Digit \cup {"a", "b", "c", "d", "e", "f", "A", "B", "C", "D", "E", "F"}
Alphabetic == (HexDigit \ Digit) \cup {"g", "m", "o", "x", "I", "L", "M", "O", "P",
                                       "R", "T"}
Alphanumeric == Digit \cup Alphabetic

REDACTED_IP == <<"[", "R", "E", "D", "A", "C", "T", "E", "D", "_", "I", "P", "]">>
REDACTED_EMAIL == SubSeq(REDACTED_IP, 1, 10) \o <<"E", "M", "A", "I", "L", "]">>
REDACTED_DOB == SubSeq(REDACTED_IP, 1, 10) \o <<"D", "O", "B", "]">>

PlaceholderChar == {"[", "]", "_"} \cup Alphabetic

ASSUME TextsAssumption == Texts \subseteq Seq(Char) /\ PlaceholderChar \subseteq Char

DOB_YEAR_LOWER == 1920
DOB_YEAR_UPPER == 2013

At(t, k, class) == k \in DOMAIN t /\ t[k] \in class

(* The first position from k on that holds no character of the class. *)
RunEnd(t, k, class) == Min({n \in k..(Len(t) + 1) : ~At(t, n, class)})

DigitValue == [d \in Digit |-> CHOOSE v \in 0..9 : Numerals[v + 1] = d]
Number(s) == FoldLeft(LAMBDA v, d : 10 * v + DigitValue[d], 0, s)

Digits(t, k, n) == \A m \in k..(k + n - 1) : At(t, m, Digit)
Num(t, k, n) == Number(SubSeq(t, k, k + n - 1))
----------------------------------------------------------------------------
(* IPv4.                                                                      *)

OctetEnd(t, k) ==
    LET end == RunEnd(t, k, Digit)
    IN  IF end - k \in 1..3 /\ Number(SubSeq(t, k, end - 1)) <= 255 THEN end ELSE 0

(* The octet behind a dot at the end of the one before. *)
NextOctetEnd(t, end) == IF At(t, end, {"."}) THEN OctetEnd(t, end + 1) ELSE 0

(* Four octets, joined by dots. *)
try_parse_ipv4(t, k) ==
    NextOctetEnd(t, NextOctetEnd(t, NextOctetEnd(t, OctetEnd(t, k))))

is_ipv4_adjacent == Digit \cup {"."}

IPv4At(t, k) ==
    LET end == try_parse_ipv4(t, k)
    IN  IF At(t, k - 1, is_ipv4_adjacent) \/ At(t, end, is_ipv4_adjacent)
        THEN 0 ELSE end
----------------------------------------------------------------------------
(* IPv6.                                                                      *)

(* The end of the hex groups from k on, when n more may follow and, if double, *)
(* a "::" came before.                                                        *)
GroupsEnd(t) ==
    LET ends[n \in 0..7] ==
            [k \in 1..(Len(t) + 1) |-> [double \in BOOLEAN |->
                LET end == Min({RunEnd(t, k, HexDigit), k + 4})
                    next(from, dbl) == IF n = 0 THEN from ELSE ends[n - 1][from][dbl]
                IN  IF end = k THEN k
                    ELSE IF At(t, end, {"."}) /\ end - k <= 3 /\ try_parse_ipv4(t, k) # 0
                    THEN try_parse_ipv4(t, k)
                    ELSE IF ~At(t, end, {":"}) THEN end
                    ELSE IF At(t, end + 1, {":"})
                    THEN IF double THEN end
                         ELSE IF At(t, end + 2, HexDigit) THEN next(end + 2, TRUE)
                         ELSE end + 2
                    ELSE IF At(t, end + 1, HexDigit) THEN next(end + 1, double) ELSE end]]
    IN  ends[7]

try_parse_ipv6(t, k) ==
    IF At(t, k, {":"}) /\ At(t, k + 1, {":"}) THEN GroupsEnd(t)[k + 2][TRUE]
    ELSE IF At(t, k, HexDigit) THEN GroupsEnd(t)[k][FALSE]
    ELSE 0

Colons(s) == Cardinality({n \in DOMAIN s : s[n] = ":"})

IPv6At(t, k) ==
    LET end == try_parse_ipv6(t, k)
        adjacent == HexDigit \cup {":"}
    IN  IF \/ Colons(SubSeq(t, k, end - 1)) < 2
           \/ At(t, k - 1, adjacent) \/ At(t, end, adjacent)
        THEN 0 ELSE end
----------------------------------------------------------------------------
(* E-mail addresses, found at their "@".                                      *)

is_email_local_char == Alphanumeric \cup {".", "_", "%", "+", "-"}

scan_email_local_back(t, k) ==
    Min({n \in 1..k : \A m \in n..(k - 1) : t[m] \in is_email_local_char})

(* The longest run of domain characters must end in a dot and two letters. *)
scan_email_domain_forward(t, k) ==
    LET end == RunEnd(t, k, Alphanumeric \cup {"-", "."})
        dots == {n \in k..(end - 1) : t[n] = "."}
    IN  IF /\ dots # {}
           /\ end - Max(dots) > 2
           /\ \A n \in (Max(dots) + 1)..(end - 1) : t[n] \in Alphabetic
        THEN end ELSE 0

EmailAt(t, k) ==
    IF At(t, k, {"@"}) /\ scan_email_local_back(t, k) < k
    THEN scan_email_domain_forward(t, k + 1) ELSE 0
----------------------------------------------------------------------------
(* Dates of birth.                                                            *)

BirthYear(y) == y \in DOB_YEAR_LOWER..DOB_YEAR_UPPER
Month(m) == m \in 1..12
Day(d) == d \in 1..31

TimeFollows(t, k) ==
    \/ At(t, k, {"T"})
    \/ At(t, k, {" "}) /\ Digits(t, k + 1, 2) /\ At(t, k + 3, {":"})

(* YYYY-MM-DD *)
try_parse_iso_date(t, k) ==
    /\ Digits(t, k, 4) /\ At(t, k + 4, {"-"}) /\ Digits(t, k + 5, 2)
    /\ At(t, k + 7, {"-"}) /\ Digits(t, k + 8, 2)
    /\ BirthYear(Num(t, k, 4)) /\ Month(Num(t, k + 5, 2)) /\ Day(Num(t, k + 8, 2))
    /\ ~TimeFollows(t, k + 10)

TwoTwoFour(t, k, separator) ==
    /\ Digits(t, k, 2) /\ At(t, k + 2, {separator}) /\ Digits(t, k + 3, 2)
    /\ At(t, k + 5, {separator}) /\ Digits(t, k + 6, 4)
    /\ BirthYear(Num(t, k + 6, 4))

(* DD/MM/YYYY or MM/DD/YYYY *)
try_parse_slash_date(t, k) ==
    /\ TwoTwoFour(t, k, "/")
    /\ \/ Day(Num(t, k, 2)) /\ Month(Num(t, k + 3, 2))
       \/ Month(Num(t, k, 2)) /\ Day(Num(t, k + 3, 2))

(* DD.MM.YYYY *)
try_parse_dot_date(t, k) ==
    /\ TwoTwoFour(t, k, ".")
    /\ Day(Num(t, k, 2)) /\ Month(Num(t, k + 3, 2))
    /\ ~TimeFollows(t, k + 10)

DateAt(t, k) ==
    IF /\ \/ try_parse_iso_date(t, k) \/ try_parse_slash_date(t, k)
          \/ try_parse_dot_date(t, k)
       /\ ~At(t, k - 1, Alphanumeric) /\ ~At(t, k + 10, Alphanumeric)
    THEN k + 10 ELSE 0
----------------------------------------------------------------------------
(* The passes.                                                                *)

(* Faulty variant: IPv4 addresses go first. *)
PassesSwapped == <<"ipv4", "ipv6", "emails", "dob", "done">>

Passes == <<"ipv6", "ipv4", "emails", "dob", "done">>

MatchAt(p, t, k) == CASE p = "ipv6" -> IPv6At(t, k)
                      [] p = "ipv4" -> IPv4At(t, k)
                      [] p = "emails" -> EmailAt(t, k)
                      [] p = "dob" -> DateAt(t, k)

Matches(p, t, from) == {k \in from..Len(t) : MatchAt(p, t, k) # 0}

Placeholder(p) == CASE p \in {"ipv6", "ipv4"} -> REDACTED_IP
                    [] p = "emails" -> REDACTED_EMAIL
                    [] p = "dob" -> REDACTED_DOB

Init ==
    /\ pass = Head(Passes)
    /\ input \in Texts
    /\ i = 1
    /\ result = <<>>
    /\ removed = <<>>
    /\ overran = FALSE

(* Faulty variant: the "@", which is not in the output, is counted too. *)
PoppedWithAt(p, t, k) ==
    IF p = "emails" THEN (k + 1) - scan_email_local_back(t, k) ELSE 0

(* How many characters a redaction at k takes back from the output: the local  *)
(* part of an e-mail address is there already.                                 *)
Popped(p, t, k) == IF p = "emails" THEN k - scan_email_local_back(t, k) ELSE 0

Pop(s, n) == SubSeq(s, 1, Len(s) - n)

(* Faulty variant: the scan goes on behind the first character of the match. *)
ResumeInside(p, t, k) == k + 1

(* Where the scan goes on: behind the match. *)
Resume(p, t, k) == Max({MatchAt(p, t, k), k + 1})

(* The scanner copies the text up to the first match and redacts the match. *)
Redact ==
    /\ pass # "done"
    /\ Matches(pass, input, i) # {}
    /\ LET k == Min(Matches(pass, input, i))
           next == Resume(pass, input, k)
           copied == result \o SubSeq(input, i, k - 1)
           n == Min({Popped(pass, input, k), Len(copied)})
       IN  /\ result' = Pop(copied, n) \o Placeholder(pass)
           /\ i' = next
           /\ removed' = SubSeq(copied, Len(copied) - n + 1, Len(copied))
                             \o SubSeq(input, k, next - 1)
           /\ overran' = (overran \/ Popped(pass, input, k) > k - i)
    /\ UNCHANGED <<pass, input>>

(* Faulty variant: a scanner stops after its first match. *)
NextPassEarly ==
    /\ pass # "done"
    /\ i > 1 \/ Matches(pass, input, i) = {}
    /\ pass' = Passes[1 + CHOOSE n \in 1..4 : Passes[n] = pass]
    /\ input' = result \o SubSeq(input, i, Len(input))
    /\ i' = 1
    /\ result' = <<>>
    /\ removed' = <<>>
    /\ UNCHANGED overran

(* Faulty variant: the next scanner starts where the last one stopped. *)
NextPassUnwound ==
    /\ pass # "done"
    /\ Matches(pass, input, i) = {}
    /\ pass' = Passes[1 + CHOOSE n \in 1..4 : Passes[n] = pass]
    /\ input' = result \o SubSeq(input, i, Len(input))
    /\ result' = <<>>
    /\ removed' = <<>>
    /\ UNCHANGED <<i, overran>>

(* There is no further match: the rest is copied, and the output is the next   *)
(* scanner's argument.                                                         *)
NextPass ==
    /\ pass # "done"
    /\ Matches(pass, input, i) = {}
    /\ pass' = Passes[1 + CHOOSE n \in 1..4 : Passes[n] = pass]
    /\ input' = result \o SubSeq(input, i, Len(input))
    /\ i' = 1
    /\ result' = <<>>
    /\ removed' = <<>>
    /\ UNCHANGED overran

Done == pass = "done" /\ UNCHANGED vars

Next == Redact \/ NextPass \/ Done

Spec == Init /\ [][Next]_vars
----------------------------------------------------------------------------
(* What the comments call the patterns, stated of a whole text.               *)

IsOctet(s) == Len(s) \in 1..3 /\ Digits(s, 1, Len(s)) /\ Number(s) <= 255

IsIPv4(s) ==
    \E a, b, c \in DOMAIN s :
        /\ a < b /\ b < c /\ s[a] = "." /\ s[b] = "." /\ s[c] = "."
        /\ IsOctet(SubSeq(s, 1, a - 1)) /\ IsOctet(SubSeq(s, a + 1, b - 1))
        /\ IsOctet(SubSeq(s, b + 1, c - 1)) /\ IsOctet(SubSeq(s, c + 1, Len(s)))

(* Up to eight hex groups between colons, of which two adjacent ones may leave *)
(* one group out; the last group may be an IPv4 address.                       *)
IsIPv6(s) ==
    LET cuts == {0, Len(s) + 1} \cup {n \in DOMAIN s : s[n] = ":"}
        gaps == {g \in cuts \X cuts :
                    g[1] < g[2] /\ \A c \in cuts : c <= g[1] \/ c >= g[2]}
        empty(g) == g[2] = g[1] + 1
    IN  /\ Cardinality(cuts) >= 4
        /\ \A g \in gaps :
              \/ empty(g)
              \/ g[2] - g[1] <= 5 /\ \A n \in (g[1] + 1)..(g[2] - 1) : s[n] \in HexDigit
              \/ g[2] = Len(s) + 1 /\ IsIPv4(SubSeq(s, g[1] + 1, Len(s)))
        /\ Cardinality({g \in gaps : empty(g) /\ g[1] > 0 /\ g[2] <= Len(s)}) <= 1
        /\ Cardinality({g \in gaps : ~empty(g)}) <= 8

(* local@domain.tld, the local part [a-zA-Z0-9._%+-]+ and the domain           *)
(* [a-zA-Z0-9.-]+\.[a-zA-Z]{2,} (sanitize.rs:393).                             *)
IsEmail(s) ==
    \E k, d \in DOMAIN s :
        /\ 1 < k /\ k + 1 < d /\ d + 2 <= Len(s) /\ s[k] = "@" /\ s[d] = "."
        /\ \A m \in 1..(k - 1) : s[m] \in is_email_local_char
        /\ \A m \in (k + 1)..Len(s) : s[m] \in Alphanumeric \cup {"-", "."}
        /\ \A m \in (d + 1)..Len(s) : s[m] \in Alphabetic

(* What that pattern leaves out and the scanner takes as well: nothing stands  *)
(* between the "@" and the dot, as in a@.co.                                   *)
IsLoneTld(s) ==
    \E k \in DOMAIN s :
        /\ 1 < k /\ k + 3 <= Len(s) /\ s[k] = "@" /\ s[k + 1] = "."
        /\ \A m \in 1..(k - 1) : s[m] \in is_email_local_char
        /\ \A m \in (k + 2)..Len(s) : s[m] \in Alphabetic

IsBirthDate(s) == Len(s) = 10 /\ (\/ try_parse_iso_date(s, 1)
                                 \/ try_parse_slash_date(s, 1)
                                 \/ try_parse_dot_date(s, 1))

IsPattern(p, s) == CASE p = "ipv6" -> IsIPv6(s)
                     [] p = "ipv4" -> IsIPv4(s)
                     [] p = "emails" -> IsEmail(s)
                     [] p = "dob" -> IsBirthDate(s)
----------------------------------------------------------------------------

TypeOK ==
    /\ pass \in Range(Passes)
    /\ i \in 1..(Len(input) + 1)
    /\ {input, result, removed} \subseteq Seq(Char)
    /\ overran \in BOOLEAN

(* What is left is clean: no IPv4 address, e-mail address or date of birth     *)
(* that its scanner recognises is in what the four scanners leave together,    *)
(* not even across a placeholder another one put there (sanitize.rs:1417,      *)
(* 1444).  IPv6 is left out: "::1.2.3.4a" becomes "::", a placeholder and "a", *)
(* and a second strip_pii would redact the "::".  So are texts in which a      *)
(* redaction took characters that belong to the one before it.                 *)
NothingLeft ==
    pass = "done" /\ ~overran =>
        \A p \in {"ipv4", "emails", "dob"} : Matches(p, input, 1) = {}

(* What the output has in place of an address whose local part begins with the *)
(* domain of the one redacted before it (a@b.co@c.org): the end of that        *)
(* domain's placeholder and the rest of the address, the placeholder and the   *)
(* text before it when the domain is the longer of the two, in any case no     *)
(* more characters than the address has.                                       *)
TakenInstead(lo, address) ==
    LET end == EmailAt(input, lo - 1)
        output == REDACTED_EMAIL \o SubSeq(input, end, i - 1)
    IN  /\ pass = "emails" /\ end # 0
        /\ Len(removed) <= Len(address)
        /\ IsSuffix(removed, output) \/ IsSuffix(output, removed)

(* What a redaction takes out of the text is one whole address or date that    *)
(* was in the pass's input and ends where the pass goes on, with an e-mail's   *)
(* local part although that was in the output already: a documented pattern,   *)
(* or the address without a domain label that the scanner takes for one.  The  *)
(* pops of strip_emails (sanitize.rs:408) take something else in one case      *)
(* only, where the local part is no longer in the output; then it is confined  *)
(* to what TakenInstead says.                                                  *)
OnlyPatternsRemoved ==
    removed # <<>> =>
        \E lo \in 1..(i - 1) :
            LET address == SubSeq(input, lo, i - 1)
            IN  /\ IsPattern(pass, address) \/ (pass = "emails" /\ IsLoneTld(address))
                /\ removed = address \/ TakenInstead(lo, address)

(* An IPv4 address inside an IPv6 address is never redacted alone, which would *)
(* leave the rest of the address in the text (sanitize.rs:160).                *)
MappedIsOneAddress ==
    pass = "ipv4" =>
        \A k \in Matches("ipv4", input, i), m \in Matches("ipv6", input, 1) :
            m > k \/ MatchAt("ipv6", input, m) <= k

(* What strip_emails says it matches (sanitize.rs:393): local@domain.tld with  *)
(* a domain of the form [a-zA-Z0-9.-]+\.[a-zA-Z]{2,}.  No such address is left. *)
NoEmailLeft ==
    pass = "done" =>
        \A a, b \in DOMAIN input : ~(a < b /\ IsEmail(SubSeq(input, a, b)))
============================================================================
