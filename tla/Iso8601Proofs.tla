--------------------------- MODULE Iso8601Proofs ---------------------------
(* format_iso8601 for every timestamp, not only those of the years a run goes  *)
(* through: its numbers are in range, its date is the calendar's, and its      *)
(* texts are ordered as the timestamps are.  The proofs place a day in a       *)
(* calendar whose years begin in March, as the code does.                      *)
EXTENDS Iso8601, TLAPS

(* Every day of an era belongs to one of its 400 years, and lies in that year; *)
(* the quotients the code divides by are named.                               *)
EraDay(doe, yoe) ==
    yoe \in 0..399 /\ doe - (365 * yoe + yoe \div 4 - yoe \div 100) \in 0..365

LEMMA YearOfEra ==
    ASSUME NEW doe \in Nat, doe <= 146096
    PROVE  EraDay(doe, year_of_era(doe))
<1> DEFINE a == doe \div 1460
           b == doe \div 36524
           c == doe \div 146096
           n == doe - a + b - c
           y == n \div 365
           q == y \div 4
           h == y \div 100
<1>1. a \in Int /\ 1460 * a <= doe /\ doe < 1460 * a + 1460
  BY SMT
<1>2. b \in Int /\ 36524 * b <= doe /\ doe < 36524 * b + 36524
  BY SMT
<1>3. c \in Int /\ 146096 * c <= doe /\ doe < 146096 * c + 146096
  BY SMT
<1> HIDE DEF a, b, c
<1>4. n \in Int
  BY <1>1, <1>2, <1>3, SMT
<1>5. y \in Int /\ 365 * y <= n /\ n < 365 * y + 365
  BY <1>4, SMT
<1>6. y \in 0..399
  BY <1>1, <1>2, <1>3, <1>5, SMT
<1> HIDE DEF y
<1>7. q \in Int /\ 4 * q <= y /\ y < 4 * q + 4
  BY <1>6, SMT
<1>8. h \in Int /\ 100 * h <= y /\ y < 100 * h + 100
  BY <1>6, SMT
<1> HIDE DEF q, h
<1>9. doe - (365 * y + q - h) \in 0..365
  BY <1>1, <1>2, <1>3, <1>5, <1>6, <1>7, <1>8, SMT
<1>10. EraDay(doe, y)
  BY <1>6, <1>9 DEF EraDay, q, h
<1> QED
  BY <1>10, SMT DEF year_of_era, a, b, c, y

(* Every day of a year that begins in March belongs to one of its months. *)
LEMMA MonthOfYear ==
    ASSUME NEW doy \in 0..365
    PROVE  LET mp == (5 * doy + 2) \div 153
           IN  /\ mp \in 0..11
               /\ doy - (153 * mp + 2) \div 5 + 1 \in 1..31
BY SMT

(* What a date is: a year of four digits, a month, a day of it. *)
IsDate(t) ==
    /\ t \in Seq(Nat) /\ Len(t) = 3
    /\ t[1] \in 0..9999 /\ t[2] \in 1..12 /\ t[3] \in 1..31

(* A time of day: hours, minutes, seconds, milliseconds. *)
IsTime(t) ==
    /\ t \in Seq(Nat) /\ Len(t) = 4
    /\ t[1] \in 0..23 /\ t[2] \in 0..59 /\ t[3] \in 0..59 /\ t[4] \in 0..999

(* No day up to MAX_DAY lies beyond the year 9999: January and February of the *)
(* last year of the last era are not reached.                                 *)
LEMMA CivilDate ==
    ASSUME NEW d \in Nat, d <= MAX_DAY
    PROVE  IsDate(civil_from_days(d))
<1> DEFINE z == d + EPOCH
           era == z \div 146097
           doe == z - era * 146097
           yoe == year_of_era(doe)
           y == yoe + era * 400
           doy == doe - (365 * yoe + yoe \div 4 - yoe \div 100)
           mp == (5 * doy + 2) \div 153
           mday == doy - (153 * mp + 2) \div 5 + 1
           month == IF mp < 10 THEN mp + 3 ELSE mp - 9
           year == civil_year(y, month)
<1>1. z \in Nat /\ z <= 3652364
  BY SMT DEF EPOCH, MAX_DAY
<1> HIDE DEF z
<1>2. era \in Nat /\ era <= 24 /\ 146097 * era <= z /\ z < 146097 * era + 146097
  BY <1>1, SMT
<1> HIDE DEF era
<1>3. doe \in Nat /\ doe <= 146096 /\ doe = z - 146097 * era
  BY <1>1, <1>2, SMT
<1> HIDE DEF doe
<1>4. yoe \in 0..399 /\ doy \in 0..365
  <2>0. doe \in Nat /\ doe <= 146096
    BY <1>3
  <2>1. EraDay(doe, yoe)
    BY <2>0, YearOfEra
  <2> HIDE DEF yoe
  <2> QED
    BY <2>1, Zenon DEF EraDay
<1> HIDE DEF yoe
<1>5. yoe = 399 => yoe \div 4 = 99 /\ yoe \div 100 = 3
  BY SMT
<1>6. era = 24 /\ yoe = 399 => doy <= 305
  BY <1>1, <1>3, <1>5, SMT
<1> HIDE DEF doy
<1>7. mp \in 0..11 /\ mday \in 1..31
  BY <1>4, MonthOfYear, SMT
<1>8. doy <= 305 => mp <= 9
  BY <1>4, SMT
<1> HIDE DEF mp, mday
<1>9. month \in 1..12 /\ (mp <= 9 => month > 2)
  BY <1>7, SMT
<1> HIDE DEF month
<1>10. year \in 0..9999
  <2>1. y \in 0..9999 /\ (y = 9999 => era = 24 /\ yoe = 399)
    BY <1>2, <1>4, SMT
  <2>2. y = 9999 => month > 2
    BY <1>6, <1>8, <1>9, <2>1
  <2> HIDE DEF y
  <2> QED
    BY <1>9, <2>1, <2>2, SMT DEF civil_year
<1> HIDE DEF year
<1>11. civil_from_days(d) = <<year, month, mday>>
  BY SMT DEF civil_from_days, z, era, doe, yoe, doy, mp, mday, month, year
<1> QED
  BY <1>7, <1>9, <1>10, <1>11, SMT DEF IsDate

(* The numbers of a time of day, and the milliseconds they come from. *)
TimeMade(ms, t, h, m, s, f) ==
    /\ t = <<h, m, s, f>>
    /\ h <= 23 /\ m <= 59 /\ s <= 59 /\ f <= 999
    /\ ms = 3600000 * h + 60000 * m + 1000 * s + f

LEMMA TimeParts ==
    ASSUME NEW ms \in Nat, ms <= 86399999
    PROVE  \E h, m, s, f \in Nat : TimeMade(ms, time_of_day(ms), h, m, s, f)
<1> DEFINE secs == ms \div 1000
           h == secs \div 3600
           a == secs % 3600
           m == a \div 60
           s == secs % 60
           f == ms % 1000
<1>1. secs \in Nat /\ 1000 * secs <= ms /\ ms < 1000 * secs + 1000
  BY SMT
<1>2. f = ms - 1000 * secs
  BY SMT
<1>3. time_of_day(ms) = <<h, m, s, f>>
  BY SMT DEF time_of_day
<1> HIDE DEF secs, f
<1>4. a = secs - 3600 * h /\ h \in Int /\ 3600 * h <= secs /\ secs < 3600 * h + 3600
  BY <1>1, SMT
<1> HIDE DEF h, a
<1>5. a \in Nat /\ a < 3600
  BY <1>1, <1>4, SMT
<1>6. m \in Int /\ 60 * m <= a /\ a < 60 * m + 60
  BY <1>5, SMT
<1> HIDE DEF m
<1>7. s = a - 60 * m
  <2> DEFINE q == 60 * h + m
             n == a - 60 * m
  <2>1. q \in Int /\ n \in Nat /\ n < 60 /\ secs = 60 * q + n
    BY <1>1, <1>4, <1>5, <1>6, SMT
  <2> HIDE DEF q, n
  <2>2. s = n
    BY <1>1, <2>1, SMT
  <2> QED
    BY <2>2, SMT DEF n
<1> HIDE DEF s
<1>8. /\ h \in Nat /\ m \in Nat /\ s \in Nat /\ f \in Nat
      /\ h <= 23 /\ m <= 59 /\ s <= 59 /\ f <= 999
      /\ ms = 3600000 * h + 60000 * m + 1000 * s + f
  BY <1>1, <1>2, <1>4, <1>5, <1>6, <1>7, SMT
<1>9. TimeMade(ms, time_of_day(ms), h, m, s, f)
  BY <1>3, <1>8, SMT DEF TimeMade
<1> QED
  BY <1>8, <1>9, SMT

LEMMA TimeOfDay ==
    ASSUME NEW ms \in Nat, ms <= 86399999
    PROVE  LET t == time_of_day(ms)
           IN  /\ IsTime(t)
               /\ ((t[1] * 60 + t[2]) * 60 + t[3]) * 1000 + t[4] = ms
<1>1. PICK h, m, s, f \in Nat : TimeMade(ms, time_of_day(ms), h, m, s, f)
  BY TimeParts, SMT
<1>2. ((h * 60 + m) * 60 + s) * 1000 + f = ms
  BY <1>1, SMT DEF TimeMade
<1> QED
  BY <1>1, <1>2, SMT DEF TimeMade, IsTime

(* What the fields of a text may be. *)
InRange(t) ==
    /\ Len(t) = 7
    /\ t[1] \in 0..9999
    /\ t[2] \in 1..12
    /\ t[3] \in 1..31
    /\ t[4] \in 0..23
    /\ t[5] \in 0..59
    /\ t[6] \in 0..59
    /\ t[7] \in 0..999

LEMMA Concatenation ==
    ASSUME NEW s \in Seq(Nat), NEW t \in Seq(Nat)
    PROVE  /\ s \o t \in Seq(Nat) /\ Len(s \o t) = Len(s) + Len(t)
           /\ \A n \in 1..Len(s) : (s \o t)[n] = s[n]
           /\ \A n \in 1..Len(t) : (s \o t)[Len(s) + n] = t[n]
BY SMT

(* A date and a time put together. *)
Joined(u, s, t) ==
    /\ u \in Seq(Nat) /\ Len(u) = 7
    /\ u[1] = s[1] /\ u[2] = s[2] /\ u[3] = s[3]
    /\ u[4] = t[1] /\ u[5] = t[2] /\ u[6] = t[3] /\ u[7] = t[4]

LEMMA DateThenTime ==
    ASSUME NEW s, NEW t, IsDate(s), IsTime(t)
    PROVE  Joined(s \o t, s, t)
<1>1. s \in Seq(Nat) /\ Len(s) = 3
  BY SMT DEF IsDate
<1>2. t \in Seq(Nat) /\ Len(t) = 4
  BY SMT DEF IsTime
<1> DEFINE u == s \o t
<1>3. /\ u \in Seq(Nat) /\ Len(u) = Len(s) + Len(t)
      /\ \A n \in 1..Len(s) : u[n] = s[n]
      /\ \A n \in 1..Len(t) : u[Len(s) + n] = t[n]
  BY <1>1, <1>2, Concatenation
<1> HIDE DEF u
<1>4. u[1] = s[1] /\ u[2] = s[2] /\ u[3] = s[3]
  BY <1>1, <1>3, SMT
<1>5. u[4] = t[1] /\ u[5] = t[2] /\ u[6] = t[3] /\ u[7] = t[4]
  BY <1>1, <1>2, <1>3, SMT
<1>6. Joined(u, s, t)
  BY <1>1, <1>2, <1>3, <1>4, <1>5, SMT DEF Joined
<1> QED
  BY <1>6 DEF u

LEMMA JoinedInRange ==
    ASSUME NEW u, NEW s, NEW t, IsDate(s), IsTime(t), Joined(u, s, t)
    PROVE  InRange(u)
<1>1. Len(u) = 7
  BY DEF Joined
<1>2. u[1] \in 0..9999 /\ u[2] \in 1..12 /\ u[3] \in 1..31
  BY DEF Joined, IsDate
<1>3. u[4] \in 0..23 /\ u[5] \in 0..59 /\ u[6] \in 0..59 /\ u[7] \in 0..999
  BY DEF Joined, IsTime
<1> QED
  BY <1>1, <1>2, <1>3 DEF InRange

(* Of every timestamp, before and beyond the end of the year 9999, the text    *)
(* has a month, a day, an hour, a minute and a second that exist, and a year   *)
(* of four digits.                                                            *)
THEOREM FieldsInRange ==
    ASSUME NEW d \in Nat, NEW ms \in Nat, ms <= 86399999
    PROVE  InRange(format_iso8601(d, ms))
<1>1. ASSUME NEW e \in Nat, e <= MAX_DAY, NEW m \in Nat, m <= 86399999
      PROVE  InRange(civil_from_days(e) \o time_of_day(m))
  <2> DEFINE s == civil_from_days(e)
             t == time_of_day(m)
  <2>1. IsDate(s) /\ IsTime(t)
    BY <1>1, CivilDate, TimeOfDay
  <2> HIDE DEF s, t
  <2> DEFINE u == s \o t
  <2>2. Joined(u, s, t)
    BY <2>1, DateThenTime
  <2> HIDE DEF u
  <2>3. InRange(u)
    BY <2>1, <2>2, JoinedInRange
  <2> QED
    BY <2>3 DEF s, t, u
<1>2. CASE d > MAX_DAY
  BY <1>1, <1>2, SMT DEF format_iso8601, MAX_DAY
<1>3. CASE ~(d > MAX_DAY)
  BY <1>1, <1>3, SMT DEF format_iso8601, MAX_DAY
<1> QED
  BY <1>2, <1>3, SMT

LEMMA RangeFitsWidth ==
    ASSUME NEW t, InRange(t)
    PROVE  FitsWidth(t)
<1>1. Len(Width) = 7
  BY SMT DEF Width
<1>2. /\ Width[1] = 4 /\ Width[2] = 2 /\ Width[3] = 2 /\ Width[4] = 2
      /\ Width[5] = 2 /\ Width[6] = 2 /\ Width[7] = 3
  BY SMT DEF Width
<1>3. Power[2] = 100 /\ Power[3] = 1000 /\ Power[4] = 10000
  BY SMT DEF Power
<1>4. /\ t[1] \in 0..(Power[Width[1]] - 1)
      /\ t[2] \in 0..(Power[Width[2]] - 1)
      /\ t[3] \in 0..(Power[Width[3]] - 1)
      /\ t[4] \in 0..(Power[Width[4]] - 1)
      /\ t[5] \in 0..(Power[Width[5]] - 1)
      /\ t[6] \in 0..(Power[Width[6]] - 1)
      /\ t[7] \in 0..(Power[Width[7]] - 1)
  <2>1. /\ t[1] \in 0..9999 /\ t[2] \in 0..99 /\ t[3] \in 0..99 /\ t[4] \in 0..99
        /\ t[5] \in 0..99 /\ t[6] \in 0..99 /\ t[7] \in 0..999
    BY SMTT(60) DEF InRange
  <2> QED
    BY <2>1, <1>2, <1>3, SMTT(60)
<1>5. ASSUME NEW n \in 1..7 PROVE t[n] \in 0..(Power[Width[n]] - 1)
  <2>1. \/ n = 1 \/ n = 2 \/ n = 3 \/ n = 4 \/ n = 5 \/ n = 6 \/ n = 7
    BY SMT
  <2> QED
    BY <2>1, <1>4, SMT
<1> QED
  BY <1>1, <1>5, SMT DEF FitsWidth

----------------------------------------------------------------------------
(* The calendar whose years begin in March, on which the arithmetic rests: a   *)
(* day z since 0000-03-01 lies in the 400-year era e, in its century h, in the *)
(* four years k of the century, in the year s of those, on the day r of it.    *)

LEMMA DivBounds ==
    ASSUME NEW z \in Int, NEW n \in Nat \ {0}
    PROVE  z \div n \in Int /\ n * (z \div n) <= z /\ z < n * (z \div n) + n
BY SMT

LEMMA DivUnique ==
    ASSUME NEW z \in Int, NEW n \in Nat \ {0}, NEW q \in Int,
           n * q <= z, z < n * q + n
    PROVE  z \div n = q
BY SMT

(* The year ends with a 29 February. *)
LongYear(h, k, s) == s = 3 /\ (k < 24 \/ h = 3)

Placed(z, e, h, k, s, r) ==
    /\ h <= 3 /\ k <= 24 /\ s <= 3
    /\ r <= 364 \/ (r = 365 /\ LongYear(h, k, s))
    /\ z = 146097 * e + 36524 * h + 1461 * k + 365 * s + r

(* Every day has its place. *)
LEMMA EveryDayPlaced ==
    ASSUME NEW z \in Nat
    PROVE  \E e, h, k, s, r \in Nat : Placed(z, e, h, k, s, r)
<1>1. PICK e \in Nat, doe \in Nat : doe <= 146096 /\ z = 146097 * e + doe
  <2> DEFINE e == z \div 146097
  <2>1. e \in Int /\ 146097 * e <= z /\ z < 146097 * e + 146097
    BY DivBounds, SMT
  <2> HIDE DEF e
  <2>2. e \in Nat /\ z - 146097 * e \in Nat /\ z - 146097 * e <= 146096
        /\ z = 146097 * e + (z - 146097 * e)
    BY <2>1, SMT
  <2> QED
    BY <2>2
<1>2. PICK h \in Nat, doc \in Nat : /\ h <= 3 /\ doc <= 36524 /\ (doc = 36524 => h = 3)
                                    /\ doe = 36524 * h + doc
  <2> DEFINE q == doe \div 36524
  <2>1. q \in Int /\ 36524 * q <= doe /\ doe < 36524 * q + 36524
    BY DivBounds, SMT
  <2> HIDE DEF q
  <2>2. q \in Nat /\ q <= 4 /\ (q = 4 => doe = 146096)
    BY <1>1, <2>1, SMT
  <2>3. CASE q = 4
    <3>1. doe = 36524 * 3 + 36524
      BY <2>2, <2>3, SMT
    <3> QED
      BY <3>1, SMT
  <2>4. CASE q # 4
    <3>1. doe - 36524 * q \in Nat /\ doe - 36524 * q < 36524
          /\ doe = 36524 * q + (doe - 36524 * q) /\ q <= 3
      BY <2>1, <2>2, <2>4, SMT
    <3> QED
      BY <2>2, <3>1, SMT
  <2> QED
    BY <2>3, <2>4
<1>3. PICK k \in Nat, doq \in Nat : /\ k <= 24 /\ doq <= 1460
                                    /\ doq = 1460 => k < 24 \/ h = 3
                                    /\ doc = 1461 * k + doq
  <2> DEFINE k == doc \div 1461
  <2>1. k \in Int /\ 1461 * k <= doc /\ doc < 1461 * k + 1461
    BY DivBounds, SMT
  <2> HIDE DEF k
  <2>2. /\ k \in Nat /\ k <= 24 /\ doc - 1461 * k \in Nat /\ doc - 1461 * k <= 1460
        /\ doc - 1461 * k = 1460 => k < 24 \/ h = 3
        /\ doc = 1461 * k + (doc - 1461 * k)
    BY <1>2, <2>1, SMT
  <2> QED
    BY <2>2
<1>4. PICK s \in Nat, r \in Nat : /\ s <= 3 /\ r <= 365
                                  /\ r = 365 => s = 3 /\ doq = 1460
                                  /\ doq = 365 * s + r
  <2> DEFINE q == doq \div 365
  <2>1. q \in Int /\ 365 * q <= doq /\ doq < 365 * q + 365
    BY DivBounds, SMT
  <2> HIDE DEF q
  <2>2. q \in Nat /\ q <= 4 /\ (q = 4 => doq = 1460)
    BY <1>3, <2>1, SMT
  <2>3. CASE q = 4
    <3>1. doq = 365 * 3 + 365
      BY <2>2, <2>3, SMT
    <3> QED
      BY <3>1, SMT
  <2>4. CASE q # 4
    <3>1. doq - 365 * q \in Nat /\ doq - 365 * q < 365
          /\ doq = 365 * q + (doq - 365 * q) /\ q <= 3
      BY <2>1, <2>2, <2>4, SMT
    <3> QED
      BY <2>2, <3>1, SMT
  <2> QED
    BY <2>3, <2>4
<1>5. z = 146097 * e + 36524 * h + 1461 * k + 365 * s + r
  BY <1>1, <1>2, <1>3, <1>4, SMT
<1>6. r <= 364 \/ (r = 365 /\ LongYear(h, k, s))
  BY <1>3, <1>4, SMT DEF LongYear
<1>7. Placed(z, e, h, k, s, r)
  BY <1>2, <1>3, <1>4, <1>5, <1>6 DEF Placed
<1> QED
  BY <1>7

DayOfEra(h, k, s, r) == 36524 * h + 1461 * k + 365 * s + r

YearInEra(h, k, s) == 100 * h + 4 * k + s

(* What the code's divisions have to return. *)
Found(z, e, doe, yoe, r) ==
    /\ z \div 146097 = e
    /\ year_of_era(doe) = yoe
    /\ doe - (365 * yoe + yoe \div 4 - yoe \div 100) = r

(* The code's division finds the place: the year of the era, and in it the day. *)
LEMMA YearFound ==
    ASSUME NEW e \in Nat, NEW h \in Nat, NEW k \in Nat, NEW s \in Nat, NEW r \in Nat,
           NEW z \in Nat, Placed(z, e, h, k, s, r),
           NEW doe, doe = DayOfEra(h, k, s, r),
           NEW yoe, yoe = YearInEra(h, k, s)
    PROVE  Found(z, e, doe, yoe, r)
<1>0. doe = 36524 * h + 1461 * k + 365 * s + r /\ yoe = 100 * h + 4 * k + s
  BY SMT DEF DayOfEra, YearInEra
<1>1. /\ h <= 3 /\ k <= 24 /\ s <= 3 /\ r <= 365
      /\ r = 365 => s = 3 /\ (k < 24 \/ h = 3)
      /\ z = 146097 * e + doe
  BY <1>0, SMT DEF Placed, LongYear
<1>2. doe \in Nat /\ doe <= 146096
  BY <1>0, <1>1, SMT
<1>3. z \div 146097 = e
  BY <1>1, <1>2, DivUnique, SMT
<1>4. yoe \in Nat /\ yoe \div 4 = 25 * h + k /\ yoe \div 100 = h
  <2>1. yoe \in Nat /\ 25 * h + k \in Int
        /\ 4 * (25 * h + k) <= yoe /\ yoe < 4 * (25 * h + k) + 4
        /\ 100 * h <= yoe /\ yoe < 100 * h + 100
    BY <1>0, <1>1, SMT
  <2>2. yoe \div 4 = 25 * h + k
    BY <2>1, DivUnique, SMT
  <2>3. yoe \div 100 = h
    BY <2>1, DivUnique, SMT
  <2> QED
    BY <2>1, <2>2, <2>3
<1>5. doe - (365 * yoe + yoe \div 4 - yoe \div 100) = r
  BY <1>0, <1>1, <1>4, SMT
<1>6. doe \div 36524 - doe \div 146096 = h
  <2>1. CASE doe = 146096
    <3>1. h = 3
      BY <1>0, <1>1, <2>1, SMT
    <3>2. doe \div 36524 = 4
      BY <1>2, <2>1, DivUnique, SMT
    <3>3. doe \div 146096 = 1
      BY <1>2, <2>1, DivUnique, SMT
    <3> QED
      BY <3>1, <3>2, <3>3, SMT
  <2>2. CASE doe # 146096
    <3>1. 36524 * h <= doe /\ doe < 36524 * h + 36524
      BY <1>0, <1>1, <2>2, SMT
    <3>2. doe \div 36524 = h
      BY <1>2, <3>1, DivUnique, SMT
    <3>3. doe \div 146096 = 0
      BY <1>2, <2>2, DivUnique, SMT
    <3> QED
      BY <3>2, <3>3, SMT
  <2> QED
    BY <2>1, <2>2
<1>7. PICK b \in {0, 1} : /\ doe \div 1460 = 25 * h + k + b
                          /\ b = 1 <=> 24 * h + k + 365 * s + r >= 1460
  <2> DEFINE rest == 24 * h + k + 365 * s + r
             n == 25 * h + k
  <2>1. rest \in Nat /\ rest < 2920 /\ n \in Nat /\ doe = 1460 * n + rest
    BY <1>0, <1>1, SMT
  <2> HIDE DEF rest, n
  <2>2. CASE rest >= 1460
    <3>1. 1460 * (n + 1) <= doe /\ doe < 1460 * (n + 1) + 1460
      BY <2>1, <2>2, SMT
    <3>2. doe \div 1460 = n + 1
      BY <1>2, <2>1, <3>1, DivUnique, SMT
    <3> QED
      BY <2>2, <3>2 DEF rest, n
  <2>3. CASE ~(rest >= 1460)
    <3>1. 1460 * n <= doe /\ doe < 1460 * n + 1460
      BY <2>1, <2>3, SMT
    <3>2. doe \div 1460 = n
      BY <1>2, <2>1, <3>1, DivUnique, SMT
    <3>3. doe \div 1460 = n + 0
      BY <2>1, <3>2, SMT
    <3> QED
      BY <2>3, <3>3 DEF rest, n
  <2> QED
    BY <2>2, <2>3
<1>8. 0 <= r - b /\ r - b < 365
  BY <1>1, <1>7, SMT
<1>9. doe - doe \div 1460 + doe \div 36524 - doe \div 146096 = 365 * yoe + (r - b)
  <2> DEFINE p == doe \div 36524
             c == doe \div 146096
  <2>1. p \in Int /\ c \in Int /\ p - c = h
    BY <1>2, <1>6, DivBounds, SMT
  <2> HIDE DEF p, c
  <2>2. doe - (25 * h + k + b) + p - c = 365 * yoe + (r - b)
    BY <1>0, <1>1, <1>7, <2>1, SMT
  <2> QED
    BY <1>7, <2>2, SMT DEF p, c
<1>10. year_of_era(doe) = yoe
  <2> DEFINE n == 365 * yoe + (r - b)
  <2>1. n \in Int /\ 365 * yoe <= n /\ n < 365 * yoe + 365
    BY <1>4, <1>8, SMT
  <2>2. n \div 365 = yoe
    BY <1>4, <2>1, DivUnique, SMT
  <2> QED
    BY <1>9, <2>2 DEF year_of_era
<1> QED
  BY <1>3, <1>5, <1>10 DEF Found

(* The month of the day r of a year that begins in March, from 0, and the      *)
(* first day of a month.                                                      *)
MonthIndex(r) == (5 * r + 2) \div 153

MonthStart(mp) == (153 * mp + 2) \div 5

(* The date of the day r of the year y that begins in March. *)
MarchDate(y, r) ==
    LET mp == MonthIndex(r)
        month == IF mp < 10 THEN mp + 3 ELSE mp - 9
    IN  <<civil_year(y, month), month, r - MonthStart(mp) + 1>>

MarchYear(e, h, k, s) == 400 * e + 100 * h + 4 * k + s

(* The place of a day since 1970-01-01. *)
DayPlaced(d, e, h, k, s, r) ==
    /\ d \in Nat /\ e \in Nat /\ h \in Nat /\ k \in Nat /\ s \in Nat /\ r \in Nat
    /\ Placed(d + EPOCH, e, h, k, s, r)

LEMMA CivilOfPlace ==
    ASSUME NEW d, NEW e, NEW h, NEW k, NEW s, NEW r, DayPlaced(d, e, h, k, s, r)
    PROVE  civil_from_days(d) = MarchDate(MarchYear(e, h, k, s), r)
<1> SUFFICES ASSUME d \in Nat, e \in Nat, h \in Nat, k \in Nat, s \in Nat, r \in Nat,
                    Placed(d + EPOCH, e, h, k, s, r)
             PROVE  civil_from_days(d) = MarchDate(MarchYear(e, h, k, s), r)
  BY DEF DayPlaced
<1>1. PICK z \in Nat : z = d + EPOCH /\ Placed(z, e, h, k, s, r)
  <2>1. d + EPOCH \in Nat
    BY SMT DEF EPOCH
  <2> QED
    BY <2>1
<1>2. PICK place : place = DayOfEra(h, k, s, r)
  OBVIOUS
<1>3. PICK yoe : yoe = YearInEra(h, k, s)
  OBVIOUS
<1>4. place \in Nat /\ yoe \in Nat
  BY <1>1, <1>2, <1>3, SMT DEF EPOCH, DayOfEra, YearInEra
<1>5. Found(z, e, place, yoe, r)
  BY <1>1, <1>2, <1>3, <1>4, YearFound, Zenon
<1>6. z \div 146097 = e /\ year_of_era(place) = yoe
      /\ place - (365 * yoe + yoe \div 4 - yoe \div 100) = r
  BY <1>5 DEF Found
<1>7. place = z - (z \div 146097) * 146097
  <2>1. z = 146097 * e + place
    BY <1>1, <1>2, SMT DEF EPOCH, Placed, DayOfEra
  <2> QED
    BY <1>4, <1>6, <2>1, SMT
<1>8. MarchYear(e, h, k, s) = yoe + e * 400
  BY <1>3, SMT DEF MarchYear, YearInEra
<1>9. LET era == z \div 146097
          doe == z - era * 146097
          n == year_of_era(doe)
      IN  civil_from_days(d)
            = MarchDate(n + era * 400, doe - (365 * n + n \div 4 - n \div 100))
  BY <1>1 DEF civil_from_days, MarchDate, MonthIndex, MonthStart
<1> QED
  BY <1>6, <1>7, <1>8, <1>9

LEMMA MonthsFound ==
    ASSUME NEW r \in Nat, r <= 365
    PROVE  /\ r < 31 => MonthIndex(r) = 0
           /\ 31 <= r /\ r < 61 => MonthIndex(r) = 1
           /\ 61 <= r /\ r < 92 => MonthIndex(r) = 2
           /\ 92 <= r /\ r < 122 => MonthIndex(r) = 3
           /\ 122 <= r /\ r < 153 => MonthIndex(r) = 4
           /\ 153 <= r /\ r < 184 => MonthIndex(r) = 5
           /\ 184 <= r /\ r < 214 => MonthIndex(r) = 6
           /\ 214 <= r /\ r < 245 => MonthIndex(r) = 7
           /\ 245 <= r /\ r < 275 => MonthIndex(r) = 8
           /\ 275 <= r /\ r < 306 => MonthIndex(r) = 9
           /\ 306 <= r /\ r < 337 => MonthIndex(r) = 10
           /\ 337 <= r => MonthIndex(r) = 11
BY SMT DEF MonthIndex

(* The months of the year that begins in March, and their first days. *)
MonthTable(y, r) ==
    /\ r < 31 => MarchDate(y, r) = <<y, 3, r + 1>>
    /\ 31 <= r /\ r < 61 => MarchDate(y, r) = <<y, 4, r - 30>>
    /\ 61 <= r /\ r < 92 => MarchDate(y, r) = <<y, 5, r - 60>>
    /\ 92 <= r /\ r < 122 => MarchDate(y, r) = <<y, 6, r - 91>>
    /\ 122 <= r /\ r < 153 => MarchDate(y, r) = <<y, 7, r - 121>>
    /\ 153 <= r /\ r < 184 => MarchDate(y, r) = <<y, 8, r - 152>>
    /\ 184 <= r /\ r < 214 => MarchDate(y, r) = <<y, 9, r - 183>>
    /\ 214 <= r /\ r < 245 => MarchDate(y, r) = <<y, 10, r - 213>>
    /\ 245 <= r /\ r < 275 => MarchDate(y, r) = <<y, 11, r - 244>>
    /\ 275 <= r /\ r < 306 => MarchDate(y, r) = <<y, 12, r - 274>>
    /\ 306 <= r /\ r < 337 => MarchDate(y, r) = <<y + 1, 1, r - 305>>
    /\ 337 <= r => MarchDate(y, r) = <<y + 1, 2, r - 336>>

LEMMA MonthsOfMarchYear ==
    ASSUME NEW y \in Nat, NEW r \in Nat, r <= 365
    PROVE  MonthTable(y, r)
<1>1. /\ MonthStart(0) = 0 /\ MonthStart(1) = 31 /\ MonthStart(2) = 61
      /\ MonthStart(3) = 92 /\ MonthStart(4) = 122 /\ MonthStart(5) = 153
      /\ MonthStart(6) = 184 /\ MonthStart(7) = 214 /\ MonthStart(8) = 245
      /\ MonthStart(9) = 275 /\ MonthStart(10) = 306 /\ MonthStart(11) = 337
  BY SMT DEF MonthStart
<1> QED
  BY <1>1, MonthsFound, SMT DEF MonthTable, MarchDate, civil_year

(* The year that begins in March and the leap years agree on 29 February, which *)
(* is the last day of the one and in the next year of the calendar.            *)
LEMMA LeapDay ==
    ASSUME NEW e \in Nat, NEW h \in Nat, NEW k \in Nat, NEW s \in Nat,
           h <= 3, k <= 24, s <= 3
    PROVE  Leap(MarchYear(e, h, k, s) + 1) <=> LongYear(h, k, s)
<1> DEFINE y == MarchYear(e, h, k, s) + 1
<1>1. y = 400 * e + 100 * h + 4 * k + s + 1
  BY SMT DEF MarchYear
<1> HIDE DEF y
<1>2. ASSUME NEW q \in Int, NEW rest \in Nat
      PROVE  /\ y = 4 * q + rest /\ rest < 4 => y % 4 = rest
             /\ y = 100 * q + rest /\ rest < 100 => y % 100 = rest
             /\ y = 400 * q + rest /\ rest < 400 => y % 400 = rest
  OBVIOUS
<1>3. y % 4 = 0 <=> s = 3
  <2>1. CASE s = 3
    <3>1. y = 4 * (100 * e + 25 * h + k + 1) + 0
      BY <1>1, <2>1, SMT
    <3> QED
      BY <2>1, <3>1, SMT
  <2>2. CASE s # 3
    <3>1. y = 4 * (100 * e + 25 * h + k) + (s + 1) /\ s + 1 < 4
      BY <1>1, <2>2, SMT
    <3> QED
      BY <2>2, <3>1, SMT
  <2> QED
    BY <2>1, <2>2
<1>4. ASSUME s = 3 PROVE y % 100 = 0 <=> k = 24
  <2>1. CASE k = 24
    <3>1. y = 100 * (4 * e + h + 1) + 0
      BY <1>1, <1>4, <2>1, SMT
    <3> QED
      BY <2>1, <3>1, SMT
  <2>2. CASE k # 24
    <3>1. y = 100 * (4 * e + h) + (4 * k + 4) /\ 4 * k + 4 < 100
      BY <1>1, <1>4, <2>2, SMT
    <3> QED
      BY <2>2, <3>1, SMT
  <2> QED
    BY <2>1, <2>2
<1>5. ASSUME s = 3, k = 24 PROVE y % 400 = 0 <=> h = 3
  <2>1. CASE h = 3
    <3>1. y = 400 * (e + 1) + 0
      BY <1>1, <1>5, <2>1, SMT
    <3> QED
      BY <2>1, <3>1, SMT
  <2>2. CASE h # 3
    <3>1. y = 400 * e + (100 * h + 100) /\ 100 * h + 100 < 400
      BY <1>1, <1>5, <2>2, SMT
    <3> QED
      BY <2>2, <3>1, SMT
  <2> QED
    BY <2>1, <2>2
<1>6. Leap(y) <=> LongYear(h, k, s)
  BY <1>3, <1>4, <1>5, SMT DEF Leap, LongYear
<1> QED
  BY <1>6 DEF y

LastDay(h, k, s, r) == r = IF LongYear(h, k, s) THEN 365 ELSE 364

(* The day after: the next of the year, or the first of the next year. *)
LEMMA NextPlace ==
    ASSUME NEW z \in Nat,
           NEW e \in Nat, NEW h \in Nat, NEW k \in Nat, NEW s \in Nat, NEW r \in Nat,
           Placed(z, e, h, k, s, r)
    PROVE  IF LastDay(h, k, s, r)
           THEN \E e1, h1, k1, s1 \in Nat :
                    /\ Placed(z + 1, e1, h1, k1, s1, 0)
                    /\ MarchYear(e1, h1, k1, s1) = MarchYear(e, h, k, s) + 1
           ELSE Placed(z + 1, e, h, k, s, r + 1)
<1>1. /\ h <= 3 /\ k <= 24 /\ s <= 3
      /\ r <= 364 \/ (r = 365 /\ LongYear(h, k, s))
      /\ z = 146097 * e + 36524 * h + 1461 * k + 365 * s + r
  BY SMT DEF Placed
<1>2. CASE ~LastDay(h, k, s, r)
  <2>1. Placed(z + 1, e, h, k, s, r + 1)
    BY <1>1, <1>2, SMT DEF Placed, LastDay
  <2> QED
    BY <1>2, <2>1
<1>3. CASE LastDay(h, k, s, r)
  <2>1. r = IF s = 3 /\ (k < 24 \/ h = 3) THEN 365 ELSE 364
    BY <1>3, SMT DEF LastDay, LongYear
  <2>2. CASE s < 3
    <3>1. Placed(z + 1, e, h, k, s + 1, 0) /\ s + 1 \in Nat
      BY <1>1, <2>1, <2>2, SMT DEF Placed
    <3>2. MarchYear(e, h, k, s + 1) = MarchYear(e, h, k, s) + 1
      BY SMT DEF MarchYear
    <3> QED
      BY <1>3, <3>1, <3>2
  <2>3. CASE s = 3 /\ k < 24
    <3>1. Placed(z + 1, e, h, k + 1, 0, 0) /\ k + 1 \in Nat /\ 0 \in Nat
      BY <1>1, <2>1, <2>3, SMT DEF Placed
    <3>2. MarchYear(e, h, k + 1, 0) = MarchYear(e, h, k, s) + 1
      BY <2>3, SMT DEF MarchYear
    <3> QED
      BY <1>3, <3>1, <3>2
  <2>4. CASE s = 3 /\ k = 24 /\ h < 3
    <3>1. Placed(z + 1, e, h + 1, 0, 0, 0) /\ h + 1 \in Nat /\ 0 \in Nat
      BY <1>1, <2>1, <2>4, SMT DEF Placed
    <3>2. MarchYear(e, h + 1, 0, 0) = MarchYear(e, h, k, s) + 1
      BY <2>4, SMT DEF MarchYear
    <3> QED
      BY <1>3, <3>1, <3>2
  <2>5. CASE s = 3 /\ k = 24 /\ h = 3
    <3>1. Placed(z + 1, e + 1, 0, 0, 0, 0) /\ e + 1 \in Nat /\ 0 \in Nat
      BY <1>1, <2>1, <2>5, SMT DEF Placed
    <3>2. MarchYear(e + 1, 0, 0, 0) = MarchYear(e, h, k, s) + 1
      BY <2>5, SMT DEF MarchYear
    <3> QED
      BY <1>3, <3>1, <3>2
  <2> QED
    BY <1>1, <2>2, <2>3, <2>4, <2>5, SMT
<1> QED
  BY <1>2, <1>3

LEMMA MonthLengths ==
    ASSUME NEW y
    PROVE  /\ \A m \in {1, 3, 5, 7, 8, 10, 12} : MonthLength(y, m) = 31
           /\ \A m \in {4, 6, 9, 11} : MonthLength(y, m) = 30
           /\ MonthLength(y, 2) = IF Leap(y) THEN 29 ELSE 28
BY SMT DEF MonthLength

(* The day after, within a year that begins in March and at its end. *)
NextMarchDate(y, r) ==
    IF r = (IF Leap(y + 1) THEN 365 ELSE 364) THEN MarchDate(y + 1, 0)
                                              ELSE MarchDate(y, r + 1)

LEMMA TomorrowInMarchYear ==
    ASSUME NEW y \in Nat, NEW r \in Nat, r <= IF Leap(y + 1) THEN 365 ELSE 364
    PROVE  Tomorrow(MarchDate(y, r)) = NextMarchDate(y, r)
<1>1. r <= 365 /\ (r = 365 => Leap(y + 1)) /\ y + 1 \in Nat /\ r + 1 \in Nat
  BY SMT
<1>2. MonthTable(y, r) /\ MonthTable(y + 1, 0) /\ (r < 365 => MonthTable(y, r + 1))
  BY <1>1, MonthsOfMarchYear, SMT
<1>3. CASE r < 31
  <2>1. MarchDate(y, r) = <<y, 3, r + 1>>
    BY <1>3, <1>1, <1>2, SMT DEF MonthTable
  <2>2. MonthLength(y, 3) = 31
    BY MonthLengths, SMT
  <2>3. NextMarchDate(y, r) = IF r = 30 THEN <<y, 4, 1>> ELSE <<y, 3, r + 2>>
    BY <1>3, <1>1, <1>2, SMT DEF MonthTable, NextMarchDate
  <2> QED
    BY <1>3, <1>1, <2>1, <2>2, <2>3, SMT DEF Tomorrow
<1>4. CASE 31 <= r /\ r < 61
  <2>1. MarchDate(y, r) = <<y, 4, r - 30>>
    BY <1>4, <1>1, <1>2, SMT DEF MonthTable
  <2>2. MonthLength(y, 4) = 30
    BY MonthLengths, SMT
  <2>3. NextMarchDate(y, r) = IF r = 60 THEN <<y, 5, 1>> ELSE <<y, 4, r - 29>>
    BY <1>4, <1>1, <1>2, SMT DEF MonthTable, NextMarchDate
  <2> QED
    BY <1>4, <1>1, <2>1, <2>2, <2>3, SMT DEF Tomorrow
<1>5. CASE 61 <= r /\ r < 92
  <2>1. MarchDate(y, r) = <<y, 5, r - 60>>
    BY <1>5, <1>1, <1>2, SMT DEF MonthTable
  <2>2. MonthLength(y, 5) = 31
    BY MonthLengths, SMT
  <2>3. NextMarchDate(y, r) = IF r = 91 THEN <<y, 6, 1>> ELSE <<y, 5, r - 59>>
    BY <1>5, <1>1, <1>2, SMT DEF MonthTable, NextMarchDate
  <2> QED
    BY <1>5, <1>1, <2>1, <2>2, <2>3, SMT DEF Tomorrow
<1>6. CASE 92 <= r /\ r < 122
  <2>1. MarchDate(y, r) = <<y, 6, r - 91>>
    BY <1>6, <1>1, <1>2, SMT DEF MonthTable
  <2>2. MonthLength(y, 6) = 30
    BY MonthLengths, SMT
  <2>3. NextMarchDate(y, r) = IF r = 121 THEN <<y, 7, 1>> ELSE <<y, 6, r - 90>>
    BY <1>6, <1>1, <1>2, SMT DEF MonthTable, NextMarchDate
  <2> QED
    BY <1>6, <1>1, <2>1, <2>2, <2>3, SMT DEF Tomorrow
<1>7. CASE 122 <= r /\ r < 153
  <2>1. MarchDate(y, r) = <<y, 7, r - 121>>
    BY <1>7, <1>1, <1>2, SMT DEF MonthTable
  <2>2. MonthLength(y, 7) = 31
    BY MonthLengths, SMT
  <2>3. NextMarchDate(y, r) = IF r = 152 THEN <<y, 8, 1>> ELSE <<y, 7, r - 120>>
    BY <1>7, <1>1, <1>2, SMT DEF MonthTable, NextMarchDate
  <2> QED
    BY <1>7, <1>1, <2>1, <2>2, <2>3, SMT DEF Tomorrow
<1>8. CASE 153 <= r /\ r < 184
  <2>1. MarchDate(y, r) = <<y, 8, r - 152>>
    BY <1>8, <1>1, <1>2, SMT DEF MonthTable
  <2>2. MonthLength(y, 8) = 31
    BY MonthLengths, SMT
  <2>3. NextMarchDate(y, r) = IF r = 183 THEN <<y, 9, 1>> ELSE <<y, 8, r - 151>>
    BY <1>8, <1>1, <1>2, SMT DEF MonthTable, NextMarchDate
  <2> QED
    BY <1>8, <1>1, <2>1, <2>2, <2>3, SMT DEF Tomorrow
<1>9. CASE 184 <= r /\ r < 214
  <2>1. MarchDate(y, r) = <<y, 9, r - 183>>
    BY <1>9, <1>1, <1>2, SMT DEF MonthTable
  <2>2. MonthLength(y, 9) = 30
    BY MonthLengths, SMT
  <2>3. NextMarchDate(y, r) = IF r = 213 THEN <<y, 10, 1>> ELSE <<y, 9, r - 182>>
    BY <1>9, <1>1, <1>2, SMT DEF MonthTable, NextMarchDate
  <2> QED
    BY <1>9, <1>1, <2>1, <2>2, <2>3, SMT DEF Tomorrow
<1>10. CASE 214 <= r /\ r < 245
  <2>1. MarchDate(y, r) = <<y, 10, r - 213>>
    BY <1>10, <1>1, <1>2, SMT DEF MonthTable
  <2>2. MonthLength(y, 10) = 31
    BY MonthLengths, SMT
  <2>3. NextMarchDate(y, r) = IF r = 244 THEN <<y, 11, 1>> ELSE <<y, 10, r - 212>>
    BY <1>10, <1>1, <1>2, SMT DEF MonthTable, NextMarchDate
  <2> QED
    BY <1>10, <1>1, <2>1, <2>2, <2>3, SMT DEF Tomorrow
<1>11. CASE 245 <= r /\ r < 275
  <2>1. MarchDate(y, r) = <<y, 11, r - 244>>
    BY <1>11, <1>1, <1>2, SMT DEF MonthTable
  <2>2. MonthLength(y, 11) = 30
    BY MonthLengths, SMT
  <2>3. NextMarchDate(y, r) = IF r = 274 THEN <<y, 12, 1>> ELSE <<y, 11, r - 243>>
    BY <1>11, <1>1, <1>2, SMT DEF MonthTable, NextMarchDate
  <2> QED
    BY <1>11, <1>1, <2>1, <2>2, <2>3, SMT DEF Tomorrow
<1>12. CASE 275 <= r /\ r < 306
  <2>1. MarchDate(y, r) = <<y, 12, r - 274>>
    BY <1>12, <1>1, <1>2, SMT DEF MonthTable
  <2>2. MonthLength(y, 12) = 31
    BY MonthLengths, SMT
  <2>3. NextMarchDate(y, r) = IF r = 305 THEN <<y + 1, 1, 1>> ELSE <<y, 12, r - 273>>
    BY <1>12, <1>1, <1>2, SMT DEF MonthTable, NextMarchDate
  <2> QED
    BY <1>12, <1>1, <2>1, <2>2, <2>3, SMT DEF Tomorrow
<1>13. CASE 306 <= r /\ r < 337
  <2>1. MarchDate(y, r) = <<y + 1, 1, r - 305>>
    BY <1>13, <1>1, <1>2, SMT DEF MonthTable
  <2>2. MonthLength(y + 1, 1) = 31
    BY MonthLengths, SMT
  <2>3. NextMarchDate(y, r) = IF r = 336 THEN <<y + 1, 2, 1>> ELSE <<y + 1, 1, r - 304>>
    BY <1>13, <1>1, <1>2, SMT DEF MonthTable, NextMarchDate
  <2> QED
    BY <1>13, <1>1, <2>1, <2>2, <2>3, SMT DEF Tomorrow
<1>14. CASE 337 <= r
  <2>1. MarchDate(y, r) = <<y + 1, 2, r - 336>>
    BY <1>14, <1>1, <1>2, SMT DEF MonthTable
  <2>2. MonthLength(y + 1, 2) = IF Leap(y + 1) THEN 29 ELSE 28
    BY MonthLengths, SMT
  <2>3. NextMarchDate(y, r) = IF r = (IF Leap(y + 1) THEN 365 ELSE 364)
                              THEN <<y + 1, 3, 1>> ELSE <<y + 1, 2, r - 335>>
    BY <1>14, <1>1, <1>2, SMT DEF MonthTable, NextMarchDate
  <2> QED
    BY <1>14, <1>1, <2>1, <2>2, <2>3, SMT DEF Tomorrow
<1> QED
  BY <1>1, <1>3, <1>4, <1>5, <1>6, <1>7, <1>8, <1>9, <1>10, <1>11, <1>12, <1>13, <1>14, SMT

(* The arithmetic of the code and the calendar turn over alike. *)
LEMMA CivilTomorrow ==
    ASSUME NEW d \in Nat
    PROVE  civil_from_days(d + 1) = Tomorrow(civil_from_days(d))
<1>1. PICK z \in Nat : z = d + EPOCH
  BY SMT DEF EPOCH
<1>2. PICK e, h, k, s, r \in Nat : Placed(z, e, h, k, s, r)
  BY <1>1, EveryDayPlaced
<1> DEFINE y == MarchYear(e, h, k, s)
<1>3. y \in Nat
  BY SMT DEF MarchYear
<1>4. civil_from_days(d) = MarchDate(y, r)
  <2>1. DayPlaced(d, e, h, k, s, r)
    BY <1>1, <1>2 DEF DayPlaced
  <2> QED
    BY <2>1, CivilOfPlace
<1>5. LongYear(h, k, s) <=> Leap(y + 1)
  <2>1. h <= 3 /\ k <= 24 /\ s <= 3
    BY <1>2, SMT DEF Placed
  <2> QED
    BY <2>1, LeapDay
<1>6. r <= IF Leap(y + 1) THEN 365 ELSE 364
  <2>1. r <= IF LongYear(h, k, s) THEN 365 ELSE 364
    BY <1>2, SMT DEF Placed
  <2> QED
    BY <1>5, <2>1
<1>7. LastDay(h, k, s, r) <=> r = IF Leap(y + 1) THEN 365 ELSE 364
  BY <1>5 DEF LastDay
<1>8. PICK d1 \in Nat : d1 = d + 1 /\ d1 + EPOCH = z + 1
  BY <1>1, SMT DEF EPOCH
<1>9. civil_from_days(d1) = NextMarchDate(y, r)
  <2>1. CASE LastDay(h, k, s, r)
    <3>1. PICK e1, h1, k1, s1 \in Nat :
             Placed(z + 1, e1, h1, k1, s1, 0) /\ MarchYear(e1, h1, k1, s1) = y + 1
      BY <1>2, <2>1, NextPlace
    <3>2. PICK r1 \in Nat : r1 = 0
      OBVIOUS
    <3>3. DayPlaced(d1, e1, h1, k1, s1, r1)
      BY <1>8, <3>1, <3>2 DEF DayPlaced
    <3>4. civil_from_days(d1) = MarchDate(MarchYear(e1, h1, k1, s1), r1)
      BY <3>3, CivilOfPlace
    <3> QED
      BY <1>7, <2>1, <3>1, <3>2, <3>4 DEF NextMarchDate
  <2>2. CASE ~LastDay(h, k, s, r)
    <3>1. Placed(z + 1, e, h, k, s, r + 1)
      BY <1>2, <2>2, NextPlace
    <3>2. PICK r1 \in Nat : r1 = r + 1
      OBVIOUS
    <3>3. DayPlaced(d1, e, h, k, s, r1)
      BY <1>8, <3>1, <3>2 DEF DayPlaced
    <3>4. civil_from_days(d1) = MarchDate(y, r1)
      BY <3>3, CivilOfPlace
    <3> QED
      BY <1>7, <2>2, <3>2, <3>4 DEF NextMarchDate
  <2> QED
    BY <2>1, <2>2
<1> QED
  BY <1>3, <1>4, <1>6, <1>8, <1>9, TomorrowInMarchYear

(* A year among the years of an era, and the quotients that count its leap     *)
(* years.                                                                      *)
IsYear(y, e, h, k, s) ==
    /\ h <= 3 /\ k <= 24 /\ s <= 3
    /\ y = MarchYear(e, h, k, s)
    /\ y \div 4 = 100 * e + 25 * h + k
    /\ y \div 100 = 4 * e + h
    /\ y \div 400 = e

LEMMA YearPlaced ==
    ASSUME NEW y \in Nat
    PROVE  \E e, h, k, s \in Nat : IsYear(y, e, h, k, s)
<1>1. PICK e \in Nat, a \in Nat : a <= 399 /\ y = 400 * e + a
  <2>1. /\ y \div 400 \in Int /\ 400 * (y \div 400) <= y
        /\ y < 400 * (y \div 400) + 400
    BY DivBounds, SMT
  <2>2. /\ y \div 400 \in Nat /\ y - 400 * (y \div 400) \in Nat
        /\ y - 400 * (y \div 400) <= 399
        /\ y = 400 * (y \div 400) + (y - 400 * (y \div 400))
    BY <2>1, SMT
  <2> QED
    BY <2>2
<1>2. PICK h \in Nat, b \in Nat : h <= 3 /\ b <= 99 /\ a = 100 * h + b
  <2>1. /\ a \div 100 \in Nat /\ a - 100 * (a \div 100) \in Nat
        /\ a - 100 * (a \div 100) <= 99 /\ a \div 100 <= 3
        /\ a = 100 * (a \div 100) + (a - 100 * (a \div 100))
    BY <1>1, SMT
  <2> QED
    BY <2>1
<1>3. PICK k \in Nat, s \in Nat : k <= 24 /\ s <= 3 /\ b = 4 * k + s
  <2>1. /\ b \div 4 \in Nat /\ b - 4 * (b \div 4) \in Nat
        /\ b - 4 * (b \div 4) <= 3 /\ b \div 4 <= 24
        /\ b = 4 * (b \div 4) + (b - 4 * (b \div 4))
    BY <1>2, SMT
  <2> QED
    BY <2>1
<1>4. y = 400 * e + 100 * h + 4 * k + s
  BY <1>1, <1>2, <1>3, SMT
<1>5. y = MarchYear(e, h, k, s)
  BY <1>4 DEF MarchYear
<1>6. y \div 400 = e /\ y \div 100 = 4 * e + h /\ y \div 4 = 100 * e + 25 * h + k
  BY <1>2, <1>3, <1>4, SMT
<1> QED
  BY <1>2, <1>3, <1>5, <1>6 DEF IsYear

(* 1 January, counted by the leap years, is 1 January of the code. *)
LEMMA CivilNewYear ==
    ASSUME NEW y \in Nat \ {0}, NewYear(y) \in Nat
    PROVE  civil_from_days(NewYear(y)) = <<y, 1, 1>>
<1>1. y - 1 \in Nat
  BY SMT
<1>2. PICK e, h, k, s \in Nat : IsYear(y - 1, e, h, k, s)
  BY <1>1, YearPlaced
<1>3. 1969 \div 4 = 492 /\ 1969 \div 100 = 19 /\ 1969 \div 400 = 4
  BY SMT
<1>4. NewYear(y) = 365 * (y - 1970) + (100 * e + 25 * h + k) - (4 * e + h) + e - 477
  BY <1>2, <1>3, SMT DEF IsYear, NewYear
<1>5. y - 1 = 400 * e + 100 * h + 4 * k + s
  BY <1>2, SMT DEF IsYear, MarchYear
<1>6. DayPlaced(NewYear(y), e, h, k, s, 306)
  <2>1. NewYear(y) + 719468 = 146097 * e + 36524 * h + 1461 * k + 365 * s + 306
    BY <1>4, <1>5, SMT
  <2> QED
    BY <1>2, <2>1, SMT DEF IsYear, EPOCH, Placed, DayPlaced
<1>7. civil_from_days(NewYear(y)) = MarchDate(y - 1, 306)
  <2>1. PICK r \in Nat : r = 306
    BY SMT
  <2>2. DayPlaced(NewYear(y), e, h, k, s, r)
    BY <1>6, <2>1
  <2>3. civil_from_days(NewYear(y)) = MarchDate(MarchYear(e, h, k, s), r)
    BY <2>2, CivilOfPlace
  <2> QED
    BY <1>2, <2>1, <2>3 DEF IsYear
<1>8. MarchDate(y - 1, 306) = <<y, 1, 1>>
  <2>1. MonthTable(y - 1, 306)
    BY <1>1, MonthsOfMarchYear, SMT
  <2> QED
    BY <2>1, SMT DEF MonthTable
<1> QED
  BY <1>7, <1>8
----------------------------------------------------------------------------
(* The calendar's state at every moment: the date the code computes is the one *)
(* the calendar has been turned over to.                                      *)
CalendarInv ==
    /\ day \in Nat
    /\ msec \in Nat /\ msec <= 86399999
    /\ date = civil_from_days(day)

LEMMA CalendarInvariant == Spec => []CalendarInv
<1>1. Init => CalendarInv
  <2> SUFFICES ASSUME Init PROVE CalendarInv
    OBVIOUS
  <2>1. PICK y \in Years : day = NewYear(y) /\ date = <<y, 1, 1>>
    BY DEF Init
  <2>2. y \in Nat /\ y >= 1970
    BY CalendarAssumption, SMT DEF CalendarAssumption
  <2>3. day \in Nat /\ date = civil_from_days(day)
    <3>1. y \in Nat \ {0} /\ NewYear(y) \in Nat
      BY <2>2, SMT DEF NewYear
    <3> QED
      BY <2>1, <3>1, CivilNewYear
  <2>4. msec = 0
    BY DEF Init
  <2> QED
    BY <2>3, <2>4, SMT DEF CalendarInv
<1>2. CalendarInv /\ [Next]_vars => CalendarInv'
  <2> SUFFICES ASSUME CalendarInv, [Next]_vars PROVE CalendarInv'
    OBVIOUS
  <2>1. ASSUME NEW m \in Moments PROVE m \in Nat /\ m <= 86399999
    BY CalendarAssumption, SMT DEF CalendarAssumption
  <2>2. CASE Pass
    BY <2>1, <2>2, SMT DEF Pass, CalendarInv
  <2>3. CASE TurnOver
    <3>1. day \in Nat /\ date = civil_from_days(day)
      BY SMT DEF CalendarInv
    <3>2. day' = day + 1 /\ date' = Tomorrow(date) /\ msec' = 0
      BY <2>3 DEF TurnOver
    <3>3. date' = civil_from_days(day')
      BY <3>1, <3>2, CivilTomorrow
    <3> QED
      BY <3>1, <3>2, <3>3, SMT DEF CalendarInv
  <2>4. CASE Stop \/ UNCHANGED vars
    BY <2>4, SMT DEF Stop, vars, CalendarInv
  <2> QED
    BY <2>2, <2>3, <2>4 DEF Next
<1> QED
  BY <1>1, <1>2, PTL DEF Spec

(* Every text the function writes fits its widths, whatever the years and the  *)
(* times of day looked at.                                                    *)
THEOREM TypeCorrect == Spec => []TypeOK
<1>1. CalendarInv => TypeOK
  <2> SUFFICES ASSUME CalendarInv PROVE TypeOK
    OBVIOUS
  <2>1. FitsWidth(format_iso8601(day, msec))
    BY FieldsInRange, RangeFitsWidth, SMT DEF CalendarInv
  <2>2. Len(date) = 3
    BY SMT DEF CalendarInv, civil_from_days
  <2> QED
    BY <2>1, <2>2, SMT DEF CalendarInv, TypeOK
<1> QED
  BY <1>1, CalendarInvariant, PTL

(* On every day the calendar comes to, of whatever years, the code writes the  *)
(* calendar's date and the time of the timestamp.                              *)
THEOREM MatchesTheCalendar == Spec => []MatchesCalendar
<1>1. CalendarInv => MatchesCalendar
  <2> SUFFICES ASSUME CalendarInv, day <= MAX_DAY,
                      NEW w, w = format_iso8601(day, msec)
               PROVE  /\ SubSeq(w, 1, 3) = date
                      /\ ((w[4] * 60 + w[5]) * 60 + w[6]) * 1000 + w[7] = msec
    BY DEF MatchesCalendar
  <2> DEFINE s == civil_from_days(day)
             t == time_of_day(msec)
  <2>1. day \in Nat /\ msec \in Nat /\ msec <= 86399999 /\ date = s
    BY SMT DEF CalendarInv
  <2>2. w = s \o t
    BY <2>1, SMT DEF format_iso8601, MAX_DAY
  <2>3. IsDate(s) /\ IsTime(t)
    BY <2>1, CivilDate, TimeOfDay, SMT
  <2>4. ((t[1] * 60 + t[2]) * 60 + t[3]) * 1000 + t[4] = msec
    BY <2>1, TimeOfDay, SMT
  <2> HIDE DEF s, t
  <2>5. Joined(w, s, t)
    BY <2>2, <2>3, DateThenTime
  <2>6. SubSeq(w, 1, 3) = s
    BY <2>3, <2>5, SMT DEF Joined, IsDate
  <2>7. SubSeq(w, 1, 3) = date /\ ((w[4] * 60 + w[5]) * 60 + w[6]) * 1000 + w[7] = msec
    BY <2>1, <2>4, <2>5, <2>6, SMT DEF Joined
  <2> QED
    BY <2>7
<1> QED
  BY <1>1, CalendarInvariant, PTL
----------------------------------------------------------------------------
(* The order of the texts.                                                    *)

(* A later day lies in a later year that begins in March, or later in the same. *)
LEMMA PlacesOrdered ==
    ASSUME NEW z \in Nat, NEW z1 \in Nat, z < z1,
           NEW e \in Nat, NEW h \in Nat, NEW k \in Nat, NEW s \in Nat, NEW r \in Nat,
           NEW e1 \in Nat, NEW h1 \in Nat, NEW k1 \in Nat, NEW s1 \in Nat, NEW r1 \in Nat,
           Placed(z, e, h, k, s, r), Placed(z1, e1, h1, k1, s1, r1)
    PROVE  \/ MarchYear(e, h, k, s) < MarchYear(e1, h1, k1, s1)
           \/ MarchYear(e, h, k, s) = MarchYear(e1, h1, k1, s1) /\ r < r1
<1>1. /\ h <= 3 /\ k <= 24 /\ s <= 3 /\ r <= 365 /\ (r = 365 => s = 3 /\ (k < 24 \/ h = 3))
      /\ z = 146097 * e + 36524 * h + 1461 * k + 365 * s + r
  BY SMT DEF Placed, LongYear
<1>2. /\ h1 <= 3 /\ k1 <= 24 /\ s1 <= 3
      /\ r1 <= 365 /\ (r1 = 365 => s1 = 3 /\ (k1 < 24 \/ h1 = 3))
      /\ z1 = 146097 * e1 + 36524 * h1 + 1461 * k1 + 365 * s1 + r1
  BY SMT DEF Placed, LongYear
<1>3. e <= e1
  BY <1>1, <1>2, SMT
<1>4. e = e1 => h <= h1
  BY <1>1, <1>2, SMT
<1>5. e = e1 /\ h = h1 => k <= k1
  BY <1>1, <1>2, SMT
<1>6. e = e1 /\ h = h1 /\ k = k1 => s <= s1
  BY <1>1, <1>2, SMT
<1>7. e = e1 /\ h = h1 /\ k = k1 /\ s = s1 => r < r1
  BY <1>1, <1>2, SMT
<1> QED
  BY <1>1, <1>2, <1>3, <1>4, <1>5, <1>6, <1>7, SMT DEF MarchYear

DateBefore(a, b) ==
    \/ a[1] < b[1]
    \/ a[1] = b[1] /\ a[2] < b[2]
    \/ a[1] = b[1] /\ a[2] = b[2] /\ a[3] < b[3]

LEMMA MarchDatesOrdered ==
    ASSUME NEW y \in Nat, NEW r \in Nat, r <= 365,
           NEW y1 \in Nat, NEW r1 \in Nat, r1 <= 365,
           y < y1 \/ (y = y1 /\ r < r1)
    PROVE  DateBefore(MarchDate(y, r), MarchDate(y1, r1))
<1> DEFINE mp == MonthIndex(r)
           mp1 == MonthIndex(r1)
           month == IF mp < 10 THEN mp + 3 ELSE mp - 9
           month1 == IF mp1 < 10 THEN mp1 + 3 ELSE mp1 - 9
<1>1. /\ mp \in Int /\ 153 * mp <= 5 * r + 2 /\ 5 * r + 2 < 153 * mp + 153
      /\ mp1 \in Int /\ 153 * mp1 <= 5 * r1 + 2 /\ 5 * r1 + 2 < 153 * mp1 + 153
  BY DivBounds, SMT DEF MonthIndex
<1>2. /\ MarchDate(y, r) = <<civil_year(y, month), month, r - MonthStart(mp) + 1>>
      /\ MarchDate(y1, r1) = <<civil_year(y1, month1), month1, r1 - MonthStart(mp1) + 1>>
  BY DEF MarchDate
<1> HIDE DEF mp, mp1
<1>3. MonthStart(mp) \in Int /\ MonthStart(mp1) \in Int
  BY <1>1, SMT DEF MonthStart
<1>4. mp >= 0 /\ mp <= 11 /\ mp1 >= 0 /\ mp1 <= 11
  BY <1>1, SMT
<1>5. /\ civil_year(y, month) = IF mp < 10 THEN y ELSE y + 1
      /\ civil_year(y1, month1) = IF mp1 < 10 THEN y1 ELSE y1 + 1
  BY <1>1, <1>4, SMT DEF civil_year
<1>6. CASE y < y1
  BY <1>1, <1>2, <1>4, <1>5, <1>6, SMT DEF DateBefore
<1>7. CASE y = y1 /\ r < r1
  <2>1. mp <= mp1
    BY <1>1, <1>7, SMT
  <2>2. CASE mp = mp1
    BY <1>1, <1>2, <1>3, <1>5, <1>7, <2>2, SMT DEF DateBefore
  <2>3. CASE mp < mp1
    BY <1>1, <1>2, <1>4, <1>5, <1>7, <2>3, SMT DEF DateBefore
  <2> QED
    BY <1>1, <2>1, <2>2, <2>3, SMT
<1> QED
  BY <1>6, <1>7

LEMMA DatesOrdered ==
    ASSUME NEW d \in Nat, NEW d1 \in Nat, d < d1
    PROVE  DateBefore(civil_from_days(d), civil_from_days(d1))
<1>1. d + EPOCH \in Nat /\ d1 + EPOCH \in Nat /\ d + EPOCH < d1 + EPOCH
  BY SMT DEF EPOCH
<1>2. PICK e, h, k, s, r \in Nat : Placed(d + EPOCH, e, h, k, s, r)
  BY <1>1, EveryDayPlaced
<1>3. PICK e1, h1, k1, s1, r1 \in Nat : Placed(d1 + EPOCH, e1, h1, k1, s1, r1)
  BY <1>1, EveryDayPlaced
<1> DEFINE y == MarchYear(e, h, k, s)
           y1 == MarchYear(e1, h1, k1, s1)
<1>4. civil_from_days(d) = MarchDate(y, r)
  <2>1. DayPlaced(d, e, h, k, s, r)
    BY <1>2 DEF DayPlaced
  <2> QED
    BY <2>1, CivilOfPlace
<1>5. civil_from_days(d1) = MarchDate(y1, r1)
  <2>1. DayPlaced(d1, e1, h1, k1, s1, r1)
    BY <1>3 DEF DayPlaced
  <2> QED
    BY <2>1, CivilOfPlace
<1>6. y \in Nat /\ y1 \in Nat
  BY SMT DEF MarchYear
<1>7. r <= 365 /\ r1 <= 365
  BY <1>2, <1>3, SMT DEF Placed
<1>8. y < y1 \/ (y = y1 /\ r < r1)
  BY <1>1, <1>2, <1>3, PlacesOrdered
<1> HIDE DEF y, y1
<1>9. DateBefore(MarchDate(y, r), MarchDate(y1, r1))
  BY <1>6, <1>7, <1>8, MarchDatesOrdered
<1> QED
  BY <1>4, <1>5, <1>9

TimeBefore(a, b) ==
    \/ a[1] < b[1]
    \/ a[1] = b[1] /\ a[2] < b[2]
    \/ a[1] = b[1] /\ a[2] = b[2] /\ a[3] < b[3]
    \/ a[1] = b[1] /\ a[2] = b[2] /\ a[3] = b[3] /\ a[4] < b[4]

LEMMA TimesOrdered ==
    ASSUME NEW ms \in Nat, ms <= 86399999, NEW ms1 \in Nat, ms1 <= 86399999, ms < ms1
    PROVE  TimeBefore(time_of_day(ms), time_of_day(ms1))
<1>1. PICK h, m, s, f \in Nat : TimeMade(ms, time_of_day(ms), h, m, s, f)
  BY TimeParts, SMT
<1>2. PICK h1, m1, s1, f1 \in Nat : TimeMade(ms1, time_of_day(ms1), h1, m1, s1, f1)
  BY TimeParts, SMT
<1>3. \/ h < h1
      \/ h = h1 /\ m < m1
      \/ h = h1 /\ m = m1 /\ s < s1
      \/ h = h1 /\ m = m1 /\ s = s1 /\ f < f1
  BY <1>1, <1>2, SMT DEF TimeMade
<1> QED
  BY <1>1, <1>2, <1>3, SMT DEF TimeMade, TimeBefore

LEMMA TextsOrdered ==
    ASSUME NEW u, NEW s, NEW t, NEW u1, NEW s1, NEW t1,
           Joined(u, s, t), Joined(u1, s1, t1),
           DateBefore(s, s1) \/ (s = s1 /\ TimeBefore(t, t1))
    PROVE  Before(u, u1)
<1>1. Len(u) = 7
  BY SMT DEF Joined
<1>2. \/ u[1] < u1[1]
      \/ u[1] = u1[1] /\ u[2] < u1[2]
      \/ u[1] = u1[1] /\ u[2] = u1[2] /\ u[3] < u1[3]
      \/ /\ u[1] = u1[1] /\ u[2] = u1[2] /\ u[3] = u1[3]
         /\ \/ u[4] < u1[4]
            \/ u[4] = u1[4] /\ u[5] < u1[5]
            \/ u[4] = u1[4] /\ u[5] = u1[5] /\ u[6] < u1[6]
            \/ u[4] = u1[4] /\ u[5] = u1[5] /\ u[6] = u1[6] /\ u[7] < u1[7]
  BY SMT DEF Joined, DateBefore, TimeBefore
<1>3. \E n \in 1..7 : u[n] < u1[n] /\ \A k \in 1..(n - 1) : u[k] = u1[k]
  BY <1>2, SMT
<1> QED
  BY <1>1, <1>3 DEF Before

(* Two texts are not each before the other. *)
LEMMA BeforeOneWay ==
    ASSUME NEW u \in Seq(Nat), NEW v \in Seq(Nat), Len(u) = 7, Len(v) = 7
    PROVE  ~(Before(u, v) /\ Before(v, u))
<1> SUFFICES ASSUME NEW n \in 1..7, u[n] < v[n], \A k \in 1..(n - 1) : u[k] = v[k],
                    NEW m \in 1..7, v[m] < u[m], \A k \in 1..(m - 1) : v[k] = u[k]
             PROVE  FALSE
  BY DEF Before
<1>1. u[n] \in Nat /\ v[n] \in Nat /\ u[m] \in Nat /\ v[m] \in Nat
  <2>1. n \in 1..Len(u) /\ m \in 1..Len(u) /\ n \in 1..Len(v) /\ m \in 1..Len(v)
    BY SMT
  <2>2. ASSUME NEW w \in Seq(Nat), NEW k \in 1..Len(w) PROVE w[k] \in Nat
    OBVIOUS
  <2> QED
    BY <2>1, <2>2
<1>2. CASE n < m
  <2>1. n \in 1..(m - 1)
    BY <1>2, SMT
  <2>2. v[n] = u[n]
    BY <2>1
  <2> QED
    BY <1>1, <2>2, SMT
<1>3. CASE m < n
  <2>1. m \in 1..(n - 1)
    BY <1>3, SMT
  <2>2. u[m] = v[m]
    BY <2>1
  <2> QED
    BY <1>1, <2>2, SMT
<1>4. CASE m = n
  <2>1. v[n] < u[n]
    BY <1>4
  <2> QED
    BY <1>1, <2>1, SMT
<1> QED
  BY <1>2, <1>3, <1>4, SMT

(* The later of two timestamps up to the end of the year 9999 has the later    *)
(* text, and past that end no timestamp has an earlier text than one before it: *)
(* rows ordered by created_at are ordered by timestamp_ms.                     *)
THEOREM TextOrder ==
    ASSUME NEW d \in Nat, NEW ms \in Nat, ms <= 86399999,
           NEW d1 \in Nat, NEW ms1 \in Nat, ms1 <= 86399999,
           d < d1 \/ (d = d1 /\ ms < ms1)
    PROVE  IF d1 <= MAX_DAY
           THEN Before(format_iso8601(d, ms), format_iso8601(d1, ms1))
           ELSE ~Before(format_iso8601(d1, ms1), format_iso8601(d, ms))
<1> DEFINE text(e, m) == civil_from_days(e) \o time_of_day(m)
<1>1. ASSUME NEW e \in Nat, e <= MAX_DAY, NEW m \in Nat, m <= 86399999
      PROVE  Joined(text(e, m), civil_from_days(e), time_of_day(m))
  <2>1. IsDate(civil_from_days(e)) /\ IsTime(time_of_day(m))
    BY <1>1, CivilDate, TimeOfDay, SMT
  <2> QED
    BY <2>1, DateThenTime, SMT
<1>2. ASSUME NEW e \in Nat, NEW m \in Nat, m <= 86399999,
             NEW e1 \in Nat, e1 <= MAX_DAY, NEW m1 \in Nat, m1 <= 86399999,
             e < e1 \/ (e = e1 /\ m < m1)
      PROVE  Before(text(e, m), text(e1, m1))
  <2>1. e <= MAX_DAY
    BY <1>2, SMT DEF MAX_DAY
  <2>2. /\ Joined(text(e, m), civil_from_days(e), time_of_day(m))
        /\ Joined(text(e1, m1), civil_from_days(e1), time_of_day(m1))
    BY <1>1, <1>2, <2>1, SMT
  <2>3. \/ DateBefore(civil_from_days(e), civil_from_days(e1))
        \/ /\ civil_from_days(e) = civil_from_days(e1)
           /\ TimeBefore(time_of_day(m), time_of_day(m1))
    BY <1>2, DatesOrdered, TimesOrdered, SMT
  <2> HIDE DEF text
  <2> QED
    BY <2>2, <2>3, TextsOrdered, SMT
<1>3. CASE d1 <= MAX_DAY
  <2>1. d <= MAX_DAY
    BY <1>3, SMT DEF MAX_DAY
  <2>2. format_iso8601(d, ms) = text(d, ms) /\ format_iso8601(d1, ms1) = text(d1, ms1)
    BY <1>3, <2>1, SMT DEF format_iso8601, MAX_DAY
  <2>3. Before(text(d, ms), text(d1, ms1))
    BY <1>2, <1>3, SMT
  <2> QED
    BY <1>3, <2>2, <2>3, SMT
<1>4. CASE ~(d1 <= MAX_DAY)
  <2> DEFINE last == text(MAX_DAY, 86399999)
             s == format_iso8601(d, ms)
  <2>1. MAX_DAY \in Nat
    BY SMT DEF MAX_DAY
  <2>2. format_iso8601(d1, ms1) = last
    BY <1>4, SMT DEF format_iso8601, MAX_DAY
  <2>3. s = last \/ Before(s, last)
    <3>1. CASE d > MAX_DAY \/ (d = MAX_DAY /\ ms = 86399999)
      BY <3>1, SMT DEF format_iso8601, MAX_DAY
    <3>2. CASE d < MAX_DAY \/ (d = MAX_DAY /\ ms < 86399999)
      <4>1. s = text(d, ms)
        BY <3>2, SMT DEF format_iso8601, MAX_DAY
      <4>2. Before(text(d, ms), last)
        BY <1>2, <2>1, <3>2, SMT
      <4> QED
        BY <4>1, <4>2, SMT
    <3> QED
      BY <2>1, <3>1, <3>2, SMT
  <2>4. /\ s \in Seq(Nat) /\ Len(s) = 7
        /\ last \in Seq(Nat) /\ Len(last) = 7
    <3>2. s \in Seq(Nat) /\ Len(s) = 7
      <4>1. CASE d <= MAX_DAY
        <5>1. s = text(d, ms)
          BY <4>1, SMT DEF format_iso8601, MAX_DAY
        <5>2. Joined(s, civil_from_days(d), time_of_day(ms))
          BY <1>1, <4>1, <5>1, SMT
        <5> QED
          BY <5>2, SMT DEF Joined
      <4>2. CASE ~(d <= MAX_DAY)
        <5>1. s = last
          BY <4>2, SMT DEF format_iso8601, MAX_DAY
        <5>2. Joined(s, civil_from_days(MAX_DAY), time_of_day(86399999))
          BY <1>1, <2>1, <5>1, SMT
        <5> QED
          BY <5>2, SMT DEF Joined
      <4> QED
        BY <4>1, <4>2, SMT
    <3>3. Joined(last, civil_from_days(MAX_DAY), time_of_day(86399999))
      BY <1>1, <2>1, SMT
    <3> QED
      BY <3>2, <3>3, SMT DEF Joined
  <2> HIDE DEF last, s
  <2>5. ~Before(last, s)
    BY <2>3, <2>4, BeforeOneWay, SMT
  <2> QED
    BY <1>4, <2>2, <2>5, SMT DEF s
<1> QED
  BY <1>3, <1>4, SMT

(* In particular at every step of the calendar, to a later time of the day or  *)
(* to the next day.                                                            *)
THEOREM OrderAlwaysKept == Spec => OrderKept
<1> DEFINE Kept ==
      LET s == format_iso8601(day, msec)
          t == format_iso8601(day', msec')
      IN  IF day' <= MAX_DAY THEN Before(s, t) ELSE ~Before(t, s)
<1>1. CalendarInv /\ CalendarInv' /\ [Next]_vars => [Kept]_vars
  <2> SUFFICES ASSUME CalendarInv, CalendarInv', Next PROVE Kept \/ UNCHANGED vars
    OBVIOUS
  <2>1. /\ day \in Nat /\ msec \in Nat /\ msec <= 86399999
        /\ day' \in Nat /\ msec' \in Nat /\ msec' <= 86399999
    BY SMT DEF CalendarInv
  <2>2. CASE Pass \/ TurnOver
    <3>1. day < day' \/ (day = day' /\ msec < msec')
      BY <2>1, <2>2, SMT DEF Pass, TurnOver
    <3> QED
      BY <2>1, <3>1, TextOrder, SMT
  <2>3. CASE Stop
    BY <2>3, SMT DEF Stop
  <2> QED
    BY <2>2, <2>3, SMT DEF Next
<1> QED
  BY <1>1, CalendarInvariant, PTL DEF Spec, OrderKept
============================================================================
