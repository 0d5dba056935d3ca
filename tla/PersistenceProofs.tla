-------------------------- MODULE PersistenceProofs ---------------------------
(***************************************************************************)
(* The properties of Persistence hold for every number of processes, keys, *)
(* calls and crashes.                                                      *)
(*                                                                         *)
(* A step changes the file in one of three ways (Moves): it holds the same *)
(* records as before, it has one more on a line of its own, or the record  *)
(* landed on the line of a dead process and spoils it.  What the readers   *)
(* answer before and after each of them is proved of files alone           *)
(* (SameAnswers, AddedAnswers, SpoiledAnswers), and that List and Load,    *)
(* which read a file from its two ends, agree on every file (ListIsLoad).  *)
(* The invariant IInv says what an unfinished call has read and what it    *)
(* may rely on until it writes.                                            *)
(***************************************************************************)
EXTENDS Persistence, TLAPS, FiniteSetTheorems, SequenceTheorems, WellFoundedInduction

(* What the stores write, and files of that *)
RealRecord == [key : Keys, stamp : 1 .. MaxCalls, gone : BOOLEAN]
Piece      == RealRecord \cup {Torn}
Line       == Seq(Piece)
File       == { f \in Seq(Line) : f # <<>> }
-----------------------------------------------------------------------------
(* Numbers *)

(* A set of numbers that is not empty has a smallest member. *)
LEMMA Smallest ==
  ASSUME NEW S, S \subseteq Nat, S # {}
  PROVE  \E m \in S : \A j \in S : m <= j
<1>1. PICK m \in S : \A j \in S : ~(<<j, m>> \in OpToRel(<, Nat))
  BY NatLessThanWellFounded, WFMin
<1>2. \A j \in S : ~(j < m)
  BY <1>1 DEF OpToRel
<1> QED BY <1>2

(* A set of numbers with a bound has a largest member. *)
LEMMA Largest ==
  ASSUME NEW n \in Nat, NEW S, S \subseteq 0 .. n, S # {}
  PROVE  \E m \in S : \A j \in S : j <= m
<1> DEFINE Gaps == { n - i : i \in S }
<1>1. Gaps \subseteq Nat /\ Gaps # {}
  <2>1. \A i \in S : n - i \in Nat
    OBVIOUS
  <2> QED BY <2>1
<1>2. PICK t \in Gaps : \A j \in Gaps : t <= j
  BY <1>1, Smallest
<1>3. PICK m \in S : t = n - m
  BY <1>2
<1>4. ASSUME NEW j \in S PROVE j <= m
  <2>1. t <= n - j
    BY <1>2
  <2> QED BY <1>3, <2>1
<1> QED BY <1>4

(* Two numbers that grow by one at a time *)
LEMMA GrowByOne ==
  \A a, b, t \in Nat : a <= t /\ (b = a \/ b = a + 1) => b <= t + 1
OBVIOUS
-----------------------------------------------------------------------------
(* Reading a file *)

(* A file is its lines, which are numbered. *)
LEMMA FileLines ==
  ASSUME NEW f \in File
  PROVE  /\ f \in Seq(Line) /\ Len(f) \in Nat \ {0} /\ DOMAIN f = 1 .. Len(f)
         /\ \A i \in 1 .. Len(f) : f[i] \in Line
         /\ WholeLines(f) \subseteq 1 .. Len(f)
<1>1. f \in Seq(Line) /\ f # <<>>
  BY DEF File
<1>2. Len(f) \in Nat /\ DOMAIN f = 1 .. Len(f) /\ \A i \in 1 .. Len(f) : f[i] \in Line
  BY <1>1, LenProperties, ElementOfSeq
<1>3. Len(f) # 0
  BY <1>1, EmptySeq
<1> QED BY <1>1, <1>2, <1>3 DEF WholeLines

(* What a whole line holds is a record. *)
LEMMA WholeIsRecord ==
  ASSUME NEW f \in File, NEW i \in WholeLines(f)
  PROVE  RecordOn(f, i) \in RealRecord
<1>1. i \in 1 .. Len(f) /\ f[i] \in Line /\ Len(f[i]) = 1 /\ f[i][1] # Torn
  BY FileLines DEF WholeLines, Parses
<1>2. f[i][1] \in Piece
  BY <1>1, ElementOfSeq DEF Line
<1> QED BY <1>1, <1>2 DEF RecordOn, Piece

(* The largest of a set is the one CHOOSE finds. *)
LEMMA LastIs ==
  ASSUME NEW S, S \subseteq Nat, NEW m \in S, \A j \in S : j <= m
  PROVE  (CHOOSE j \in S : \A l \in S : l <= j) = m
<1> DEFINE c == CHOOSE j \in S : \A l \in S : l <= j
<1>1. c \in S /\ \A l \in S : l <= c
  OBVIOUS
<1>2. c <= m /\ m <= c /\ c \in Nat /\ m \in Nat
  BY <1>1
<1> QED BY <1>2

(* The last line is the one that answers. *)
LEMMA LatestIs ==
  ASSUME NEW f, NEW S, S \subseteq Nat
  PROVE  /\ S = {} => Latest(f, S) = NoRecord
         /\ \A m \in S : (\A j \in S : j <= m) => Latest(f, S) = Value(RecordOn(f, m))
<1>1. ASSUME NEW m \in S, \A j \in S : j <= m
      PROVE  Latest(f, S) = Value(RecordOn(f, m))
  <2>1. (CHOOSE i \in S : \A j \in S : j <= i) = m
    BY <1>1, LastIs
  <2> QED BY <1>1, <2>1, Zenon DEF Latest
<1> QED BY <1>1 DEF Latest

(* Load gives what the last line of its key says. *)
LEMMA LoadIs ==
  ASSUME NEW f \in File, NEW k
  PROVE  /\ Load(f, k) = Latest(f, LinesOf(f, k))
         /\ LinesOf(f, k) \subseteq 1 .. Len(f) /\ LinesOf(f, k) \subseteq Nat
<1>1. LinesOf(f, k) \subseteq 1 .. Len(f) /\ LinesOf(f, k) \subseteq Nat
  BY FileLines DEF LinesOf
<1> QED BY <1>1 DEF Load

(* A key that has a line has a last one. *)
LEMMA LastLineOfKey ==
  ASSUME NEW f \in File, NEW k, LinesOf(f, k) # {}
  PROVE  \E m \in LinesOf(f, k) : \A j \in LinesOf(f, k) : j <= m
<1>1. LinesOf(f, k) \subseteq 0 .. Len(f) /\ Len(f) \in Nat
  BY FileLines DEF LinesOf
<1> QED BY <1>1, Largest

(* The lines of a key among the first i *)
UpTo(f, k, i) == { j \in LinesOf(f, k) : j <= i }

(* One line more changes the answer of its key, to what it says. *)
LEMMA OneLineMore ==
  ASSUME NEW f \in File, NEW k \in Keys, NEW i \in 1 .. Len(f)
  PROVE  Latest(f, UpTo(f, k, i)) =
           IF Parses(f[i]) /\ RecordOn(f, i).key = k THEN Value(RecordOn(f, i))
           ELSE Latest(f, UpTo(f, k, i - 1))
<1>1. /\ Len(f) \in Nat /\ DOMAIN f = 1 .. Len(f)
      /\ LinesOf(f, k) \subseteq Nat /\ UpTo(f, k, i) \subseteq Nat
  BY FileLines, LoadIs DEF UpTo
<1>2. i \in LinesOf(f, k) <=> Parses(f[i]) /\ RecordOn(f, i).key = k
  BY <1>1 DEF LinesOf, WholeLines
<1>3. CASE i \in LinesOf(f, k)
  <2>1. i \in UpTo(f, k, i) /\ \A j \in UpTo(f, k, i) : j <= i
    BY <1>3 DEF UpTo
  <2> QED BY <1>1, <1>2, <1>3, <2>1, LatestIs
<1>4. CASE i \notin LinesOf(f, k)
  <2>1. UpTo(f, k, i) = UpTo(f, k, i - 1)
    BY <1>1, <1>4 DEF UpTo
  <2> QED BY <1>2, <1>4, <2>1
<1> QED BY <1>3, <1>4

(* List and Load, which read a file from its two ends, answer the same of every key. *)
LEMMA ListIsLoad ==
  ASSUME NEW f \in File
  PROVE  List(f, Keys) = [k \in Keys |-> Load(f, k)]
<1> DEFINE n == Len(f)
           Step(g, i) ==
             IF i = 0 THEN [k \in Keys |-> NoRecord]
             ELSE IF ~Parses(f[i]) THEN g[i - 1]
             ELSE [g[i - 1] EXCEPT ![RecordOn(f, i).key] = Value(RecordOn(f, i))]
           latest == CHOOSE g : g = [i \in 0 .. n |-> Step(g, i)]
           rows == [i \in 0 .. n |-> [k \in Keys |-> Latest(f, UpTo(f, k, i))]]
<1>1. List(f, Keys) = latest[n]
  BY DEF List
<1>2. n \in Nat
  BY FileLines
<1>3. rows[0] = [k \in Keys |-> NoRecord]
  <2>1. ASSUME NEW k \in Keys PROVE Latest(f, UpTo(f, k, 0)) = NoRecord
    <3>1. UpTo(f, k, 0) = {}
      BY LoadIs, FileLines DEF UpTo
    <3> QED BY <3>1, LatestIs
  <2> QED BY <1>2, <2>1
<1>4. ASSUME NEW i \in 1 .. n PROVE rows[i] = Step(rows, i)
  <2>1. /\ rows[i] = [k \in Keys |-> Latest(f, UpTo(f, k, i))]
        /\ rows[i - 1] = [k \in Keys |-> Latest(f, UpTo(f, k, i - 1))]
    BY <1>2
  <2>2. ASSUME NEW k \in Keys
        PROVE  Latest(f, UpTo(f, k, i)) =
                 IF Parses(f[i]) /\ RecordOn(f, i).key = k THEN Value(RecordOn(f, i))
                 ELSE Latest(f, UpTo(f, k, i - 1))
    BY OneLineMore
  <2> HIDE DEF rows
  <2>3. CASE ~Parses(f[i])
    <3>1. rows[i] = rows[i - 1]
      BY <2>1, <2>2, <2>3
    <3> QED BY <1>2, <2>3, <3>1
  <2>4. CASE Parses(f[i])
    <3>1. rows[i] = [rows[i - 1] EXCEPT ![RecordOn(f, i).key] = Value(RecordOn(f, i))]
      BY <2>1, <2>2, <2>4
    <3> QED BY <1>2, <2>4, <3>1
  <2> QED BY <2>3, <2>4
<1>5. rows = [i \in 0 .. n |-> Step(rows, i)]
  <2>1. rows = [i \in 0 .. n |-> rows[i]]
    OBVIOUS
  <2> HIDE DEF rows
  <2>2. \A i \in 0 .. n : rows[i] = Step(rows, i)
    <3>1. \A i \in 0 .. n : i # 0 => i \in 1 .. n
      BY <1>2
    <3>2. rows[0] = Step(rows, 0)
      BY <1>3
    <3> HIDE DEF Step
    <3> QED BY <1>4, <3>1, <3>2
  <2> HIDE DEF Step
  <2> QED BY <2>1, <2>2
<1>6. latest = [i \in 0 .. n |-> Step(latest, i)]
  <2> HIDE DEF Step, rows
  <2> QED BY <1>5
<1>7. \A i \in 0 .. n : latest[i] = rows[i]
  <2> DEFINE Differ == { i \in 0 .. n : latest[i] # rows[i] }
  <2> SUFFICES ASSUME Differ # {} PROVE FALSE
    OBVIOUS
  <2> HIDE DEF latest, rows
  <2>1. PICK m \in Differ : \A j \in Differ : m <= j
    <3>1. Differ \subseteq Nat
      BY <1>2
    <3> HIDE DEF Differ
    <3> QED BY <3>1, Smallest
  <2>2. latest[m] = Step(latest, m) /\ rows[m] = Step(rows, m)
    BY <1>5, <1>6
  <2>3. m # 0 => latest[m - 1] = rows[m - 1]
    BY <1>2, <2>1
  <2> QED BY <2>1, <2>2, <2>3
<1>8. \A k \in Keys : Latest(f, UpTo(f, k, n)) = Load(f, k)
  <2>1. \A k \in Keys : UpTo(f, k, n) = LinesOf(f, k)
    BY <1>2, LoadIs DEF UpTo
  <2> QED BY <2>1, LoadIs
<1>9. rows[n] = [k \in Keys |-> Latest(f, UpTo(f, k, n))]
  BY <1>2
<1> HIDE DEF latest, rows
<1>10. latest[n] = rows[n]
  BY <1>2, <1>7
<1> QED BY <1>1, <1>8, <1>9, <1>10
-----------------------------------------------------------------------------
(* Writing to a file *)

(* A piece that lands on a line of its own adds a record, or nothing if it is torn;
   one that lands on another spoils what stood there. *)
Same(f, g) ==
  /\ WholeLines(g) = WholeLines(f)
  /\ \A i \in WholeLines(f) : RecordOn(g, i) = RecordOn(f, i)
Added(f, g, rec) ==
  /\ Len(f) \notin WholeLines(f) /\ WholeLines(g) = WholeLines(f) \cup {Len(f)}
  /\ RecordOn(g, Len(f)) = rec
  /\ \A i \in WholeLines(f) : RecordOn(g, i) = RecordOn(f, i)
Spoiled(f, g) ==
  /\ WholeLines(g) = WholeLines(f) \ {Len(f)}
  /\ \A i \in WholeLines(g) : RecordOn(g, i) = RecordOn(f, i)

(* What writing leaves of the lines before the last *)
Extends(f, g) ==
  /\ g \in File /\ Len(f) <= Len(g)
  /\ \A i \in 1 .. Len(f) - 1 : g[i] = f[i]

(* The empty line is no record. *)
LEMMA EmptyLine == <<>> \in Line /\ Len(<<>>) = 0 /\ ~Parses(<<>>)
BY EmptySeq DEF Line, Parses

(* A newline ends the last line and changes no record. *)
LEMMA NewlineIs ==
  ASSUME NEW f \in File
  PROVE  /\ Extends(f, Newline(f)) /\ Same(f, Newline(f)) /\ LastLine(Newline(f)) = <<>>
         /\ Len(Newline(f)) = Len(f) + 1
         /\ \A i \in 1 .. Len(f) : Newline(f)[i] = f[i]
<1> DEFINE g == Newline(f)
<1>1. f \in Seq(Line) /\ Len(f) \in Nat \ {0} /\ DOMAIN f = 1 .. Len(f)
  BY FileLines
<1>2. /\ g \in Seq(Line) /\ Len(g) = Len(f) + 1 /\ DOMAIN g = 1 .. Len(f) + 1
      /\ g[Len(f) + 1] = <<>> /\ \A i \in 1 .. Len(f) : g[i] = f[i]
  BY <1>1, EmptyLine, AppendProperties, LenProperties DEF Newline
<1> HIDE DEF g
<1>3. g # <<>>
  BY <1>1, <1>2, EmptySeq
<1>4. Same(f, g)
  BY <1>1, <1>2, EmptyLine DEF Same, WholeLines, RecordOn
<1> QED BY <1>1, <1>2, <1>3, <1>4 DEF Extends, File, LastLine, g

(* A piece is written to the last line. *)
LEMMA PutIs ==
  ASSUME NEW f \in File, NEW x \in Piece
  PROVE  /\ Extends(f, Put(f, x)) /\ Len(Put(f, x)) = Len(f)
         /\ LastLine(Put(f, x)) = Append(LastLine(f), x) /\ LastLine(Put(f, x)) # <<>>
         /\ LastLine(f) = <<>> /\ x = Torn => Same(f, Put(f, x))
         /\ LastLine(f) = <<>> /\ x # Torn =>
              Added(f, Put(f, x), x) /\ Put(f, x)[Len(f)] = <<x>>
         /\ LastLine(f) # <<>> => Spoiled(f, Put(f, x))
<1>0. PICK n : n = Len(f)
  OBVIOUS
<1> USE <1>0
<1> DEFINE g == Put(f, x)
           line == Append(LastLine(f), x)
<1>1. /\ f \in Seq(Line) /\ n \in Nat \ {0} /\ DOMAIN f = 1 .. n /\ n \in DOMAIN f
      /\ LastLine(f) = f[n] /\ f[n] \in Seq(Piece)
  BY FileLines DEF LastLine, Line
<1>2. /\ line \in Line /\ line # <<>>
      /\ LastLine(f) = <<>> => line = <<x>> /\ line[1] = x /\ Len(line) = 1
      /\ LastLine(f) # <<>> => Len(line) # 1
  <2>1. PICK last : last = LastLine(f)
    OBVIOUS
  <2>2. last \in Seq(Piece)
    BY <1>1, <2>1
  <2>3. /\ Append(last, x) \in Seq(Piece) /\ Len(Append(last, x)) = Len(last) + 1
        /\ Append(last, x) # <<>> /\ Append(last, x)[Len(last) + 1] = x
    BY <2>2, AppendProperties
  <2>4. ASSUME last = <<>> PROVE Append(last, x) = <<x>>
    BY <2>4
  <2>5. last = <<>> => Len(last) = 0
    BY EmptySeq
  <2>6. last # <<>> => Len(last) \in Nat \ {0}
    BY <2>2, EmptySeq
  <2> QED BY <2>1, <2>3, <2>4, <2>5, <2>6 DEF Line
<1>3. g = [f EXCEPT ![n] = line]
  <2>1. [f EXCEPT ![Len(f)] = Append(@, x)] = [f EXCEPT ![Len(f)] = Append(f[Len(f)], x)]
    OBVIOUS
  <2> QED BY <2>1 DEF Put, LastLine
<1> HIDE DEF line
<1>4. /\ g \in Seq(Line) /\ Len(g) = n /\ DOMAIN g = 1 .. n /\ g[n] = line
      /\ \A i \in 1 .. n : i # n => g[i] = f[i]
  <2>1. n \in 1 .. Len(f)
    BY <1>1
  <2>2. /\ [f EXCEPT ![n] = line] \in Seq(Line) /\ Len([f EXCEPT ![n] = line]) = n
        /\ \A i \in 1 .. n : [f EXCEPT ![n] = line][i] = IF i = n THEN line ELSE f[i]
    BY <1>1, <1>2, <2>1, ExceptSeq
  <2> QED BY <1>1, <1>3, <2>1, <2>2, LenProperties
<1> HIDE DEF g
<1>5. g # <<>>
  BY <1>1, <1>4, EmptySeq
<1>6. Extends(f, g) /\ LastLine(g) = line
  <2>1. g \in File
    BY <1>4, <1>5 DEF File
  <2>2. LastLine(g) = line
    BY <1>4 DEF LastLine
  <2>3. Len(f) <= Len(g)
    BY <1>1, <1>4
  <2>4. ASSUME NEW i \in 1 .. Len(f) - 1 PROVE g[i] = f[i]
    <3>1. i \in 1 .. n /\ i # n
      BY <1>1
    <3> QED BY <1>4, <3>1
  <2> QED BY <2>1, <2>2, <2>3, <2>4 DEF Extends
<1>7. ASSUME NEW i \in 1 .. n, i # n
      PROVE  (i \in WholeLines(g) <=> i \in WholeLines(f)) /\ RecordOn(g, i) = RecordOn(f, i)
  BY <1>1, <1>4, <1>7 DEF WholeLines, RecordOn
<1>8. /\ WholeLines(f) \subseteq 1 .. n /\ WholeLines(g) \subseteq 1 .. n
      /\ n \in WholeLines(f) <=> Parses(LastLine(f))
      /\ n \in WholeLines(g) <=> Parses(line)
  BY <1>1, <1>4 DEF WholeLines
<1>9. CASE LastLine(f) = <<>>
  <2>1. n \notin WholeLines(f)
    BY <1>8, <1>9, EmptyLine
  <2>2. n \in WholeLines(g) <=> x # Torn
    BY <1>2, <1>8, <1>9 DEF Parses
  <2>3. RecordOn(g, n) = x
    BY <1>2, <1>4, <1>9 DEF RecordOn
  <2>4. ASSUME x = Torn PROVE Same(f, g)
    <3>1. n \notin WholeLines(g)
      BY <2>2, <2>4
    <3>2. \A i \in 1 .. n : i \in WholeLines(g) <=> i \in WholeLines(f)
      BY <1>7, <2>1, <3>1
    <3>3. WholeLines(g) = WholeLines(f)
      BY <1>8, <3>2
    <3>4. ASSUME NEW i \in WholeLines(f) PROVE RecordOn(g, i) = RecordOn(f, i)
      BY <1>7, <1>8, <2>1
    <3> QED BY <3>3, <3>4 DEF Same
  <2>5. x # Torn => Added(f, g, x)
    BY <1>7, <1>8, <2>1, <2>2, <2>3 DEF Added
  <2> QED BY <1>2, <1>4, <1>6, <1>9, <2>4, <2>5 DEF g, line
<1>10. CASE LastLine(f) # <<>>
  <2>1. n \notin WholeLines(g)
    BY <1>2, <1>8, <1>10 DEF Parses
  <2>2. Spoiled(f, g)
    BY <1>7, <1>8, <2>1 DEF Spoiled
  <2> QED BY <1>2, <1>4, <1>6, <1>10, <2>2 DEF g, line
<1> QED BY <1>9, <1>10

(* A record and its newline are written at once. *)
LEMMA PutLineIs ==
  ASSUME NEW f \in File, NEW x \in RealRecord
  PROVE  /\ Extends(f, PutLine(f, x)) /\ LastLine(PutLine(f, x)) = <<>>
         /\ Len(PutLine(f, x)) = Len(f) + 1
         /\ LastLine(f) = <<>> => Added(f, PutLine(f, x), x) /\ PutLine(f, x)[Len(f)] = <<x>>
         /\ LastLine(f) # <<>> => Spoiled(f, PutLine(f, x)) /\ Len(PutLine(f, x)[Len(f)]) > 1
<1>1. PICK n, g, h : n = Len(f) /\ g = Put(f, x) /\ h = Newline(g)
  OBVIOUS
<1>2. h = PutLine(f, x)
  BY <1>1 DEF PutLine
<1>3. x # Torn /\ x \in Piece
  BY DEF Piece, RealRecord, Torn
<1>4. /\ n \in Nat \ {0} /\ Extends(f, g) /\ Len(g) = n /\ g[n] = Append(f[n], x)
      /\ LastLine(f) = <<>> => Added(f, g, x) /\ g[n] = <<x>>
      /\ LastLine(f) # <<>> => Spoiled(f, g)
  BY <1>1, <1>3, PutIs, FileLines DEF LastLine
<1>5. /\ g \in File /\ Extends(g, h) /\ Same(g, h) /\ LastLine(h) = <<>> /\ Len(h) = n + 1
      /\ \A i \in 1 .. n : h[i] = g[i]
  BY <1>1, <1>4, NewlineIs DEF Extends
<1>6. Extends(f, h)
  BY <1>1, <1>4, <1>5 DEF Extends
<1>7. WholeLines(g) \subseteq 1 .. n
  BY <1>4, <1>5, FileLines
<1>8. h[n] = g[n]
  BY <1>4, <1>5
<1>9. ASSUME LastLine(f) = <<>> PROVE Added(f, h, x)
  <2>1. Added(f, g, x) /\ n \in WholeLines(g)
    BY <1>1, <1>4, <1>9 DEF Added
  <2> QED BY <1>1, <1>5, <2>1 DEF Added, Same
<1>10. ASSUME LastLine(f) # <<>> PROVE Spoiled(f, h) /\ Len(h[n]) > 1
  <2>1. Spoiled(f, h)
    BY <1>4, <1>5, <1>10 DEF Spoiled, Same
  <2>2. PICK last : last = f[n] /\ last \in Seq(Piece) /\ last # <<>>
    BY <1>1, <1>10, FileLines DEF LastLine, Line
  <2>3. Len(last) \in Nat \ {0} /\ Len(Append(last, x)) = Len(last) + 1
    BY <1>3, <2>2, AppendProperties, EmptySeq
  <2> QED BY <1>4, <1>8, <2>1, <2>2, <2>3
<1> QED BY <1>1, <1>2, <1>4, <1>5, <1>6, <1>8, <1>9, <1>10

(* What a process finds when it has looked at the end of the file *)
LEMMA EnsureIs ==
  ASSUME NEW f \in File
  PROVE  /\ Extends(f, EnsureTrailingNewline(f)) /\ Same(f, EnsureTrailingNewline(f))
         /\ LastLine(EnsureTrailingNewline(f)) = <<>>
<1>1. CASE LastLine(f) = <<>>
  BY <1>1, FileLines DEF EnsureTrailingNewline, Extends, Same
<1>2. CASE LastLine(f) # <<>>
  <2>1. EnsureTrailingNewline(f) = Newline(f)
    BY <1>2 DEF EnsureTrailingNewline
  <2> QED BY <2>1, NewlineIs
<1> QED BY <1>1, <1>2

(* Lines are counted by numbers. *)
LEMMA CountIs ==
  ASSUME NEW f \in File, NEW k, NEW gone
  PROVE  /\ IsFiniteSet({ i \in LinesOf(f, k) : RecordOn(f, i).gone = gone })
         /\ Count(f, k, gone) \in Nat
<1>1. IsFiniteSet(1 .. Len(f))
  BY FileLines, FS_Interval
<1>2. IsFiniteSet({ i \in LinesOf(f, k) : RecordOn(f, i).gone = gone })
  BY <1>1, LoadIs, FS_Subset
<1> QED BY <1>2, FS_CardinalityType DEF Count

(* A file that holds the same records answers the same. *)
LEMMA SameAnswers ==
  ASSUME NEW f \in File, NEW g \in File, Same(f, g), NEW k
  PROVE  /\ LinesOf(g, k) = LinesOf(f, k) /\ Load(g, k) = Load(f, k)
         /\ IsPending(g, k) <=> IsPending(f, k)
         /\ \A gone \in BOOLEAN : Count(g, k, gone) = Count(f, k, gone)
<1>1. LinesOf(g, k) = LinesOf(f, k)
  BY DEF Same, LinesOf
<1>2. \A i \in LinesOf(f, k) : RecordOn(g, i) = RecordOn(f, i)
  BY DEF Same, LinesOf
<1>3. Load(g, k) = Load(f, k)
  <2>1. CASE LinesOf(f, k) = {}
    BY <1>1, <2>1, LoadIs, LatestIs
  <2>2. CASE LinesOf(f, k) # {}
    <3>1. PICK m \in LinesOf(f, k) : \A j \in LinesOf(f, k) : j <= m
      BY <2>2, LastLineOfKey
    <3>2. Load(f, k) = Value(RecordOn(f, m)) /\ Load(g, k) = Value(RecordOn(g, m))
      BY <1>1, <3>1, LoadIs, LatestIs
    <3> QED BY <1>2, <3>2
  <2> QED BY <2>1, <2>2
<1>4. Puts(g, k) = Puts(f, k)
  BY <1>1, <1>2 DEF Puts
<1>5. ASSUME NEW gone \in BOOLEAN PROVE Count(g, k, gone) = Count(f, k, gone)
  <2>1. { i \in LinesOf(g, k) : RecordOn(g, i).gone = gone }
          = { i \in LinesOf(f, k) : RecordOn(f, i).gone = gone }
    BY <1>1, <1>2
  <2> QED BY <2>1, Zenon DEF Count
<1>6. IsPending(g, k) <=> IsPending(f, k)
  BY <1>1, <1>4, Zenon DEF IsPending
<1> QED BY <1>1, <1>3, <1>5, <1>6

(* A record that is added says what its key is from now on, and nothing of another. *)
LEMMA AddedAnswers ==
  ASSUME NEW f \in File, NEW g \in File, NEW rec \in RealRecord, Added(f, g, rec), NEW k
  PROVE  /\ LinesOf(g, k) = IF rec.key = k THEN LinesOf(f, k) \cup {Len(f)} ELSE LinesOf(f, k)
         /\ Load(g, k) = IF rec.key = k THEN Value(rec) ELSE Load(f, k)
         /\ IsPending(g, k) <=> IF rec.key = k THEN ~rec.gone ELSE IsPending(f, k)
         /\ \A gone \in BOOLEAN :
              Count(g, k, gone) =
                IF rec.key = k /\ rec.gone = gone THEN Count(f, k, gone) + 1
                ELSE Count(f, k, gone)
<1>1. PICK n : n = Len(f) /\ n \in Nat
  BY FileLines
<1>2. /\ n \notin WholeLines(f) /\ WholeLines(g) = WholeLines(f) \cup {n} /\ RecordOn(g, n) = rec
      /\ \A i \in WholeLines(f) : RecordOn(g, i) = RecordOn(f, i)
  BY <1>1 DEF Added
<1>3. /\ LinesOf(f, k) \subseteq 1 .. n /\ LinesOf(f, k) \subseteq Nat /\ n \notin LinesOf(f, k)
      /\ \A i \in LinesOf(f, k) : RecordOn(g, i) = RecordOn(f, i)
  BY <1>1, <1>2, LoadIs DEF LinesOf
<1>4. LinesOf(g, k) = IF rec.key = k THEN LinesOf(f, k) \cup {n} ELSE LinesOf(f, k)
  BY <1>2 DEF LinesOf
<1>5. CASE rec.key # k
  <2>1. LinesOf(g, k) = LinesOf(f, k)
    BY <1>4, <1>5
  <2>2. Load(g, k) = Load(f, k)
    <3>1. CASE LinesOf(f, k) = {}
      BY <2>1, <3>1, LoadIs, LatestIs
    <3>2. CASE LinesOf(f, k) # {}
      <4>1. PICK m \in LinesOf(f, k) : \A j \in LinesOf(f, k) : j <= m
        BY <3>2, LastLineOfKey
      <4>2. Load(f, k) = Value(RecordOn(f, m)) /\ Load(g, k) = Value(RecordOn(g, m))
        BY <2>1, <4>1, LoadIs, LatestIs
      <4> QED BY <1>3, <4>2
    <3> QED BY <3>1, <3>2
  <2>3. Puts(g, k) = Puts(f, k)
    BY <1>3, <2>1 DEF Puts
  <2>4. ASSUME NEW gone \in BOOLEAN PROVE Count(g, k, gone) = Count(f, k, gone)
    <3>1. { i \in LinesOf(g, k) : RecordOn(g, i).gone = gone }
            = { i \in LinesOf(f, k) : RecordOn(f, i).gone = gone }
      BY <1>3, <2>1
    <3> QED BY <3>1, Zenon DEF Count
  <2>5. IsPending(g, k) <=> IsPending(f, k)
    BY <2>1, <2>3, Zenon DEF IsPending
  <2> QED BY <1>1, <1>4, <1>5, <2>2, <2>4, <2>5
<1>6. CASE rec.key = k
  <2>1. LinesOf(g, k) = LinesOf(f, k) \cup {n}
    BY <1>4, <1>6
  <2>2. n \in LinesOf(g, k) /\ \A j \in LinesOf(g, k) : j <= n
    BY <1>1, <1>3, <2>1
  <2>3. Load(g, k) = Value(rec)
    BY <1>2, <2>2, LoadIs, LatestIs
  <2>4. IsPending(g, k) <=> ~rec.gone
    <3>1. n \in Puts(g, k) <=> ~rec.gone
      BY <1>2, <2>2 DEF Puts
    <3>2. ASSUME IsPending(g, k) PROVE n \in Puts(g, k)
      <4>1. PICK i \in Puts(g, k) : \A j \in LinesOf(g, k) : j <= i
        BY <3>2 DEF IsPending
      <4>2. i \in LinesOf(g, k) /\ n <= i /\ i <= n
        BY <2>2, <4>1 DEF Puts
      <4>3. i = n
        BY <1>1, <1>3, <2>1, <4>2
      <4> QED BY <4>3
    <3> QED BY <2>2, <3>1, <3>2 DEF IsPending
  <2>5. ASSUME NEW gone \in BOOLEAN
        PROVE  Count(g, k, gone) = IF rec.gone = gone THEN Count(f, k, gone) + 1
                                     ELSE Count(f, k, gone)
    <3>1. PICK old : old = { i \in LinesOf(f, k) : RecordOn(f, i).gone = gone }
      OBVIOUS
    <3>2. IsFiniteSet(old) /\ n \notin old
      BY <1>3, <3>1, CountIs
    <3>3. { i \in LinesOf(g, k) : RecordOn(g, i).gone = gone }
            = IF rec.gone = gone THEN old \cup {n} ELSE old
      BY <1>2, <1>3, <2>1, <3>1
    <3>4. Cardinality(old \cup {n}) = Cardinality(old) + 1
      BY <3>2, FS_AddElement
    <3>5. Count(f, k, gone) = Cardinality(old)
      BY <3>1, Zenon DEF Count
    <3>6. CASE rec.gone = gone
      <4>1. Count(g, k, gone) = Cardinality(old \cup {n})
        BY <3>3, <3>6, Zenon DEF Count
      <4> QED BY <3>4, <3>5, <3>6, <4>1
    <3>7. CASE rec.gone # gone
      <4>1. Count(g, k, gone) = Cardinality(old)
        BY <3>3, <3>7, Zenon DEF Count
      <4> QED BY <3>5, <3>7, <4>1
    <3> QED BY <3>6, <3>7
  <2> QED BY <1>1, <1>4, <1>6, <2>3, <2>4, <2>5
<1> QED BY <1>5, <1>6

(* A line that is spoiled is a line less. *)
LEMMA SpoiledAnswers ==
  ASSUME NEW f, NEW g, Spoiled(f, g), NEW k
  PROVE  LinesOf(g, k) \subseteq LinesOf(f, k)
BY DEF Spoiled, LinesOf
-----------------------------------------------------------------------------
(* The invariant *)

Types ==
  /\ kind \in Kinds
  /\ file \in File
  /\ pc \in [Procs -> {"idle", "read", "check", "write"}]
  /\ op \in [Procs -> [key : Keys, stamp : 0 .. MaxCalls, gone : BOOLEAN]]
  /\ memory \in [Procs -> [Keys -> Nat]]
  /\ calls \in 0 .. MaxCalls
  /\ acked \subseteq RealRecord
  /\ taken \in [Keys -> Nat]
  /\ torn \in BOOLEAN
  /\ foreign \in [Procs -> SUBSET Keys]

(* A call has a record to write; no call of the queue looks at the end of the file, and
   only runtimes and items of the queue are ever written as gone. *)
Doing ==
  \A p \in Procs : pc[p] # "idle" =>
    /\ op[p] \in RealRecord
    /\ kind = "queue" => pc[p] # "check"
    /\ kind \in Mirrored \cup {"events"} => ~op[p].gone

(* A line without its newline is the work of a process that died, and a process about to
   write to it was about to write when that happened, or has the queue for its file. *)
Ends ==
  LastLine(file) # <<>> =>
    /\ torn
    /\ \A p \in Procs : pc[p] = "write" => kind = "queue" \/ op[p].stamp \in between

(* What was acknowledged stands on a line of its own which is not the last. *)
Kept ==
  \A r \in acked :
    \/ \E i \in 1 .. Len(file) - 1 : file[i] = <<r>>
    \/ r.stamp \in between
    \/ kind = "queue" /\ torn

(* What a process holds in memory is in the file, or others changed it since. *)
InMemory ==
  \A p \in Procs, k \in Keys :
    \/ memory[p][k] = NoRecord
    \/ kind \in Mirrored /\ (memory[p][k] = Load(file, k) \/ k \in foreign[p])

(* p has read the file for k, and is going to write. *)
Holds(p, k) == pc[p] \in {"check", "write"} /\ op[p].key = k

(* An event has one line at most, none while a process is going to append it, and only
   one process is. *)
EventsOnce ==
  kind = "events" =>
    \A k \in Keys \ raced :
      /\ \A i, j \in LinesOf(file, k) : i = j
      /\ \A p \in Procs : Holds(p, k) =>
           LinesOf(file, k) = {} /\ \A q \in Procs : Holds(q, k) => q = p

(* p is going to write that k is done. *)
Pops(p, k) == Holds(p, k) /\ op[p].gone

(* An item was not said to be done more often than it was put there, and less often if it
   is pending or a process is going to say so; only one process is. *)
PoppedOnce ==
  kind = "queue" /\ ~torn =>
    \A k \in Keys \ raced :
      /\ taken[k] <= Count(file, k, TRUE) /\ Count(file, k, TRUE) <= Count(file, k, FALSE)
      /\ IsPending(file, k) => Count(file, k, TRUE) < Count(file, k, FALSE)
      /\ \A p \in Procs : Pops(p, k) =>
           Count(file, k, TRUE) < Count(file, k, FALSE) /\ \A q \in Procs : Pops(q, k) => q = p

(* The inductive invariant *)
IInv == Types /\ Doing /\ Ends /\ Kept /\ InMemory /\ EventsOnce /\ PoppedOnce
-----------------------------------------------------------------------------
(* The steps *)

(* What Load answers can be kept in memory. *)
LEMMA LoadInNat ==
  ASSUME NEW f \in File, NEW k
  PROVE  Load(f, k) \in Nat
<1>1. CASE LinesOf(f, k) = {}
  BY <1>1, LoadIs, LatestIs DEF NoRecord
<1>2. CASE LinesOf(f, k) # {}
  <2>1. PICK m \in LinesOf(f, k) : \A j \in LinesOf(f, k) : j <= m
    BY <1>2, LastLineOfKey
  <2>2. PICK rec \in RealRecord : rec = RecordOn(f, m)
    BY <2>1, WholeIsRecord DEF LinesOf
  <2>3. Load(f, k) = Value(rec)
    BY <2>1, <2>2, LoadIs, LatestIs
  <2>4. Value(rec) \in Nat
    BY PersistenceAssumption DEF RealRecord, Value, NoRecord
  <2> QED BY <2>3, <2>4
<1> QED BY <1>1, <1>2

(* One step of one process *)
Step(p) ==
  \/ \E k \in Keys : \/ SaveState(p, k) \/ SaveSnapshot(p, k)
                     \/ SaveRuntime(p, k) \/ DeleteRuntime(p, k)
                     \/ AppendEvent(p, k) \/ Enqueue(p, k) \/ LoadMirrored(p, k)
  \/ Pop(p) \/ ReadEvents(p) \/ ReadQueue(p) \/ CheckEnd(p) \/ Write(p) \/ Crash(p)

(* What a call that begins is going to do *)
Begins(p) ==
  \E rec \in RealRecord, first \in {"read", "check", "write"} :
    /\ Calls(p, rec, first)
    /\ kind = "queue" => first # "check" /\ ~rec.gone
    /\ kind \in Mirrored \cup {"events"} => ~rec.gone
    /\ kind = "events" => first = "read"
    /\ first = "write" => kind = "queue"

(* Every call begins so. *)
LEMMA CallsBegin ==
  ASSUME Types, NEW p \in Procs, Step(p)
  PROVE  \/ Begins(p) \/ \E k \in Keys : LoadMirrored(p, k)
         \/ ReadEvents(p) \/ ReadQueue(p) \/ CheckEnd(p) \/ Write(p) \/ Crash(p)
<1>1. PICK n : n = calls + 1 /\ (calls < MaxCalls => n \in 1 .. MaxCalls)
  BY PersistenceAssumption DEF Types
<1>2. ASSUME NEW k \in Keys, NEW gone \in BOOLEAN, calls < MaxCalls
      PROVE  Record(k, n, gone) \in RealRecord /\ Record(k, n, gone).gone = gone
  BY <1>1, <1>2 DEF Record, RealRecord
<1>3. ASSUME calls < MaxCalls
      PROVE  [NoOp EXCEPT !.stamp = n] \in RealRecord /\ ~[NoOp EXCEPT !.stamp = n].gone
  <2>1. PICK first \in Keys : first = CHOOSE k \in Keys : TRUE
    BY PersistenceAssumption
  <2>2. NoOp = Record(first, NoRecord, FALSE)
    BY <2>1, Zenon DEF NoOp
  <2> QED BY <1>1, <1>3, <2>2 DEF Record, RealRecord
<1>4. ASSUME NEW rec, NEW first, Calls(p, rec, first) PROVE calls < MaxCalls
  BY <1>4 DEF Calls
<1>5. ASSUME NEW k \in Keys, SaveState(p, k) PROVE Begins(p)
  <2>1. kind = "states" /\ Calls(p, Record(k, n, FALSE), "check")
    BY <1>1, <1>5 DEF SaveState
  <2> QED BY <1>2, <1>4, <2>1 DEF Begins, Mirrored
<1>6. ASSUME NEW k \in Keys, SaveSnapshot(p, k) PROVE Begins(p)
  <2>1. kind = "snapshots" /\ Calls(p, Record(k, n, FALSE), "check")
    BY <1>1, <1>6 DEF SaveSnapshot
  <2> QED BY <1>2, <1>4, <2>1 DEF Begins, Mirrored
<1>7. ASSUME NEW k \in Keys, SaveRuntime(p, k) PROVE Begins(p)
  <2>1. kind = "runtimes" /\ Calls(p, Record(k, n, FALSE), "check")
    BY <1>1, <1>7 DEF SaveRuntime
  <2> QED BY <1>2, <1>4, <2>1 DEF Begins, Mirrored
<1>8. ASSUME NEW k \in Keys, DeleteRuntime(p, k) PROVE Begins(p)
  <2>1. kind = "runtimes" /\ Calls(p, Record(k, n, TRUE), "check")
    BY <1>1, <1>8 DEF DeleteRuntime
  <2> QED BY <1>2, <1>4, <2>1 DEF Begins, Mirrored
<1>9. ASSUME NEW k \in Keys, AppendEvent(p, k) PROVE Begins(p)
  <2>1. kind = "events" /\ Calls(p, Record(k, n, FALSE), "read")
    BY <1>1, <1>9 DEF AppendEvent
  <2> QED BY <1>2, <1>4, <2>1 DEF Begins, Mirrored
<1>10. ASSUME NEW k \in Keys, Enqueue(p, k) PROVE Begins(p)
  <2>1. kind = "queue" /\ Calls(p, Record(k, n, FALSE), "write")
    BY <1>1, <1>10 DEF Enqueue
  <2> QED BY <1>2, <1>4, <2>1 DEF Begins, Mirrored
<1>11. ASSUME Pop(p) PROVE Begins(p)
  <2>1. kind = "queue" /\ Calls(p, [NoOp EXCEPT !.stamp = n], "read")
    BY <1>1, <1>11 DEF Pop
  <2> QED BY <1>3, <1>4, <2>1 DEF Begins, Mirrored
<1> QED BY <1>5, <1>6, <1>7, <1>8, <1>9, <1>10, <1>11 DEF Step

(* How a step of p changes the file *)
Moves(p) ==
  /\ Extends(file, file')
  /\ \/ Same(file, file')
     \/ pc[p] = "write" /\ LastLine(file) = <<>> /\ Added(file, file', op[p])
     \/ pc[p] = "write" /\ LastLine(file) # <<>> /\ Spoiled(file, file')

(* Nothing moves if the file stays what it is. *)
LEMMA FileStays ==
  ASSUME NEW f \in File
  PROVE  Extends(f, f) /\ Same(f, f)
BY FileLines DEF Extends, Same

(* A process that writes or dies changes the file by what it was to write. *)
LEMMA FileMoves ==
  ASSUME Types, Doing, NEW p \in Procs, Write(p) \/ Crash(p)
  PROVE  Moves(p)
<1>1. file \in File
  BY DEF Types
<1>2. pc[p] = "write" => op[p] \in RealRecord /\ op[p] \in Piece /\ op[p] # Torn
  BY DEF Doing, Piece, RealRecord, Torn
<1>3. \/ file' = file
      \/ file' = EnsureTrailingNewline(file)
      \/ pc[p] = "write" /\ file' \in {Put(file, Torn), Put(file, op[p]), PutLine(file, op[p])}
  BY DEF Write, Crash
<1>4. CASE file' = file
  BY <1>1, <1>4, FileStays DEF Moves
<1>5. CASE file' = EnsureTrailingNewline(file)
  BY <1>1, <1>5, EnsureIs DEF Moves
<1>6. CASE pc[p] = "write" /\ file' = Put(file, Torn)
  <2>1. Torn \in Piece
    BY DEF Piece
  <2> QED BY <1>1, <1>6, <2>1, PutIs DEF Moves
<1>7. CASE pc[p] = "write" /\ file' = Put(file, op[p])
  BY <1>1, <1>2, <1>7, PutIs DEF Moves
<1>8. CASE pc[p] = "write" /\ file' = PutLine(file, op[p])
  BY <1>1, <1>2, <1>8, PutLineIs DEF Moves
<1> QED BY <1>3, <1>4, <1>5, <1>6, <1>7, <1>8

(* What was acknowledged stays on its line, whatever is written. *)
LEMMA KeptStays ==
  ASSUME Types, Kept, Extends(file, file'), kind' = kind, torn => torn', between \subseteq between',
         NEW r \in acked
  PROVE  \/ \E i \in 1 .. Len(file') - 1 : file'[i] = <<r>>
         \/ r.stamp \in between'
         \/ kind' = "queue" /\ torn'
<1>1. CASE \E i \in 1 .. Len(file) - 1 : file[i] = <<r>>
  <2>1. PICK i \in 1 .. Len(file) - 1 : file[i] = <<r>>
    BY <1>1
  <2>2. file'[i] = <<r>>
    BY <2>1 DEF Extends
  <2>3. i \in 1 .. Len(file') - 1
    <3>1. Len(file) \in Nat /\ Len(file') \in Nat /\ Len(file) <= Len(file')
      BY FileLines DEF Types, Extends
    <3> QED BY <3>1
  <2> QED BY <2>2, <2>3
<1> QED BY <1>1 DEF Kept

(* A call that ends, with or without what it was to write *)
Finishes(p) ==
  /\ pc' = [pc EXCEPT ![p] = "idle"] /\ op' = op /\ kind' = kind /\ raced' = raced
  /\ Moves(p)

(* An event is there once after the call too. *)
LEMMA FinishEvents ==
  ASSUME Types, Doing, EventsOnce, NEW p \in Procs, Finishes(p)
  PROVE  EventsOnce'
<1> SUFFICES ASSUME kind = "events", NEW k \in Keys \ raced
             PROVE  /\ \A i, j \in LinesOf(file', k) : i = j
                    /\ \A q \in Procs : Holds(q, k)' =>
                         LinesOf(file', k) = {} /\ \A r \in Procs : Holds(r, k)' => r = q
  BY DEF EventsOnce, Finishes
<1>1. /\ \A i, j \in LinesOf(file, k) : i = j
      /\ \A q \in Procs : Holds(q, k) =>
           LinesOf(file, k) = {} /\ \A r \in Procs : Holds(r, k) => r = q
  BY DEF EventsOnce
<1>2. \A q \in Procs : Holds(q, k)' => q # p /\ Holds(q, k)
  BY DEF Finishes, Holds, Types
<1>3. CASE LinesOf(file', k) \subseteq LinesOf(file, k)
  BY <1>1, <1>2, <1>3
<1>4. CASE pc[p] = "write" /\ op[p].key = k /\ LinesOf(file', k) = LinesOf(file, k) \cup {Len(file)}
  <2>1. Holds(p, k)
    BY <1>4 DEF Holds
  <2>2. LinesOf(file', k) = {Len(file)} /\ \A q \in Procs : ~Holds(q, k)'
    BY <1>1, <1>2, <1>4, <2>1
  <2> QED BY <2>2
<1>5. file \in File /\ file' \in File /\ (pc[p] = "write" => op[p] \in RealRecord)
  BY DEF Types, Finishes, Moves, Extends, Doing
<1>6. CASE Same(file, file')
  BY <1>3, <1>5, <1>6, SameAnswers
<1>7. CASE pc[p] = "write" /\ Added(file, file', op[p])
  <2>1. LinesOf(file', k) = IF op[p].key = k THEN LinesOf(file, k) \cup {Len(file)}
                            ELSE LinesOf(file, k)
    BY <1>5, <1>7, AddedAnswers
  <2> QED BY <1>3, <1>4, <1>7, <2>1
<1>8. CASE Spoiled(file, file')
  BY <1>3, <1>8, SpoiledAnswers
<1> QED BY <1>6, <1>7, <1>8 DEF Finishes, Moves

(* An item is still popped no more often than it was put there. *)
LEMMA FinishPops ==
  ASSUME Types, Doing, Ends, PoppedOnce, NEW p \in Procs, Finishes(p), torn => torn',
         taken' \in [Keys -> Nat],
         \A k \in Keys :
           \/ taken'[k] = taken[k]
           \/ /\ taken'[k] = taken[k] + 1 /\ k = op[p].key /\ op[p].gone
              /\ pc[p] = "write" /\ (LastLine(file) = <<>> => Added(file, file', op[p]))
  PROVE  PoppedOnce'
<1> SUFFICES ASSUME kind = "queue", ~torn, NEW k \in Keys \ raced
             PROVE  /\ taken'[k] <= Count(file', k, TRUE)
                    /\ Count(file', k, TRUE) <= Count(file', k, FALSE)
                    /\ IsPending(file', k) => Count(file', k, TRUE) < Count(file', k, FALSE)
                    /\ \A q \in Procs : Pops(q, k)' =>
                         /\ Count(file', k, TRUE) < Count(file', k, FALSE)
                         /\ \A r \in Procs : Pops(r, k)' => r = q
  BY DEF PoppedOnce, Finishes
<1>1. /\ file \in File /\ file' \in File /\ taken[k] \in Nat /\ taken'[k] \in Nat
      /\ pc[p] = "write" => op[p] \in RealRecord
  BY DEF Types, Finishes, Moves, Extends, Doing
<1>2. LastLine(file) = <<>>
  BY DEF Ends
<1>3. /\ taken[k] <= Count(file, k, TRUE) /\ Count(file, k, TRUE) <= Count(file, k, FALSE)
      /\ IsPending(file, k) => Count(file, k, TRUE) < Count(file, k, FALSE)
      /\ \A q \in Procs : Pops(q, k) =>
           /\ Count(file, k, TRUE) < Count(file, k, FALSE)
           /\ \A r \in Procs : Pops(r, k) => r = q
  BY DEF PoppedOnce
<1>4. \A q \in Procs : Pops(q, k)' => q # p /\ Pops(q, k)
  BY DEF Finishes, Pops, Holds, Types
<1>5. PICK t, f : t = Count(file, k, TRUE) /\ f = Count(file, k, FALSE) /\ t \in Nat /\ f \in Nat
  BY <1>1, CountIs
<1>6. taken[k] <= t /\ t <= f
  BY <1>3, <1>5
<1>7. ASSUME t \in Nat, f \in Nat, t <= f PROVE t <= f + 1 /\ t < f + 1 /\ t <= t + 1
  BY <1>7
<1>8. ASSUME t \in Nat, f \in Nat, t < f PROVE t + 1 <= f
  BY <1>8
<1>9. CASE Same(file, file') /\ ~(pc[p] = "write" /\ Added(file, file', op[p]))
  <2>1. taken'[k] = taken[k]
    BY <1>2, <1>9
  <2>2. /\ Count(file', k, TRUE) = t /\ Count(file', k, FALSE) = f
        /\ IsPending(file', k) <=> IsPending(file, k)
    BY <1>1, <1>5, <1>9, SameAnswers
  <2> QED BY <1>3, <1>4, <1>5, <2>1, <2>2
<1>10. CASE pc[p] = "write" /\ Added(file, file', op[p])
  <2>1. /\ \A gone \in BOOLEAN :
             Count(file', k, gone) =
               IF op[p].key = k /\ op[p].gone = gone THEN Count(file, k, gone) + 1
               ELSE Count(file, k, gone)
        /\ IsPending(file', k) <=> IF op[p].key = k THEN ~op[p].gone ELSE IsPending(file, k)
        /\ op[p].gone \in BOOLEAN
    BY <1>1, <1>10, AddedAnswers DEF RealRecord
  <2>2. CASE op[p].key # k
    <3>1. taken'[k] = taken[k]
      BY <2>2
    <3>2. Count(file', k, TRUE) = t /\ Count(file', k, FALSE) = f
      BY <1>5, <2>1, <2>2
    <3> QED BY <1>3, <1>4, <1>5, <2>1, <2>2, <3>1, <3>2
  <2>3. CASE op[p].key = k /\ op[p].gone
    <3>1. Count(file', k, TRUE) = t + 1 /\ Count(file', k, FALSE) = f
      BY <1>5, <2>1, <2>3
    <3>2. Pops(p, k)
      BY <1>10, <2>3 DEF Pops, Holds
    <3>3. t < f /\ \A q \in Procs : ~Pops(q, k)'
      BY <1>3, <1>4, <1>5, <3>2
    <3>4. ~IsPending(file', k)
      BY <2>1, <2>3
    <3>5. taken'[k] <= t + 1
      <4>1. PICK a, b : a = taken[k] /\ b = taken'[k] /\ a \in Nat /\ b \in Nat
        BY <1>1
      <4>2. b = a \/ b = a + 1
        BY <4>1
      <4>3. a <= t
        BY <1>6, <4>1
      <4>4. b <= t + 1
        BY <1>5, <4>1, <4>2, <4>3, GrowByOne, Zenon
      <4> QED BY <4>1, <4>4
    <3>6. t + 1 <= f
      BY <1>5, <1>8, <3>3
    <3> QED BY <3>1, <3>3, <3>4, <3>5, <3>6
  <2>4. CASE op[p].key = k /\ ~op[p].gone
    <3>1. Count(file', k, TRUE) = t /\ Count(file', k, FALSE) = f + 1
      BY <1>5, <2>1, <2>4
    <3>2. taken'[k] = taken[k]
      BY <2>4
    <3>3. t < f + 1 /\ t <= f + 1
      BY <1>5, <1>6, <1>7
    <3> QED BY <1>3, <1>4, <1>6, <3>1, <3>2, <3>3
  <2> QED BY <2>2, <2>3, <2>4
<1> QED BY <1>2, <1>9, <1>10 DEF Finishes, Moves
-----------------------------------------------------------------------------
(* The invariant is inductive. *)

(* It holds at first. *)
LEMMA InitIInv == Init => IInv
<1> SUFFICES ASSUME Init PROVE IInv
  OBVIOUS
<1>1. PICK first \in Keys : first = CHOOSE k \in Keys : TRUE
  BY PersistenceAssumption
<1>2. NoOp = Record(first, NoRecord, FALSE)
  BY <1>1, Zenon DEF NoOp
<1>3. /\ file = << <<>> >> /\ Len(file) = 1 /\ file \in File /\ LastLine(file) = <<>>
      /\ WholeLines(file) = {}
  <2>1. file = << <<>> >> /\ Len(file) = 1 /\ file[1] = <<>> /\ DOMAIN file = 1 .. 1
    BY DEF Init, EmptyFile
  <2>2. file \in Seq(Line) /\ file # <<>>
    BY <2>1, EmptyLine, EmptySeq
  <2> QED BY <2>1, <2>2, EmptyLine DEF File, LastLine, WholeLines
<1>4. Types
  <2>1. op \in [Procs -> [key : Keys, stamp : 0 .. MaxCalls, gone : BOOLEAN]]
    BY <1>2, PersistenceAssumption DEF Init, Record, NoRecord
  <2>2. file \in File /\ calls \in 0 .. MaxCalls
    BY <1>3, PersistenceAssumption DEF Init
  <2> QED BY <2>1, <2>2 DEF Init, Types, NoRecord
<1>5. Doing /\ Ends /\ Kept
  BY <1>3 DEF Init, Doing, Ends, Kept
<1>6. InMemory
  BY DEF Init, InMemory
<1>7. EventsOnce
  BY <1>3 DEF Init, EventsOnce, Holds, LinesOf
<1>8. PoppedOnce
  <2>1. ASSUME NEW k \in Keys
        PROVE  /\ Count(file, k, TRUE) = 0 /\ Count(file, k, FALSE) = 0 /\ ~IsPending(file, k)
               /\ taken[k] = 0 /\ \A p \in Procs : ~Pops(p, k)
    <3>1. LinesOf(file, k) = {}
      BY <1>3 DEF LinesOf
    <3>2. /\ { i \in LinesOf(file, k) : RecordOn(file, i).gone = TRUE } = {}
          /\ { i \in LinesOf(file, k) : RecordOn(file, i).gone = FALSE } = {}
      BY <3>1
    <3>3. Count(file, k, TRUE) = 0 /\ Count(file, k, FALSE) = 0
      BY <3>2, FS_EmptySet, Zenon DEF Count
    <3> QED BY <3>1, <3>3 DEF IsPending, Puts, Init, Pops, Holds
  <2>2. 0 <= 0
    OBVIOUS
  <2> QED BY <2>1, <2>2, Zenon DEF PoppedOnce
<1> QED BY <1>4, <1>5, <1>6, <1>7, <1>8 DEF IInv

(* A call that begins changes no file, and has read none. *)
LEMMA BeginKeeps ==
  ASSUME IInv, NEW p \in Procs, Begins(p)
  PROVE  IInv'
<1>1. PICK rec \in RealRecord, first \in {"read", "check", "write"} :
        /\ Calls(p, rec, first)
        /\ kind = "queue" => first # "check" /\ ~rec.gone
        /\ kind \in Mirrored \cup {"events"} => ~rec.gone
        /\ kind = "events" => first = "read"
        /\ first = "write" => kind = "queue"
  BY DEF Begins
<1>2. /\ UNCHANGED <<kind, file, memory, acked, taken, torn, between, raced, foreign>>
      /\ pc' = [pc EXCEPT ![p] = first] /\ op' = [op EXCEPT ![p] = rec]
      /\ calls < MaxCalls /\ calls' = calls + 1
  BY <1>1 DEF Calls, history
<1>3. Types'
  <2>1. rec \in [key : Keys, stamp : 0 .. MaxCalls, gone : BOOLEAN]
    BY PersistenceAssumption DEF RealRecord
  <2>2. calls' \in 0 .. MaxCalls
    BY <1>2, PersistenceAssumption DEF IInv, Types
  <2> QED BY <1>2, <2>1, <2>2 DEF IInv, Types
<1>4. Doing'
  BY <1>1, <1>2 DEF IInv, Types, Doing
<1>5. Ends'
  BY <1>1, <1>2 DEF IInv, Types, Ends
<1>6. Kept' /\ InMemory'
  BY <1>2 DEF IInv, Kept, InMemory
<1>7. EventsOnce'
  <2>1. ASSUME kind = "events", NEW q \in Procs, NEW k, Holds(q, k)' PROVE Holds(q, k)
    BY <1>1, <1>2, <2>1 DEF IInv, Types, Holds
  <2> QED BY <1>2, <2>1 DEF IInv, EventsOnce
<1>8. PoppedOnce'
  <2>1. ASSUME kind = "queue", NEW q \in Procs, NEW k, Pops(q, k)' PROVE Pops(q, k)
    BY <1>1, <1>2, <2>1 DEF IInv, Types, Pops, Holds
  <2> QED BY <1>2, <2>1 DEF IInv, PoppedOnce
<1> QED BY <1>3, <1>4, <1>5, <1>6, <1>7, <1>8 DEF IInv

(* What is put into memory is what the file says. *)
LEMMA LoadKeeps ==
  ASSUME IInv, NEW p \in Procs, NEW key \in Keys, LoadMirrored(p, key)
  PROVE  IInv'
<1>1. /\ UNCHANGED <<kind, file, pc, op, calls, acked, taken, torn, between, raced>>
      /\ memory' = [memory EXCEPT ![p][key] = Load(file, key)]
      /\ foreign' = [foreign EXCEPT ![p] = @ \ {key}] /\ kind \in Mirrored
  BY DEF LoadMirrored
<1>2. Types'
  <2>1. Load(file, key) \in Nat
    BY LoadInNat DEF IInv, Types
  <2> QED BY <1>1, <2>1 DEF IInv, Types
<1>3. Doing' /\ Ends' /\ Kept' 
  BY <1>1 DEF IInv, Doing, Ends, Kept
<1>4. InMemory'
  <2>1. ASSUME NEW q \in Procs, NEW k \in Keys, q # p \/ k # key
        PROVE  memory'[q][k] = memory[q][k] /\ (k \in foreign'[q] <=> k \in foreign[q])
    BY <1>1, <2>1 DEF IInv, Types
  <2>2. memory'[p][key] = Load(file, key)
    BY <1>1 DEF IInv, Types
  <2> QED BY <1>1, <2>1, <2>2 DEF IInv, InMemory
<1>5. EventsOnce' /\ PoppedOnce'
  BY <1>1 DEF EventsOnce, PoppedOnce, Mirrored
<1> QED BY <1>2, <1>3, <1>4, <1>5 DEF IInv

(* Nobody else holds the event a process is going to append, or it is raced. *)
LEMMA ReadEventsKeeps ==
  ASSUME IInv, NEW p \in Procs, ReadEvents(p)
  PROVE  IInv'
<1>1. PICK next \in {"idle", "check"} :
        /\ kind = "events" /\ pc[p] = "read" /\ pc' = [pc EXCEPT ![p] = next]
        /\ next = "check" => LinesOf(file, op[p].key) = {} /\ Race(p, op[p].key, FALSE)
        /\ next = "idle" => UNCHANGED raced
        /\ UNCHANGED <<kind, file, op, memory, calls, acked, taken, torn, between, foreign>>
  BY DEF ReadEvents
<1>2. Types'
  BY <1>1 DEF IInv, Types
<1>3. Doing' /\ Ends'
  BY <1>1 DEF IInv, Types, Doing, Ends
<1>4. Kept' /\ InMemory'
  BY <1>1 DEF IInv, Kept, InMemory
<1>5. EventsOnce'
  <2>1. raced \subseteq raced'
    BY <1>1 DEF Race
  <2> SUFFICES ASSUME NEW k \in Keys \ raced'
               PROVE  \A q \in Procs : Holds(q, k)' =>
                        LinesOf(file, k) = {} /\ \A r \in Procs : Holds(r, k)' => r = q
    BY <1>1, <2>1 DEF IInv, EventsOnce
  <2>2. \A q \in Procs : Holds(q, k) =>
          LinesOf(file, k) = {} /\ \A r \in Procs : Holds(r, k) => r = q
    BY <1>1, <2>1 DEF IInv, EventsOnce
  <2>3. \A q \in Procs \ {p} : Holds(q, k)' <=> Holds(q, k)
    BY <1>1 DEF IInv, Types, Holds
  <2>4. Holds(p, k)' <=> next = "check" /\ op[p].key = k
    BY <1>1 DEF IInv, Types, Holds
  <2>5. CASE next = "check" /\ op[p].key = k
    <3>1. Rivals(p, k, FALSE) = {}
      BY <1>1, <2>5 DEF Race
    <3>2. \A q \in Procs \ {p} : ~Holds(q, k)
      BY <1>1, <3>1 DEF Rivals, Holds, IInv, Doing, Mirrored
    <3> QED BY <1>1, <2>3, <2>5, <3>2
  <2>6. CASE ~(next = "check" /\ op[p].key = k)
    BY <2>2, <2>3, <2>4, <2>6
  <2> QED BY <2>5, <2>6
<1>6. PoppedOnce'
  BY <1>1 DEF PoppedOnce
<1> QED BY <1>2, <1>3, <1>4, <1>5, <1>6 DEF IInv

(* Only what is pending is popped. *)
LEMMA ReadQueueKeeps ==
  ASSUME IInv, NEW p \in Procs, ReadQueue(p)
  PROVE  IInv'
<1>1. kind = "queue" /\ pc[p] = "read"
  BY DEF ReadQueue
<1>2. CASE Fails(p)
  <2>1. /\ pc' = [pc EXCEPT ![p] = "idle"]
        /\ UNCHANGED <<kind, file, op, memory, calls, acked, taken, torn, between, raced, foreign>>
    BY <1>2 DEF Fails, history
  <2>2. Types'
    BY <2>1 DEF IInv, Types
  <2>3. Doing' /\ Ends'
    BY <2>1 DEF IInv, Types, Doing, Ends
  <2>4. Kept' /\ InMemory' /\ EventsOnce'
    BY <1>1, <2>1 DEF IInv, Kept, InMemory, EventsOnce
  <2>5. \A q \in Procs, k \in Keys : Pops(q, k)' => Pops(q, k)
    BY <2>1 DEF IInv, Types, Pops, Holds
  <2>6. PoppedOnce'
    BY <2>1, <2>5 DEF IInv, PoppedOnce
  <2> QED BY <2>2, <2>3, <2>4, <2>6 DEF IInv
<1>3. ASSUME NEW key \in Keys, IsNext(file, key), Chooses(p, key) PROVE IInv'
  <2>1. /\ pc' = [pc EXCEPT ![p] = "write"]
        /\ op' = [op EXCEPT ![p].key = key, ![p].gone = TRUE]
        /\ Race(p, key, TRUE) /\ IsPending(file, key)
        /\ UNCHANGED <<kind, file, memory, calls, acked, taken, torn, between, foreign>>
    BY <1>3 DEF Chooses, IsNext
  <2>2. PICK rec \in RealRecord : op' = [op EXCEPT ![p] = rec] /\ rec.key = key /\ rec.gone
    <3>1. op[p] \in RealRecord /\ op[p] \in [key : Keys, stamp : 1 .. MaxCalls, gone : BOOLEAN]
      BY <1>1 DEF IInv, Doing, RealRecord
    <3>2. op' = [op EXCEPT ![p] = [[op[p] EXCEPT !.key = key] EXCEPT !.gone = TRUE]]
      BY <2>1 DEF IInv, Types
    <3>3. [[op[p] EXCEPT !.key = key] EXCEPT !.gone = TRUE] \in RealRecord
      BY <3>1 DEF RealRecord
    <3> QED BY <3>1, <3>2, <3>3 DEF RealRecord
  <2>3. Types'
    <3>1. rec \in [key : Keys, stamp : 0 .. MaxCalls, gone : BOOLEAN]
      BY PersistenceAssumption DEF RealRecord
    <3>2. op' \in [Procs -> [key : Keys, stamp : 0 .. MaxCalls, gone : BOOLEAN]]
      BY <2>2, <3>1 DEF IInv, Types
    <3> QED BY <2>1, <3>2 DEF IInv, Types
  <2>4. Doing'
    BY <1>1, <2>1, <2>2 DEF IInv, Types, Doing, Mirrored
  <2>5. Ends' /\ Kept'
    BY <1>1, <2>1 DEF IInv, Ends, Kept
  <2>6. InMemory' /\ EventsOnce'
    BY <1>1, <2>1 DEF IInv, InMemory, EventsOnce
  <2>7. PoppedOnce'
    <3>1. raced \subseteq raced'
      BY <2>1 DEF Race
    <3> SUFFICES ASSUME ~torn, NEW k \in Keys \ raced'
                 PROVE  \A q \in Procs : Pops(q, k)' =>
                          /\ Count(file, k, TRUE) < Count(file, k, FALSE)
                          /\ \A r \in Procs : Pops(r, k)' => r = q
      BY <1>1, <2>1, <3>1 DEF IInv, PoppedOnce
    <3>2. /\ IsPending(file, k) => Count(file, k, TRUE) < Count(file, k, FALSE)
          /\ \A q \in Procs : Pops(q, k) =>
               /\ Count(file, k, TRUE) < Count(file, k, FALSE)
               /\ \A r \in Procs : Pops(r, k) => r = q
      BY <1>1, <3>1 DEF IInv, PoppedOnce
    <3>3. \A q \in Procs \ {p} : Pops(q, k)' <=> Pops(q, k)
      BY <2>1, <2>2 DEF IInv, Types, Pops, Holds
    <3>4. Pops(p, k)' <=> key = k
      BY <2>1, <2>2 DEF IInv, Types, Pops, Holds
    <3>5. CASE key = k
      <4>1. Rivals(p, k, TRUE) = {}
        BY <2>1, <3>5 DEF Race
      <4>2. \A q \in Procs \ {p} : ~Pops(q, k)
        <5>1. \A q \in Procs : pc[q] # "idle" => op[q].gone \in BOOLEAN
          BY DEF IInv, Doing, RealRecord
        <5> QED BY <4>1, <5>1 DEF Rivals, Pops, Holds
      <4> QED BY <2>1, <3>2, <3>3, <3>5, <4>2
    <3>6. CASE key # k
      BY <3>2, <3>3, <3>4, <3>6
    <3> QED BY <3>5, <3>6
  <2> QED BY <2>3, <2>4, <2>5, <2>6, <2>7 DEF IInv
<1> QED BY <1>2, <1>3 DEF ReadQueue

(* After it looked at the end of the file there is nothing on the last line. *)
LEMMA CheckEndKeeps ==
  ASSUME IInv, NEW p \in Procs, CheckEnd(p)
  PROVE  IInv'
<1>1. /\ pc[p] = "check" /\ pc' = [pc EXCEPT ![p] = "write"] /\ kind # "queue"
      /\ UNCHANGED <<kind, op, memory, calls, acked, taken, torn, between, raced, foreign>>
  BY DEF CheckEnd, history, IInv, Doing
<1>2. /\ file \in File /\ file' \in File /\ Extends(file, file') /\ Same(file, file')
      /\ LastLine(file') = <<>>
  BY EnsureIs DEF CheckEnd, IInv, Types, Extends
<1>3. \A k \in Keys : LinesOf(file', k) = LinesOf(file, k) /\ Load(file', k) = Load(file, k)
  BY <1>2, SameAnswers
<1>4. Types'
  BY <1>1, <1>2 DEF IInv, Types
<1>5. Doing' /\ Ends'
  BY <1>1, <1>2 DEF IInv, Types, Doing, Ends
<1>6. Kept'
  BY <1>1, <1>2, KeptStays DEF IInv, Kept
<1>7. InMemory'
  BY <1>1, <1>3 DEF IInv, InMemory
<1>8. EventsOnce'
  <2>1. \A q \in Procs, k \in Keys : Holds(q, k)' <=> Holds(q, k)
    BY <1>1 DEF IInv, Types, Holds
  <2> QED BY <1>1, <1>3, <2>1 DEF IInv, EventsOnce
<1>9. PoppedOnce'
  BY <1>1 DEF PoppedOnce
<1> QED BY <1>4, <1>5, <1>6, <1>7, <1>8, <1>9 DEF IInv

(* A record is written on a line of its own, or a process died and left a line open. *)
LEMMA WriteKeeps ==
  ASSUME IInv, NEW p \in Procs, Write(p)
  PROVE  IInv'
<1>1. PICK rec \in RealRecord, new \in File :
        /\ rec = op[p] /\ new = PutLine(file, rec) /\ file' = new
        /\ kind \in Mirrored => ~rec.gone
  <2>1. op[p] \in RealRecord /\ (kind \in Mirrored => ~op[p].gone)
    BY DEF Write, IInv, Doing
  <2>2. PutLine(file, op[p]) \in File
    BY <2>1, PutLineIs DEF IInv, Types, Extends
  <2> QED BY <2>1, <2>2 DEF Write
<1>2. /\ pc[p] = "write" /\ pc' = [pc EXCEPT ![p] = "idle"] /\ acked' = acked \cup {rec}
      /\ taken' = IF kind = "queue" /\ rec.gone THEN [taken EXCEPT ![rec.key] = @ + 1] ELSE taken
      /\ memory' = IF kind \in Mirrored THEN [memory EXCEPT ![p][rec.key] = rec.stamp] ELSE memory
      /\ foreign' = [q \in Procs |->
           IF q # p THEN foreign[q] \cup Changed(new)
           ELSE IF Len(new[Len(file)]) > 1 THEN foreign[q] \cup Changed(new) \cup {rec.key}
           ELSE foreign[q] \ {rec.key}]
      /\ UNCHANGED <<kind, op, calls, torn, between, raced>>
  BY <1>1 DEF Write
<1>3. file \in File /\ Len(file) \in Nat \ {0} /\ rec.key \in Keys /\ rec.stamp \in Nat
  BY FileLines DEF IInv, Types, RealRecord
<1>4. /\ Extends(file, new) /\ LastLine(new) = <<>> /\ Len(new) = Len(file) + 1
      /\ LastLine(file) = <<>> => Added(file, new, rec) /\ new[Len(file)] = <<rec>>
      /\ LastLine(file) # <<>> => Len(new[Len(file)]) > 1
  BY <1>1, <1>3, PutLineIs
<1>5. Types'
  <2>1. Changed(new) \subseteq Keys
    BY DEF Changed
  <2>2. foreign' \in [Procs -> SUBSET Keys]
    BY <1>2, <1>3, <2>1 DEF IInv, Types
  <2>3. memory' \in [Procs -> [Keys -> Nat]]
    BY <1>2, <1>3 DEF IInv, Types
  <2>4. taken' \in [Keys -> Nat]
    BY <1>2, <1>3 DEF IInv, Types
  <2> QED BY <1>1, <1>2, <2>2, <2>3, <2>4 DEF IInv, Types
<1>6. Doing' /\ Ends'
  BY <1>1, <1>2, <1>4 DEF IInv, Types, Doing, Ends
<1>7. Kept'
  <2>1. ASSUME NEW r \in acked
        PROVE  \/ \E i \in 1 .. Len(file') - 1 : file'[i] = <<r>>
               \/ r.stamp \in between'
               \/ kind' = "queue" /\ torn'
    BY <1>1, <1>2, <1>4, KeptStays DEF IInv
  <2>2. \/ \E i \in 1 .. Len(file') - 1 : file'[i] = <<rec>>
        \/ rec.stamp \in between'
        \/ kind' = "queue" /\ torn'
    <3>1. CASE LastLine(file) = <<>>
      <4>1. Len(file) \in 1 .. Len(new) - 1
        BY <1>3, <1>4
      <4> QED BY <1>1, <1>4, <3>1, <4>1
    <3>2. CASE LastLine(file) # <<>>
      BY <1>1, <1>2, <3>2 DEF IInv, Ends
    <3> QED BY <3>1, <3>2
  <2> QED BY <1>2, <2>1, <2>2 DEF Kept
<1>8. InMemory'
  <2> SUFFICES ASSUME NEW q \in Procs, NEW k \in Keys
               PROVE  \/ memory'[q][k] = NoRecord
                      \/ /\ kind' \in Mirrored
                         /\ memory'[q][k] = Load(file', k) \/ k \in foreign'[q]
    BY DEF InMemory
  <2>1. \/ memory[q][k] = NoRecord
        \/ kind \in Mirrored /\ (memory[q][k] = Load(file, k) \/ k \in foreign[q])
    BY DEF IInv, InMemory
  <2>2. CASE kind \notin Mirrored
    BY <1>2, <2>1, <2>2
  <2>3. CASE kind \in Mirrored /\ q # p
    <3>1. memory'[q][k] = memory[q][k] /\ foreign'[q] = foreign[q] \cup Changed(new)
      BY <1>2, <1>3, <2>3 DEF IInv, Types
    <3> QED BY <1>1, <1>2, <2>1, <2>3, <3>1 DEF Changed
  <2>4. CASE kind \in Mirrored /\ q = p
    <3>1. memory'[q][k] = IF k = rec.key THEN rec.stamp ELSE memory[q][k]
      BY <1>2, <1>3, <2>4 DEF IInv, Types
    <3>2. CASE LastLine(file) # <<>>
      <4>1. foreign'[q] = foreign[q] \cup Changed(new) \cup {rec.key}
        BY <1>2, <1>4, <2>4, <3>2
      <4> QED BY <1>1, <1>2, <2>1, <2>4, <3>1, <4>1 DEF Changed
    <3>3. CASE LastLine(file) = <<>>
      <4>1. foreign'[q] = foreign[q] \ {rec.key}
        <5>1. Len(<<rec>>) = 1 /\ ~(1 > 1)
          OBVIOUS
        <5>2. new[Len(file)] = <<rec>>
          BY <1>4, <3>3
        <5>3. Len(new[Len(file)]) = 1
          BY <5>1, <5>2, Zenon
        <5> QED BY <1>2, <2>4, <5>1, <5>3
      <4>2. Load(new, k) = IF rec.key = k THEN Value(rec) ELSE Load(file, k)
        BY <1>1, <1>3, <1>4, <3>3, AddedAnswers
      <4>3. Value(rec) = rec.stamp
        BY <1>1, <2>4 DEF Value
      <4> QED BY <1>1, <1>2, <2>1, <2>4, <3>1, <4>1, <4>2, <4>3
    <3> QED BY <3>2, <3>3
  <2> QED BY <2>2, <2>3, <2>4
<1>9. Finishes(p)
  BY <1>2, FileMoves DEF Finishes, IInv
<1>10. EventsOnce'
  BY <1>9, FinishEvents DEF IInv
<1>11. PoppedOnce'
  <2>1. ASSUME NEW k \in Keys
        PROVE  \/ taken'[k] = taken[k]
               \/ /\ taken'[k] = taken[k] + 1 /\ k = op[p].key /\ op[p].gone
                  /\ pc[p] = "write" /\ (LastLine(file) = <<>> => Added(file, file', op[p]))
    BY <1>1, <1>2, <1>3, <1>4 DEF IInv, Types
  <2>2. taken' \in [Keys -> Nat]
    BY <1>5 DEF Types
  <2> QED BY <1>2, <1>9, <2>1, <2>2, FinishPops DEF IInv
<1> QED BY <1>5, <1>6, <1>7, <1>8, <1>10, <1>11 DEF IInv

(* A process that dies leaves what it had acknowledged. *)
LEMMA CrashKeeps ==
  ASSUME IInv, NEW p \in Procs, Crash(p)
  PROVE  IInv'
<1>1. /\ pc' = [pc EXCEPT ![p] = "idle"]
      /\ memory' = [memory EXCEPT ![p] = [k \in Keys |-> NoRecord]]
      /\ torn' = (torn \/ LastLine(file') # <<>>)
      /\ between' = between \cup { op[q].stamp : q \in { r \in Procs \ {p} :
                      LastLine(file') # <<>> /\ pc[r] = "write" } }
      /\ foreign' = [q \in Procs |-> IF q = p THEN {} ELSE foreign[q] \cup Changed(file')]
      /\ UNCHANGED <<kind, op, calls, acked, taken, raced>>
  BY DEF Crash
<1>2. Finishes(p)
  BY <1>1, FileMoves DEF Finishes, IInv
<1>3. file' \in File /\ Extends(file, file')
  BY <1>2 DEF Finishes, Moves, Extends
<1>4. Types'
  <2>1. Changed(file') \subseteq Keys
    BY DEF Changed
  <2>2. foreign' \in [Procs -> SUBSET Keys]
    BY <1>1, <2>1 DEF IInv, Types
  <2>3. memory' \in [Procs -> [Keys -> Nat]]
    BY <1>1 DEF IInv, Types, NoRecord
  <2>4. torn' \in BOOLEAN
    BY <1>1, Zenon
  <2> QED BY <1>1, <1>3, <2>2, <2>3, <2>4 DEF IInv, Types
<1>5. Doing'
  BY <1>1 DEF IInv, Types, Doing
<1>6. Ends'
  <2> SUFFICES ASSUME LastLine(file') # <<>>
               PROVE  torn' /\ \A q \in Procs : pc'[q] = "write" =>
                                 kind' = "queue" \/ op'[q].stamp \in between'
    BY DEF Ends
  <2>1. \A q \in Procs : pc'[q] = "write" => q # p /\ pc[q] = "write"
    BY <1>1 DEF IInv, Types
  <2> QED BY <1>1, <2>1
<1>7. Kept'
  <2>1. torn => torn'
    BY <1>1
  <2>2. between \subseteq between' /\ kind' = kind /\ acked' = acked
    BY <1>1
  <2> QED BY <1>3, <2>1, <2>2, KeptStays DEF IInv, Kept
<1>8. InMemory'
  <2> SUFFICES ASSUME NEW q \in Procs, NEW k \in Keys
               PROVE  \/ memory'[q][k] = NoRecord
                      \/ /\ kind' \in Mirrored
                         /\ memory'[q][k] = Load(file', k) \/ k \in foreign'[q]
    BY DEF InMemory
  <2>1. CASE q = p
    BY <1>1, <2>1 DEF IInv, Types
  <2>2. CASE q # p
    <3>1. memory'[q][k] = memory[q][k] /\ foreign'[q] = foreign[q] \cup Changed(file')
      BY <1>1, <2>2 DEF IInv, Types
    <3>2. \/ memory[q][k] = NoRecord
          \/ kind \in Mirrored /\ (memory[q][k] = Load(file, k) \/ k \in foreign[q])
      BY DEF IInv, InMemory
    <3> QED BY <1>1, <3>1, <3>2 DEF Changed
  <2> QED BY <2>1, <2>2
<1>9. EventsOnce'
  BY <1>2, FinishEvents DEF IInv
<1>10. PoppedOnce'
  <2>1. torn => torn'
    BY <1>1
  <2> QED BY <1>1, <1>2, <2>1, FinishPops DEF IInv, Types
<1> QED BY <1>4, <1>5, <1>6, <1>7, <1>8, <1>9, <1>10 DEF IInv

(* Every step keeps the invariant. *)
LEMMA NextIInv ==
  ASSUME IInv, [Next]_vars
  PROVE  IInv'
<1>1. CASE UNCHANGED vars
  <2>1. UNCHANGED <<kind, file, pc, op, memory, calls, acked, taken, torn, between, raced, foreign>>
    BY <1>1 DEF vars, history
  <2>2. Types' /\ Doing' /\ Ends'
    BY <2>1 DEF IInv, Types, Doing, Ends
  <2>3. Kept' /\ InMemory'
    BY <2>1 DEF IInv, Kept, InMemory
  <2>4. EventsOnce'
    BY <2>1 DEF IInv, EventsOnce, Holds
  <2>5. PoppedOnce'
    BY <2>1 DEF IInv, PoppedOnce, Pops, Holds
  <2> QED BY <2>2, <2>3, <2>4, <2>5 DEF IInv
<1>2. ASSUME NEW p \in Procs, Step(p) PROVE IInv'
  <2>1. \/ Begins(p) \/ \E k \in Keys : LoadMirrored(p, k)
        \/ ReadEvents(p) \/ ReadQueue(p) \/ CheckEnd(p) \/ Write(p) \/ Crash(p)
    BY <1>2, CallsBegin DEF IInv
  <2> QED BY <2>1, BeginKeeps, LoadKeeps, ReadEventsKeeps, ReadQueueKeeps, CheckEndKeeps,
             WriteKeeps, CrashKeeps
<1> QED BY <1>1, <1>2 DEF Next, Step

(* The invariant holds of every state. *)
LEMMA AlwaysIInv == Spec => []IInv
BY InitIInv, NextIInv, PTL DEF Spec
-----------------------------------------------------------------------------
(* The properties *)

(* A record whose call returned without an error is read by everyone who reads the file
   from then on, but for the lines of dead processes. *)
THEOREM AckedStaysReadable == Spec => []AckedIsKept
<1>1. IInv => AckedIsKept
  <2> SUFFICES ASSUME IInv, NEW r \in acked,
                      NEW i \in 1 .. Len(file) - 1, file[i] = <<r>>
               PROVE  i \in WholeLines(file) /\ RecordOn(file, i) = r
    BY DEF IInv, Kept, AckedIsKept
  <2>1. r # Torn
    BY DEF IInv, Types, RealRecord, Torn
  <2>2. Len(<<r>>) = 1 /\ <<r>>[1] = r
    OBVIOUS
  <2>3. i \in DOMAIN file
    BY FileLines DEF IInv, Types
  <2> QED BY <2>1, <2>2, <2>3 DEF WholeLines, Parses, RecordOn
<1> QED BY <1>1, AlwaysIInv, PTL

(* Load, which reads a file from its end, and List, which reads it from its beginning,
   answer the same, and so does the memory of every process nobody interfered with. *)
THEOREM BothReadersAgree == Spec => []ReadersAgree
<1>1. IInv => ReadersAgree
  <2> SUFFICES ASSUME IInv, NEW k \in Keys
               PROVE  /\ Load(file, k) = T!Lookup(k)
                      /\ \A p \in Procs : memory[p][k] \in {NoRecord, Load(file, k)} \/ k \in foreign[p]
    BY DEF ReadersAgree
  <2>1. Rows = [l \in Keys |-> Load(file, l)]
    BY ListIsLoad DEF IInv, Types, Rows
  <2>2. Load(file, k) = T!Lookup(k)
    BY <2>1 DEF T!Lookup
  <2> QED BY <2>2 DEF IInv, InMemory
<1> QED BY <1>1, AlwaysIInv, PTL

(* An event is stored once and an item popped once, unless two processes read the file
   for it before either wrote. *)
THEOREM StoredOnce == Spec => []OnceUnlessRaced
<1>1. IInv => OnceUnlessRaced
  <2> SUFFICES ASSUME IInv, NEW k \in Keys \ raced
               PROVE  /\ kind = "events" => Count(file, k, FALSE) <= 1
                      /\ kind = "queue"  => taken[k] <= Count(file, k, FALSE) \/ torn
    BY DEF OnceUnlessRaced
  <2>1. ASSUME kind = "events" PROVE Count(file, k, FALSE) <= 1
    <3>1. PICK S : S = { i \in LinesOf(file, k) : RecordOn(file, i).gone = FALSE }
      OBVIOUS
    <3>2. \A i, j \in S : i = j
      BY <2>1, <3>1 DEF IInv, EventsOnce
    <3>3. CASE S = {}
      <4>1. Cardinality(S) = 0
        BY <3>3, FS_EmptySet
      <4> QED BY <3>1, <4>1 DEF Count
    <3>4. CASE S # {}
      <4>1. PICK i : S = {i}
        BY <3>2, <3>4
      <4>2. Cardinality(S) = 1
        BY <4>1, FS_Singleton
      <4> QED BY <3>1, <4>2 DEF Count
    <3> QED BY <3>3, <3>4
  <2>2. ASSUME kind = "queue", ~torn PROVE taken[k] <= Count(file, k, FALSE)
    <3>1. PICK a, t, f : a = taken[k] /\ t = Count(file, k, TRUE) /\ f = Count(file, k, FALSE)
      OBVIOUS
    <3>2. a \in Nat /\ t \in Nat /\ f \in Nat
      BY <3>1, CountIs DEF IInv, Types
    <3>3. a <= t /\ t <= f
      BY <2>2, <3>1 DEF IInv, PoppedOnce
    <3>4. \A x, y, z \in Nat : x <= y /\ y <= z => x <= z
      OBVIOUS
    <3> QED BY <3>1, <3>2, <3>3, <3>4, Zenon
  <2> QED BY <2>1, <2>2
<1> QED BY <1>1, AlwaysIInv, PTL

(* What List answers changes as the table of a database would: by the save, the deletion
   or the insertion of one call, whichever process writes it. *)
THEOREM FileIsATable == Spec => FileIsTable
<1> DEFINE TableStep ==
             \/ kind = "queue" \/ LastLine(file) # <<>>
             \/ \E p \in Procs :
                  LET r == op[p] IN
                  /\ pc[p] = "write"
                  /\ \/ r.gone /\ T!Delete(r.key)
                     \/ kind # "events" /\ ~r.gone /\ T!Save(r.key, r.stamp)
                     \/ kind = "events" /\ (T!AppendOnce(r.key, r.stamp) \/ r.key \in raced)
<1>1. ASSUME IInv, NEW p \in Procs, Write(p) \/ Crash(p), kind # "queue", LastLine(file) = <<>>
      PROVE  Rows' = Rows \/ TableStep
  <2>1. Moves(p)
    BY <1>1, FileMoves DEF IInv
  <2>2. file \in File /\ file' \in File
    BY <1>1, <2>1 DEF IInv, Types, Moves, Extends
  <2>3. /\ Rows = [k \in Keys |-> Load(file, k)]
        /\ Rows' = [k \in Keys |-> Load(file', k)]
    BY <2>2, ListIsLoad DEF Rows
  <2>4. CASE Same(file, file')
    BY <2>2, <2>3, <2>4, SameAnswers
  <2>5. CASE pc[p] = "write" /\ Added(file, file', op[p])
    <3>1. PICK rec \in RealRecord : rec = op[p] /\ rec.key \in Keys /\ rec.gone \in BOOLEAN
      BY <1>1, <2>5 DEF IInv, Doing, RealRecord
    <3>2. \A k \in Keys : Load(file', k) = IF rec.key = k THEN Value(rec) ELSE Load(file, k)
      BY <2>2, <2>5, <3>1, AddedAnswers
    <3>3. Rows' = [Rows EXCEPT ![rec.key] = Value(rec)]
      BY <2>3, <3>1, <3>2
    <3>4. CASE rec.gone
      <4>1. T!Delete(rec.key)
        BY <3>3, <3>4 DEF T!Delete, T!DeleteRow, Value, NoRecord
      <4> QED BY <2>5, <3>1, <3>4, <4>1
    <3>5. CASE kind # "events" /\ ~rec.gone
      <4>1. T!Save(rec.key, rec.stamp)
        BY <3>3, <3>5 DEF T!Save, T!Upsert, Value
      <4> QED BY <2>5, <3>1, <3>5, <4>1
    <3>6. CASE kind = "events" /\ ~rec.gone /\ rec.key \notin raced
      <4>1. LinesOf(file, rec.key) = {}
        BY <1>1, <2>5, <3>1, <3>6 DEF IInv, EventsOnce, Holds
      <4>2. Load(file, rec.key) = NoRecord
        BY <2>2, <4>1, LoadIs, LatestIs
      <4>3. Rows[rec.key] = 0
        BY <2>3, <3>1, <4>2 DEF NoRecord
      <4>4. T!AppendOnce(rec.key, rec.stamp)
        BY <3>3, <3>6, <4>3 DEF T!AppendOnce, T!InsertOrIgnore, Value
      <4> QED BY <2>5, <3>1, <3>6, <4>4
    <3>7. CASE kind = "events" /\ rec.key \in raced
      BY <2>5, <3>1, <3>7
    <3> QED BY <3>1, <3>4, <3>5, <3>6, <3>7
  <2> QED BY <1>1, <2>1, <2>4, <2>5 DEF Moves
<1>2. ASSUME IInv, NEW p \in Procs, CheckEnd(p) PROVE Rows' = Rows
  <2>1. file \in File /\ file' \in File /\ Same(file, file')
    BY <1>2, EnsureIs DEF IInv, Types, CheckEnd, Extends
  <2>2. /\ Rows = [k \in Keys |-> Load(file, k)]
        /\ Rows' = [k \in Keys |-> Load(file', k)]
    BY <2>1, ListIsLoad DEF Rows
  <2> QED BY <2>1, <2>2, SameAnswers
<1>3. ASSUME file' = file PROVE Rows' = Rows
  BY <1>3 DEF Rows
<1>4. ASSUME IInv, NEW p \in Procs, Step(p) PROVE Rows' = Rows \/ TableStep
  <2>1. \/ Begins(p) \/ \E k \in Keys : LoadMirrored(p, k)
        \/ ReadEvents(p) \/ ReadQueue(p) \/ CheckEnd(p) \/ Write(p) \/ Crash(p)
    BY <1>4, CallsBegin DEF IInv
  <2>2. Begins(p) => file' = file
    BY DEF Begins, Calls
  <2>3. (\E k \in Keys : LoadMirrored(p, k)) \/ ReadEvents(p) => file' = file
    BY DEF LoadMirrored, ReadEvents
  <2>4. ReadQueue(p) => file' = file
    BY DEF ReadQueue, Fails, Chooses
  <2> HIDE DEF TableStep
  <2>5. kind = "queue" \/ LastLine(file) # <<>> => TableStep
    BY DEF TableStep
  <2> QED BY <1>1, <1>2, <1>3, <1>4, <2>1, <2>2, <2>3, <2>4, <2>5
<1>5. IInv /\ [Next]_vars => [TableStep]_Rows
  <2> HIDE DEF TableStep
  <2>1. UNCHANGED vars => Rows' = Rows
    BY <1>3 DEF vars
  <2>2. Next => \E p \in Procs : Step(p)
    BY DEF Next, Step
  <2> QED BY <1>4, <2>1, <2>2
<1>6. Spec => [][TableStep]_Rows
  <2> HIDE DEF TableStep
  <2> QED BY <1>5, AlwaysIInv, PTL DEF Spec
<1> QED BY <1>6 DEF FileIsTable
=============================================================================
