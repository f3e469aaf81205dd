-------------------------- MODULE PacketSessionProofs -------------------------
(***************************************************************************)
(* The packet session between the Agent and the Engine: one ring of bytes,  *)
(* and then the pumps, for which a ring is a FIFO.                          *)
(***************************************************************************)
EXTENDS PacketPump, PacketRing, Integers, WellFoundedInduction, TLAPS

(***************************************************************************)
(* Numbers: division by the capacity, the header and the weight of a byte,  *)
(* and induction over a set of numbers.                                     *)
(***************************************************************************)
\* Division of natural numbers.
LEMMA Quotient ==
    ASSUME NEW x \in Nat, NEW m \in Nat \ {0}
    PROVE  x \div m \in Nat
<1>1. x \div m \in Int OBVIOUS
<1>2. x \div m >= 0 OBVIOUS
<1> QED BY <1>1, <1>2

\* A remainder is less than the divisor.
LEMMA Remainder ==
    ASSUME NEW x \in Nat, NEW m \in Nat \ {0}
    PROVE  x % m \in 0 .. m - 1
OBVIOUS

\* A number is its quotient and its remainder.
LEMMA Division ==
    ASSUME NEW x \in Nat, NEW m \in Nat \ {0}
    PROVE  x = m * (x \div m) + (x % m)
OBVIOUS

\* A multiple is no less than its factor.
LEMMA Product ==
    ASSUME NEW a \in Int, NEW m \in Nat, a >= 1
    PROVE  a * m >= m
OBVIOUS

\* Quotient and remainder are determined.
LEMMA Unique ==
    ASSUME NEW m \in Nat \ {0}, NEW a \in Int, NEW b \in Int,
           NEW r \in 0 .. m - 1, NEW s \in 0 .. m - 1, m * a + r = m * b + s
    PROVE  a = b /\ r = s
<1>1. m * (a - b) = s - r OBVIOUS
<1>2. CASE a - b >= 1
  <2>1. (a - b) * m >= m BY <1>2, Product
  <2> QED BY <1>1, <2>1
<1>3. CASE b - a >= 1
  <2>1. (b - a) * m >= m BY <1>3, Product
  <2> QED BY <1>1, <2>1
<1> QED BY <1>1, <1>2, <1>3

\* Division gives back what a product and a remainder were made of.
LEMMA Divided ==
    ASSUME NEW m \in Nat \ {0}, NEW a \in Nat, NEW r \in 0 .. m - 1
    PROVE  (m * a + r) % m = r /\ (m * a + r) \div m = a
<1>1. m * a + r \in Nat
  <2>1. m * a \in Nat OBVIOUS
  <2> QED BY <2>1
<1> DEFINE x == m * a + r
<1>2. x = m * (x \div m) + (x % m) /\ x % m \in 0 .. m - 1 /\ x \div m \in Nat
  BY <1>1, Division, Remainder, Quotient
<1> HIDE DEF x
<1>3. x = m * a + r BY DEF x
<1>4. x \div m = a /\ x % m = r BY <1>2, <1>3, Unique
<1> QED BY <1>4 DEF x

\* Adding a multiple of the divisor does not change the remainder.
LEMMA Multiple ==
    ASSUME NEW x \in Nat, NEW m \in Nat \ {0}, NEW k \in Nat
    PROVE  (x + m * k) % m = x % m
<1>1. x = m * (x \div m) + (x % m) /\ x % m \in 0 .. m - 1 /\ x \div m \in Nat
  BY Division, Remainder, Quotient
<1> DEFINE a == (x \div m) + k
           r == x % m
<1>2. x + m * k = m * a + r /\ a \in Nat /\ r \in 0 .. m - 1 BY <1>1
<1> HIDE DEF a, r
<1>3. (m * a + r) % m = r BY <1>2, Divided
<1> QED BY <1>2, <1>3 DEF r

\* A nonempty set of natural numbers has a least one.
LEMMA LeastNumber ==
    ASSUME NEW T, T \subseteq Nat, T # {}
    PROVE  \E x \in T : \A y \in T : x <= y
<1> DEFINE R == {p \in Nat \X Nat : p[1] < p[2]}
<1>1. IsWellFoundedOn(R, Nat) BY NatLessThanWellFounded DEF OpToRel
<1> HIDE DEF R
<1>2. PICK x \in T : \A y \in T : ~(<<y, x>> \in R) BY <1>1, WFMin
<1>3. \A y \in T : y < x => <<y, x>> \in R BY DEF R
<1>4. \A y \in T : x \in Nat /\ y \in Nat /\ ~(y < x) BY <1>2, <1>3
<1> QED BY <1>4

\* A set of numbers that has 0 and every successor has all.
LEMMA Inductive ==
    ASSUME NEW T, T \subseteq Nat, 0 \in T, \A n \in T : n + 1 \in T
    PROVE  T = Nat
<1> SUFFICES ASSUME T # Nat PROVE FALSE OBVIOUS
<1>1. PICK x \in Nat \ T : \A y \in Nat \ T : x <= y BY LeastNumber
<1>2. x - 1 \in Nat BY <1>1
<1>3. x - 1 \in T BY <1>1, <1>2
<1> QED BY <1>1, <1>3

-----------------------------------------------------------------------------
(* Functions that are defined by recursion exist.                             *)

Solves(f, n, S, a, step) ==
    /\ f \in [0 .. n -> S] /\ f[0] = a
    /\ \A i \in 1 .. n : f[i] = step[<<i, f[i - 1]>>]

\* Step by step from a value: such a function exists for every length.
LEMMA Recursion ==
    ASSUME NEW N \in Nat, NEW S, NEW a \in S, NEW step \in [(1 .. N) \X S -> S]
    PROVE  \E f : Solves(f, N, S, a, step)
<1> USE DEF Solves
<1> DEFINE T == {n \in Nat : n <= N => \E f : Solves(f, n, S, a, step)}
<1>1. 0 \in T
  <2>1. Solves([i \in 0 .. 0 |-> a], 0, S, a, step) OBVIOUS
  <2> QED BY <2>1
<1>2. ASSUME NEW n \in T PROVE n + 1 \in T
  <2> SUFFICES ASSUME n + 1 <= N PROVE \E f : Solves(f, n + 1, S, a, step) OBVIOUS
  <2>1. PICK f : Solves(f, n, S, a, step) OBVIOUS
  <2> DEFINE g == [i \in 0 .. n + 1 |-> IF i <= n THEN f[i] ELSE step[<<n + 1, f[n]>>]]
  <2>2. n \in Nat /\ n \in 0 .. n /\ f[n] \in S /\ n + 1 \in 0 .. n + 1 /\ ~(n + 1 <= n) BY <2>1
  <2>3. n + 1 \in 1 .. N /\ <<n + 1, f[n]>> \in (1 .. N) \X S BY <2>2
  <2>4. step[<<n + 1, f[n]>>] \in S BY <2>3
  <2>5. g \in [0 .. n + 1 -> S] BY <2>1, <2>4
  <2>6. \A i \in 0 .. n : g[i] = f[i] OBVIOUS
  <2>7. g[n + 1] = step[<<n + 1, g[n]>>] BY <2>2, <2>6
  <2>8. \A i \in 1 .. n : g[i] = step[<<i, g[i - 1]>>] BY <2>1, <2>6
  <2>9. g[0] = a BY <2>1, <2>6
  <2> HIDE DEF g
  <2>10. \A i \in 1 .. n + 1 : i \in 1 .. n \/ (i = n + 1 /\ i - 1 = n) BY <2>2
  <2>11. Solves(g, n + 1, S, a, step) BY <2>5, <2>7, <2>8, <2>9, <2>10
  <2> QED BY <2>11
<1>3. T = Nat BY <1>1, <1>2, Inductive
<1>4. N \in T /\ N <= N BY <1>3
<1> QED BY <1>4

-----------------------------------------------------------------------------
(* The header of a record: to_le_bytes and from_le_bytes. *)

\* Weight is the function that its definition says, and positive.
LEMMA Weights ==
    /\ Weight[0] = 1
    /\ \A i \in 1 .. Header : Weight[i] = Base * Weight[i - 1]
    /\ \A i \in 0 .. Header : Weight[i] \in Nat \ {0}
<1>1. Base \in Nat \ {0} /\ Header \in Nat BY RingAssumption
<1> DEFINE step == [p \in (1 .. Header) \X Nat |-> Base * p[2]]
<1>2. step \in [(1 .. Header) \X Nat -> Nat] BY <1>1
<1>3. PICK f \in [0 .. Header -> Nat] :
         f[0] = 1 /\ \A i \in 1 .. Header : f[i] = step[<<i, f[i - 1]>>]
  <2>1. 1 \in Nat OBVIOUS
  <2> HIDE DEF step
  <2>2. \E f : Solves(f, Header, Nat, 1, step) BY <1>1, <1>2, <2>1, Recursion
  <2> QED BY <2>2 DEF Solves
<1>4. \A i \in 1 .. Header : <<i, f[i - 1]>> \in (1 .. Header) \X Nat
  BY <1>1, <1>3
<1>5. f = [i \in 0 .. Header |-> IF i = 0 THEN 1 ELSE Base * f[i - 1]]
  <2>1. \A i \in 1 .. Header : step[<<i, f[i - 1]>>] = Base * f[i - 1] BY <1>4
  <2>2. \A i \in 0 .. Header : i = 0 \/ i \in 1 .. Header BY <1>1
  <2> HIDE DEF step
  <2>3. \A i \in 0 .. Header : f[i] = IF i = 0 THEN 1 ELSE Base * f[i - 1]
    BY <1>3, <2>1, <2>2
  <2> QED BY <2>3
<1> DEFINE Solved(w) == w = [i \in 0 .. Header |-> IF i = 0 THEN 1 ELSE Base * w[i - 1]]
<1>6. Weight = CHOOSE w : Solved(w) BY DEF Weight
<1>7. Solved(f) BY <1>5
<1>8. Solved(Weight)
  <2> HIDE DEF Solved
  <2> QED BY <1>6, <1>7
<1>9. Weight[0] = 1 /\ \A i \in 1 .. Header : Weight[i] = Base * Weight[i - 1]
  <2> DEFINE w == Weight
  <2>1. w = [i \in 0 .. Header |-> IF i = 0 THEN 1 ELSE Base * w[i - 1]] BY <1>8
  <2> HIDE DEF w
  <2>2. w[0] = 1 /\ \A i \in 1 .. Header : w[i] = Base * w[i - 1] BY <1>1, <2>1
  <2> QED BY <2>2 DEF w
<1> DEFINE T == {i \in Nat : i <= Header => Weight[i] \in Nat \ {0}}
<1>10. 0 \in T BY <1>9
<1>11. ASSUME NEW n \in T PROVE n + 1 \in T
  <2> SUFFICES ASSUME n + 1 <= Header PROVE Weight[n + 1] \in Nat \ {0} OBVIOUS
  <2>1. Weight[n + 1] = Base * Weight[n] /\ Weight[n] \in Nat \ {0} BY <1>1, <1>9
  <2>2. Base * Weight[n] \in Nat BY <1>1, <2>1
  <2>3. Base * Weight[n] >= Weight[n]
    <3>1. Base \in Int /\ Base >= 1 /\ Weight[n] \in Nat BY <1>1, <2>1
    <3> QED BY <3>1, Product
  <2> QED BY <2>1, <2>2, <2>3
<1>12. T = Nat BY <1>10, <1>11, Inductive
<1>13. \A i \in 0 .. Header : i \in T /\ i <= Header BY <1>1, <1>12
<1> QED BY <1>9, <1>13

\* The value of the first i bytes of a header d.
Sums(d) == CHOOSE f : f = [i \in 0 .. Header |->
                              IF i = 0 THEN 0 ELSE f[i - 1] + d[i] * Weight[i - 1]]

\* The sum that from_le_bytes makes, byte by byte.
LEMMA SumsFacts ==
    ASSUME NEW d \in [1 .. Header -> Byte]
    PROVE  /\ from_le_bytes(d) = Sums(d)[Header]
           /\ Sums(d)[0] = 0
           /\ \A i \in 1 .. Header : Sums(d)[i] = Sums(d)[i - 1] + d[i] * Weight[i - 1]
           /\ \A i \in 0 .. Header : Sums(d)[i] \in Nat
<1>1. Base \in Nat \ {0} /\ Header \in Nat BY RingAssumption
<1>2. \A i \in 1 .. Header : Weight[i - 1] \in Nat /\ d[i] \in Nat BY <1>1, Weights DEF Byte
<1>3. \A i \in 1 .. Header : d[i] * Weight[i - 1] \in Nat BY <1>2
<1> DEFINE step == [p \in (1 .. Header) \X Nat |-> p[2] + d[p[1]] * Weight[p[1] - 1]]
<1>4. step \in [(1 .. Header) \X Nat -> Nat] BY <1>3
<1>5. PICK f \in [0 .. Header -> Nat] :
         f[0] = 0 /\ \A i \in 1 .. Header : f[i] = step[<<i, f[i - 1]>>]
  <2>1. 0 \in Nat OBVIOUS
  <2> HIDE DEF step
  <2>2. \E f : Solves(f, Header, Nat, 0, step) BY <1>1, <1>4, <2>1, Recursion
  <2> QED BY <2>2 DEF Solves
<1>6. \A i \in 1 .. Header : <<i, f[i - 1]>> \in (1 .. Header) \X Nat
  BY <1>1, <1>5
<1>7. f = [i \in 0 .. Header |-> IF i = 0 THEN 0 ELSE f[i - 1] + d[i] * Weight[i - 1]]
  <2>1. \A i \in 1 .. Header : step[<<i, f[i - 1]>>] = f[i - 1] + d[i] * Weight[i - 1] BY <1>6
  <2>2. \A i \in 0 .. Header : i = 0 \/ i \in 1 .. Header BY <1>1
  <2> HIDE DEF step
  <2>3. \A i \in 0 .. Header : f[i] = IF i = 0 THEN 0 ELSE f[i - 1] + d[i] * Weight[i - 1]
    BY <1>5, <2>1, <2>2
  <2> QED BY <2>3
<1> DEFINE Solved(w) ==
      w = [i \in 0 .. Header |-> IF i = 0 THEN 0 ELSE w[i - 1] + d[i] * Weight[i - 1]]
<1>8. Sums(d) = CHOOSE w : Solved(w) BY DEF Sums
<1>9. Solved(f) BY <1>7
<1>10. Solved(Sums(d))
  <2> HIDE DEF Solved
  <2> QED BY <1>8, <1>9
<1> DEFINE w == Sums(d)
<1>11. w[0] = 0 /\ \A i \in 1 .. Header : w[i] = w[i - 1] + d[i] * Weight[i - 1]
  <2>1. w = [i \in 0 .. Header |-> IF i = 0 THEN 0 ELSE w[i - 1] + d[i] * Weight[i - 1]] BY <1>10
  <2> HIDE DEF w
  <2> QED BY <1>1, <2>1
<1>12. from_le_bytes(d) = Sums(d)[Header] BY DEF from_le_bytes, Sums
<1> HIDE DEF w
<1> DEFINE T == {i \in Nat : i <= Header => w[i] \in Nat}
<1>13. 0 \in T BY <1>11
<1>14. ASSUME NEW n \in T PROVE n + 1 \in T
  <2> SUFFICES ASSUME n + 1 <= Header PROVE w[n + 1] \in Nat OBVIOUS
  <2>1. n + 1 \in 1 .. Header /\ w[n] \in Nat BY <1>1
  <2> QED BY <1>3, <1>11, <2>1
<1>15. T = Nat BY <1>13, <1>14, Inductive
<1>16. \A i \in 0 .. Header : i \in T /\ i <= Header BY <1>1, <1>15
<1>17. \A i \in 0 .. Header : w[i] \in Nat BY <1>16
<1> QED BY <1>11, <1>12, <1>17 DEF w

\* One more digit of n.
LEMMA Digit ==
    ASSUME NEW n \in Nat, NEW w \in Nat \ {0}, NEW b \in Nat \ {0}
    PROVE  n % (b * w) = (n % w) + ((n \div w) % b) * w
<1> DEFINE q == n \div w
           r == n % w
           a == q \div b
           c == q % b
<1>1. n = w * q + r /\ r \in 0 .. w - 1 /\ q \in Nat BY Division, Remainder, Quotient
<1>2. q = b * a + c /\ c \in 0 .. b - 1 /\ a \in Nat
  <2> HIDE DEF q
  <2> QED BY <1>1, Division, Remainder, Quotient
<1>3. b * w \in Nat \ {0}
  <2>1. b * w \in Nat OBVIOUS
  <2>2. b * w >= w BY Product
  <2> QED BY <2>1, <2>2
<1> HIDE DEF q, r, a, c
<1>4. n = (b * w) * a + (w * c + r)
  <2>1. n = w * (b * a + c) + r BY <1>1, <1>2
  <2> QED BY <1>1, <1>2, <2>1
<1>5. w * c + r \in 0 .. b * w - 1
  <2>1. (b - c) * w >= w BY <1>2, Product
  <2>2. b * w - w * c >= w BY <1>2, <2>1
  <2>3. w * c \in Nat BY <1>2
  <2> QED BY <1>1, <1>3, <2>2, <2>3
<1> DEFINE m == b * w
           s == w * c + r
<1>6. n = m * a + s /\ s \in 0 .. m - 1 /\ m \in Nat \ {0} BY <1>3, <1>4, <1>5
<1>7. s = r + c * w BY <1>1, <1>2
<1> HIDE DEF m, s
<1>8. (m * a + s) % m = s BY <1>2, <1>6, Divided
<1>9. n % m = s BY <1>6, <1>8
<1> QED BY <1>7, <1>9 DEF m, q, r, c

\* The length of a packet comes back from its header.
LEMMA HeaderReadsBack ==
    ASSUME NEW n \in 0 .. MaxPacket
    PROVE  to_le_bytes(n) \in [1 .. Header -> Byte] /\ from_le_bytes(to_le_bytes(n)) = n
<1>1. /\ Base \in Nat \ {0} /\ Header \in Nat /\ MaxPacket \in Nat /\ n \in Nat
      /\ n < Weight[Header]
  <2>1. MaxPacket < Weight[Header] /\ MaxPacket \in Nat /\ Weight[Header] \in Nat
    BY RingAssumption, Weights
  <2> QED BY <2>1, RingAssumption
<1> DEFINE d == to_le_bytes(n)
<1>2. \A i \in 1 .. Header : Weight[i - 1] \in Nat \ {0} BY <1>1, Weights
<1>3. \A i \in 1 .. Header : n \div Weight[i - 1] \in Nat BY <1>1, <1>2, Quotient
<1>4. \A i \in 1 .. Header : (n \div Weight[i - 1]) % Base \in Byte BY <1>1, <1>3, Remainder DEF Byte
<1>5. d \in [1 .. Header -> Byte] /\ \A i \in 1 .. Header : d[i] = (n \div Weight[i - 1]) % Base
  BY <1>4 DEF to_le_bytes
<1> HIDE DEF d
<1> DEFINE T == {i \in Nat : i <= Header => Sums(d)[i] = n % Weight[i]}
<1>6. 0 \in T
  <2>1. n % 1 = 0
    <3>1. n % 1 \in 0 .. 1 - 1 BY <1>1, Remainder
    <3> QED BY <3>1
  <2> QED BY <1>5, <2>1, SumsFacts, Weights
<1>7. ASSUME NEW k \in T PROVE k + 1 \in T
  <2> SUFFICES ASSUME k + 1 <= Header PROVE Sums(d)[k + 1] = n % Weight[k + 1] OBVIOUS
  <2>1. k + 1 \in 1 .. Header /\ k \in 0 .. Header /\ (k + 1) - 1 = k BY <1>1
  <2>2. Sums(d)[k] = n % Weight[k] BY <2>1
  <2>3. Sums(d)[k + 1] = Sums(d)[k] + d[k + 1] * Weight[k] BY <1>5, <2>1, SumsFacts
  <2>4. d[k + 1] = (n \div Weight[k]) % Base BY <1>5, <2>1
  <2>5. Weight[k + 1] = Base * Weight[k] /\ Weight[k] \in Nat \ {0} BY <2>1, Weights
  <2>6. n % (Base * Weight[k]) = (n % Weight[k]) + ((n \div Weight[k]) % Base) * Weight[k]
    BY <1>1, <2>5, Digit
  <2> QED BY <2>2, <2>3, <2>4, <2>5, <2>6
<1>8. T = Nat BY <1>6, <1>7, Inductive
<1>9. Sums(d)[Header] = n % Weight[Header]
  <2>1. Header \in T /\ Header <= Header BY <1>1, <1>8
  <2> QED BY <2>1
<1>10. n % Weight[Header] = n
  <2> DEFINE m == Weight[Header]
  <2>1. m \in Nat \ {0} /\ n \in 0 .. m - 1 BY <1>1, Weights
  <2> HIDE DEF m
  <2>2. (m * 0 + n) % m = n BY <2>1, Divided
  <2>3. m * 0 + n = n BY <2>1
  <2> QED BY <2>2, <2>3 DEF m
<1>11. from_le_bytes(d) = Sums(d)[Header] BY <1>5, SumsFacts
<1> QED BY <1>5, <1>9, <1>10, <1>11 DEF d

-----------------------------------------------------------------------------
(* Cells of the buffer.  An index and the offset of a cell agree modulo the   *)
(* capacity, which divides the range of the indices.                          *)

\* A cell is one of the buffer.
LEMMA CellType == ASSUME NEW x \in Nat PROVE Cell(x) \in 0 .. Capacity - 1
<1>1. Capacity \in Nat \ {0} BY RingAssumption
<1> QED BY <1>1, Remainder DEF Cell

\* Offsets of one cell stay so when the same is added to both.
LEMMA CellsMoveTogether ==
    ASSUME NEW x \in Nat, NEW y \in Nat, NEW k \in Nat, Cell(x) = Cell(y)
    PROVE  Cell(x + k) = Cell(y + k)
<1> DEFINE m == Capacity
<1>0. m \in Nat \ {0} BY RingAssumption
<1> HIDE DEF m
<1>1. /\ x = m * (x \div m) + (x % m) /\ x \div m \in Nat /\ x % m \in 0 .. m - 1
      /\ y = m * (y \div m) + (y % m) /\ y \div m \in Nat
  BY <1>0, Division, Remainder, Quotient
<1> DEFINE r == (x % m) + k
<1>2. x % m = y % m BY DEF Cell, m
<1>3. r \in Nat /\ x + k = r + m * (x \div m) /\ y + k = r + m * (y \div m) BY <1>0, <1>1, <1>2
<1> HIDE DEF r
<1>4. (r + m * (x \div m)) % m = r % m BY <1>0, <1>1, <1>3, Multiple
<1>5. (r + m * (y \div m)) % m = r % m BY <1>0, <1>1, <1>3, Multiple
<1> QED BY <1>3, <1>4, <1>5 DEF Cell, m

\* Offsets less than the capacity apart are of different cells.
LEMMA CellsApart ==
    ASSUME NEW x \in Nat, NEW y \in Nat, Cell(x) = Cell(y), x - y < Capacity, y - x < Capacity
    PROVE  x = y
<1> DEFINE m == Capacity
<1>0. m \in Nat \ {0} /\ x - y < m /\ y - x < m BY RingAssumption
<1> HIDE DEF m
<1>1. /\ x = m * (x \div m) + (x % m) /\ x \div m \in Nat /\ x % m \in 0 .. m - 1
      /\ y = m * (y \div m) + (y % m) /\ y \div m \in Nat
  BY <1>0, Division, Remainder, Quotient
<1> DEFINE a == (x \div m) - (y \div m)
<1>2. x % m = y % m BY DEF Cell, m
<1>3. a \in Int /\ x - y = a * m BY <1>0, <1>1, <1>2
<1> HIDE DEF a
<1>4. CASE a >= 1
  <2>1. a * m >= m BY <1>0, <1>3, <1>4, Product
  <2> QED BY <1>0, <1>3, <2>1
<1>5. CASE -a >= 1
  <2>1. (-a) * m >= m BY <1>0, <1>3, <1>5, Product
  <2> QED BY <1>0, <1>3, <2>1
<1>6. CASE a = 0 BY <1>0, <1>3, <1>6
<1> QED BY <1>3, <1>4, <1>5, <1>6

\* An index that wraps stays with its cell.
LEMMA CellOfSum ==
    ASSUME NEW i \in Nat, NEW n \in Nat
    PROVE  Add(i, n) \in Nat /\ Cell(Add(i, n)) = Cell(i + n)
<1>1. Capacity \in Nat \ {0} /\ Modulus \in Nat BY RingAssumption
<1>2. PICK k \in 1 .. Modulus : Modulus = k * Capacity BY RingAssumption
<1>3. k \in Nat /\ Modulus = Capacity * k BY <1>1, <1>2
<1>4. CASE i + n < Modulus BY <1>4 DEF Add
<1>5. CASE ~(i + n < Modulus)
  <2> DEFINE x == i + n - Modulus
  <2>1. x \in Nat /\ Add(i, n) = x BY <1>1, <1>5 DEF Add
  <2> HIDE DEF x
  <2>2. (x + Capacity * k) % Capacity = x % Capacity BY <1>1, <1>3, <2>1, Multiple
  <2>3. x + Capacity * k = i + n BY <1>1, <1>3 DEF x
  <2> QED BY <2>1, <2>2, <2>3 DEF Cell
<1> QED BY <1>4, <1>5

\* The cell at distance x of index t; index i is the one that is there.
Slot(t, x) == Cell(t + x)
Follows(i, t, x) == i \in Nat /\ Cell(i) = Slot(t, x)

\* The same of a distance.
LEMMA SlotType ==
    ASSUME NEW t \in Nat, NEW x \in Nat
    PROVE  Slot(t, x) \in 0 .. Capacity - 1
<1>1. t + x \in Nat OBVIOUS
<1> QED BY <1>1, CellType DEF Slot

\* wrapping_add moves an index as far from t as it is told.
LEMMA CellThatFollows ==
    ASSUME NEW t \in Nat, NEW x \in Nat, NEW i, Follows(i, t, x), NEW n \in Nat
    PROVE  Cell(Add(i, n)) = Slot(t, x + n) /\ Follows(Add(i, n), t, x + n)
<1> DEFINE y == t + x
<1>1. y \in Nat /\ y + n = t + (x + n) OBVIOUS
<1>2. i \in Nat /\ Cell(i) = Cell(y) BY DEF Follows, Slot
<1> HIDE DEF y
<1>3. Cell(i + n) = Cell(y + n) BY <1>1, <1>2, CellsMoveTogether
<1>4. Add(i, n) \in Nat /\ Cell(Add(i, n)) = Cell(i + n) BY <1>2, CellOfSum
<1> QED BY <1>1, <1>3, <1>4 DEF Follows, Slot

\* Cells at different distances within the capacity are different.
LEMMA CellsDiffer ==
    ASSUME NEW t \in Nat, NEW x \in 0 .. Capacity - 1, NEW y \in 0 .. Capacity - 1,
           Slot(t, x) = Slot(t, y)
    PROVE  x = y
<1> DEFINE a == t + x
           b == t + y
<1>1. a \in Nat /\ b \in Nat /\ a - b < Capacity /\ b - a < Capacity /\ (a = b => x = y)
  BY RingAssumption
<1>2. Cell(a) = Cell(b) BY DEF Slot
<1> HIDE DEF a, b
<1> QED BY <1>1, <1>2, CellsApart

Memory == [0 .. Capacity - 1 -> Byte]

\* Buffer w has source at distance x of t, and is as b elsewhere.
Wrote(w, b, t, x, source) ==
    /\ w \in Memory
    /\ \A i \in 1 .. Len(source) : w[Slot(t, x + (i - 1))] = source[i]
    /\ \A y \in 0 .. Capacity - 1 :
          y < x \/ y >= x + Len(source) => w[Slot(t, y)] = b[Slot(t, y)]

\* The n bytes at distance x of t.
Window(b, t, x, n) == [i \in 1 .. n |-> b[Slot(t, x + (i - 1))]]

\* What write_wrapped leaves in the buffer.
LEMMA Written ==
    ASSUME NEW b \in Memory, NEW source \in Seq(Byte),
           NEW t \in Nat, NEW x \in Nat, NEW o, Follows(o, t, x), x + Len(source) <= Capacity
    PROVE  Wrote(write_wrapped(b, o, source), b, t, x, source)
<1> DEFINE n == Len(source)
           w == write_wrapped(b, o, source)
           Hit(i, c) == Cell(Add(o, i - 1)) = c
<1>1. Capacity \in Nat \ {0} /\ n \in Nat BY RingAssumption
<1>2. \A i \in 1 .. n : source[i] \in Byte OBVIOUS
<1>3. w = [c \in 0 .. Capacity - 1 |->
             IF \E i \in 1 .. n : Hit(i, c) THEN source[CHOOSE i \in 1 .. n : Hit(i, c)] ELSE b[c]]
  BY DEF write_wrapped
<1>4. ASSUME NEW i \in 1 .. n, NEW c PROVE Hit(i, c) <=> Slot(t, x + (i - 1)) = c
  <2> DEFINE k == i - 1
  <2>1. k \in Nat BY <1>1
  <2> HIDE DEF k
  <2>2. Cell(Add(o, k)) = Slot(t, x + k) BY <2>1, CellThatFollows
  <2> QED BY <2>2 DEF k
<1> HIDE DEF Hit, n, w
<1>5. \A i \in 1 .. n : x + (i - 1) \in 0 .. Capacity - 1
  BY <1>1 DEF n
<1>6. ASSUME NEW i \in 1 .. n, NEW j \in 1 .. n, NEW c, Hit(i, c), Hit(j, c) PROVE i = j
  <2>1. Slot(t, x + (i - 1)) = Slot(t, x + (j - 1)) BY <1>4, <1>5, <1>6
  <2>2. x + (i - 1) = x + (j - 1) BY <1>5, <2>1, CellsDiffer
  <2> QED BY <1>1, <2>2
<1>7. w \in Memory
  <2>1. ASSUME NEW c \in 0 .. Capacity - 1 PROVE w[c] \in Byte
    <3>1. CASE \E i \in 1 .. n : Hit(i, c)
      <4>1. (CHOOSE i \in 1 .. n : Hit(i, c)) \in 1 .. n BY <3>1
      <4> QED BY <1>2, <1>3, <3>1, <4>1 DEF n
    <3>2. CASE ~ \E i \in 1 .. n : Hit(i, c) BY <1>3, <3>2 DEF Memory
    <3> QED BY <3>1, <3>2
  <2> QED BY <1>3, <2>1 DEF Memory
<1>8. ASSUME NEW i \in 1 .. n PROVE w[Slot(t, x + (i - 1))] = source[i]
  <2> DEFINE c == Slot(t, x + (i - 1))
  <2>1. Hit(i, c) BY <1>4
  <2>2. c \in 0 .. Capacity - 1
    <3> DEFINE k == x + (i - 1)
    <3>1. k \in Nat BY <1>1, <1>5
    <3> HIDE DEF k
    <3>2. Slot(t, k) \in 0 .. Capacity - 1 BY <3>1, SlotType
    <3> QED BY <3>2 DEF k
  <2> HIDE DEF c
  <2>3. (CHOOSE j \in 1 .. n : Hit(j, c)) = i BY <1>6, <2>1
  <2> QED BY <1>3, <2>1, <2>2, <2>3 DEF c
<1>9. ASSUME NEW y \in 0 .. Capacity - 1, y < x \/ y >= x + n
      PROVE  w[Slot(t, y)] = b[Slot(t, y)]
  <2> DEFINE c == Slot(t, y)
  <2>1. y \in Nat BY <1>1
  <2>2. c \in 0 .. Capacity - 1 BY <2>1, SlotType
  <2>3. ASSUME NEW i \in 1 .. n, Hit(i, c) PROVE FALSE
    <3>1. Slot(t, x + (i - 1)) = Slot(t, y) BY <1>4, <1>5, <2>3
    <3>2. x + (i - 1) = y BY <1>5, <3>1, CellsDiffer
    <3> QED BY <1>1, <1>9, <3>2
  <2> HIDE DEF c
  <2> QED BY <1>3, <2>2, <2>3 DEF c
<1> QED BY <1>7, <1>8, <1>9 DEF n, w, Wrote

\* What read_wrapped finds at distance x.
LEMMA ReadAt ==
    ASSUME NEW b \in Memory, NEW t \in Nat, NEW x \in Nat, NEW o,
           Follows(o, t, x), NEW n \in Nat
    PROVE  read_wrapped(b, o, n) = Window(b, t, x, n) /\ Window(b, t, x, n) \in [1 .. n -> Byte]
<1>1. ASSUME NEW i \in 1 .. n
      PROVE  Cell(Add(o, i - 1)) = Slot(t, x + (i - 1)) /\ Slot(t, x + (i - 1)) \in 0 .. Capacity - 1
  <2> DEFINE k == i - 1
  <2>1. k \in Nat OBVIOUS
  <2> HIDE DEF k
  <2>2. x + k \in Nat BY <2>1
  <2>3. Slot(t, x + k) \in 0 .. Capacity - 1 BY <2>2, SlotType
  <2>4. Cell(Add(o, k)) = Slot(t, x + k) BY <2>1, CellThatFollows
  <2> QED BY <2>3, <2>4 DEF k
<1> QED BY <1>1 DEF read_wrapped, Window, Memory

\* A read that ends before what was written, and a read of it.
LEMMA ReadElsewhere ==
    ASSUME NEW b \in Memory, NEW source \in Seq(Byte), NEW t \in Nat,
           NEW x \in Nat, NEW o, Follows(o, t, x), x + Len(source) <= Capacity,
           NEW y \in Nat, NEW p, Follows(p, t, y), NEW n \in Nat, y + n <= x
    PROVE  read_wrapped(write_wrapped(b, o, source), p, n) = read_wrapped(b, p, n)
<1> DEFINE w == write_wrapped(b, o, source)
<1>1. Wrote(w, b, t, x, source) BY Written
<1>2. Capacity \in Nat \ {0} /\ Len(source) \in Nat BY RingAssumption
<1> HIDE DEF w
<1>3. w \in Memory
      /\ \A z \in 0 .. Capacity - 1 : z < x => w[Slot(t, z)] = b[Slot(t, z)]
  BY <1>1 DEF Wrote
<1>4. \A i \in 1 .. n : y + (i - 1) \in 0 .. Capacity - 1 /\ y + (i - 1) < x BY <1>2
<1>5. Window(w, t, y, n) = Window(b, t, y, n) BY <1>3, <1>4 DEF Window
<1>6. ASSUME NEW v \in Memory PROVE read_wrapped(v, p, n) = Window(v, t, y, n)
  BY ReadAt
<1>7. w \in Memory BY <1>3
<1> QED BY <1>5, <1>6, <1>7 DEF w

\* The first n bytes of a source.
First(source, n) == [i \in 1 .. n |-> source[i]]

\* A read finds the first bytes of what was written at its offset.
LEMMA ReadBack ==
    ASSUME NEW b \in Memory, NEW source \in Seq(Byte), NEW t \in Nat,
           NEW x \in Nat, NEW o, Follows(o, t, x), x + Len(source) <= Capacity,
           NEW n \in 0 .. Len(source)
    PROVE  read_wrapped(write_wrapped(b, o, source), o, n) = First(source, n)
<1> DEFINE w == write_wrapped(b, o, source)
<1>1. Wrote(w, b, t, x, source) BY Written
<1>2. n \in Nat /\ \A i \in 1 .. n : i \in 1 .. Len(source) OBVIOUS
<1> HIDE DEF w
<1>3. w \in Memory
      /\ \A i \in 1 .. Len(source) : w[Slot(t, x + (i - 1))] = source[i]
  BY <1>1 DEF Wrote
<1>4. read_wrapped(w, o, n) = Window(w, t, x, n)
  <2>1. w \in Memory /\ n \in Nat BY <1>2, <1>3
  <2> QED BY <2>1, ReadAt
<1>5. Window(w, t, x, n) = First(source, n) BY <1>2, <1>3 DEF Window, First
<1> QED BY <1>4, <1>5 DEF w

-----------------------------------------------------------------------------
(* Records in the buffer.  A record is named by its distance u to the head h. *)

LengthIn(b, h, u) == from_le_bytes(read_wrapped(b, Sub(h, u), Header))
SizeIn(b, h, u) == aligned_record_bytes(LengthIn(b, h, u))
PacketIn(b, h, u) == read_wrapped(b, Add(Sub(h, u), Header), LengthIn(b, h, u))

\* The records between tail t and head h start exactly at the distances in S.
Framed(S, b, h, t) ==
    /\ S \subseteq 0 .. Sub(h, t) /\ 0 \in S /\ Sub(h, t) \in S
    /\ \A u \in S \ {0} :
          /\ LengthIn(b, h, u) \in 1 .. MaxPacket
          /\ SizeIn(b, h, u) <= u /\ u - SizeIn(b, h, u) \in S
          /\ \A v \in S : v < u => v <= u - SizeIn(b, h, u)

\* A record has room for its header and its packet.
LEMMA RecordSize ==
    ASSUME NEW n \in Nat
    PROVE  aligned_record_bytes(n) \in Nat /\ aligned_record_bytes(n) >= Header + n
<1>1. Header \in Nat \ {0} BY RingAssumption
<1> DEFINE x == Header + n + Header - 1
           q == x \div Header
           r == x % Header
<1>2. x \in Nat BY <1>1
<1> HIDE DEF x
<1>3. x = Header * q + r /\ r \in 0 .. Header - 1 /\ q \in Nat
  BY <1>1, <1>2, Division, Remainder, Quotient
<1> HIDE DEF q, r
<1>4. q * Header \in Nat /\ q * Header >= x - (Header - 1) BY <1>1, <1>2, <1>3
<1>5. aligned_record_bytes(n) = q * Header BY DEF aligned_record_bytes, q, x
<1> QED BY <1>1, <1>4, <1>5 DEF x

\* Where the indices are, seen from the tail.
LEMMA Places ==
    ASSUME NEW h \in Index, NEW t \in Index, NEW u \in 0 .. Sub(h, t)
    PROVE  /\ Sub(h, u) \in Index /\ Sub(h, t) \in Nat
           /\ Follows(Sub(h, u), t, Sub(h, t) - u)
           /\ Sub(h, 0) = h /\ Sub(h, Sub(h, t)) = t
<1>1. Modulus \in Nat /\ h \in 0 .. Modulus - 1 /\ t \in 0 .. Modulus - 1
  BY RingAssumption DEF Index
<1>2. /\ Sub(h, t) \in Index /\ Sub(h, t) \in Nat /\ u \in Nat /\ u < Modulus
      /\ Sub(h, u) \in Index /\ Sub(h, 0) = h /\ Sub(h, Sub(h, t)) = t
  BY <1>1 DEF Sub, Index
<1>3. \/ t + (Sub(h, t) - u) = Sub(h, u)
      \/ t + (Sub(h, t) - u) = Sub(h, u) + Modulus
  BY <1>1, <1>2 DEF Sub
<1>4. Cell(Sub(h, u) + Modulus) = Cell(Sub(h, u))
  <2> DEFINE i == Sub(h, u)
  <2>1. i \in Nat BY <1>2 DEF Index
  <2> HIDE DEF i
  <2>2. Cell(Add(i, Modulus)) = Cell(i + Modulus) BY <1>1, <2>1, CellOfSum
  <2>3. Add(i, Modulus) = i BY <1>1, <2>1 DEF Add
  <2> QED BY <2>2, <2>3 DEF i
<1> QED BY <1>2, <1>3, <1>4 DEF Follows, Slot, Index

\* The length in a header of any bytes is a number.
LEMMA LengthType ==
    ASSUME NEW b \in Memory, NEW h \in Index, NEW t \in Index, NEW u \in 0 .. Sub(h, t)
    PROVE  LengthIn(b, h, u) \in Nat
<1> DEFINE o == Sub(h, u)
           x == Sub(h, t) - u
           d == read_wrapped(b, o, Header)
<1>1. Follows(o, t, x) /\ x \in Nat /\ t \in Nat /\ Header \in Nat
  BY Places, RingAssumption DEF Index
<1> HIDE DEF o, x
<1>2. d \in [1 .. Header -> Byte] BY <1>1, ReadAt
<1> HIDE DEF d
<1>3. from_le_bytes(d) = Sums(d)[Header] /\ Sums(d)[Header] \in Nat
  <2>1. Header \in 0 .. Header BY <1>1
  <2> QED BY <1>2, <2>1, SumsFacts
<1> QED BY <1>3 DEF LengthIn, d, o

\* A copy behind the head leaves the records alone.
LEMMA WriteKeepsRecord ==
    ASSUME NEW b \in Memory, NEW h \in Index, NEW t \in Index, NEW u \in 1 .. Sub(h, t),
           SizeIn(b, h, u) <= u,
           NEW source \in Seq(Byte), NEW x \in Nat, NEW o, Follows(o, t, x),
           Sub(h, t) <= x, x + Len(source) <= Capacity
    PROVE  /\ LengthIn(write_wrapped(b, o, source), h, u) = LengthIn(b, h, u)
           /\ SizeIn(write_wrapped(b, o, source), h, u) = SizeIn(b, h, u)
           /\ PacketIn(write_wrapped(b, o, source), h, u) = PacketIn(b, h, u)
<1> DEFINE w == write_wrapped(b, o, source)
           n == LengthIn(b, h, u)
           p == Sub(h, u)
           y == Sub(h, t) - u
           k == Add(p, Header)
<1>1. /\ Follows(p, t, y) /\ y \in Nat /\ t \in Nat /\ Header \in Nat /\ Sub(h, t) \in Nat
      /\ u \in Nat
  BY Places, RingAssumption DEF Index
<1>2. n \in Nat BY LengthType
<1>3. aligned_record_bytes(n) \in Nat /\ aligned_record_bytes(n) >= Header + n
  <2> HIDE DEF n
  <2> QED BY <1>2, RecordSize
<1>4. Header + n <= u BY <1>1, <1>2, <1>3 DEF SizeIn
<1>5. y + Header \in Nat /\ y + Header <= x /\ (y + Header) + n <= x BY <1>1, <1>2, <1>4
<1> HIDE DEF p, y, n
<1>6. Follows(k, t, y + Header) BY <1>1, CellThatFollows
<1> HIDE DEF k
<1>7. read_wrapped(w, p, Header) = read_wrapped(b, p, Header)
  BY <1>1, <1>5, ReadElsewhere
<1>8. read_wrapped(w, k, n) = read_wrapped(b, k, n)
  <2> DEFINE z == y + Header
  <2>1. z \in Nat /\ z + n <= x /\ Follows(k, t, z) BY <1>5, <1>6
  <2> HIDE DEF z
  <2> QED BY <1>1, <1>2, <2>1, ReadElsewhere
<1>9. LengthIn(w, h, u) = n BY <1>7 DEF LengthIn, n, p
<1>10. PacketIn(w, h, u) = read_wrapped(w, k, n) BY <1>9 DEF PacketIn, k, p
<1>11. PacketIn(b, h, u) = read_wrapped(b, k, n) BY DEF PacketIn, k, p, n
<1> QED BY <1>8, <1>9, <1>10, <1>11 DEF SizeIn, n

\* Neither where records start nor what they hold changes by it.
LEMMA WriteKeepsFrame ==
    ASSUME NEW b \in Memory, NEW h \in Index, NEW t \in Index, NEW S, Framed(S, b, h, t),
           NEW source \in Seq(Byte), NEW x \in Nat, NEW o, Follows(o, t, x),
           Sub(h, t) <= x, x + Len(source) <= Capacity
    PROVE  /\ Framed(S, write_wrapped(b, o, source), h, t)
           /\ \A u \in S \ {0} :
                /\ LengthIn(write_wrapped(b, o, source), h, u) = LengthIn(b, h, u)
                /\ SizeIn(write_wrapped(b, o, source), h, u) = SizeIn(b, h, u)
                /\ PacketIn(write_wrapped(b, o, source), h, u) = PacketIn(b, h, u)
<1> DEFINE w == write_wrapped(b, o, source)
<1>1. ASSUME NEW u \in S \ {0}
      PROVE  /\ LengthIn(w, h, u) = LengthIn(b, h, u) /\ SizeIn(w, h, u) = SizeIn(b, h, u)
             /\ PacketIn(w, h, u) = PacketIn(b, h, u)
  <2>1. Sub(h, t) \in Nat
    <3>1. 0 \in 0 .. Sub(h, t) BY DEF Framed
    <3> QED BY <3>1, Places
  <2>2. u \in 1 .. Sub(h, t) /\ SizeIn(b, h, u) <= u BY <2>1 DEF Framed
  <2> QED BY <2>2, WriteKeepsRecord
<1> HIDE DEF w
<1>2. Framed(S, w, h, t) BY <1>1 DEF Framed
<1> QED BY <1>1, <1>2 DEF w

\* A head that moves leaves the records where they are.
LEMMA MovedHead ==
    ASSUME NEW h \in Index, NEW t \in Index, NEW s \in Nat, Sub(h, t) + s <= Capacity
    PROVE  /\ Add(h, s) \in Index /\ Sub(Add(h, s), t) = Sub(h, t) + s
           /\ \A u \in 0 .. Sub(h, t) : Sub(Add(h, s), u + s) = Sub(h, u)
<1>1. Capacity \in Nat /\ Modulus \in Nat /\ Capacity < Modulus BY RingAssumption
<1>2. Sub(h, t) \in Nat BY <1>1 DEF Sub, Index
<1>3. Add(h, s) \in Index /\ Sub(Add(h, s), t) = Sub(h, t) + s
  BY <1>1, <1>2 DEF Sub, Add, Index
<1>4. ASSUME NEW u \in 0 .. Sub(h, t) PROVE Sub(Add(h, s), u + s) = Sub(h, u)
  <2>1. u \in Nat /\ u + s < Modulus BY <1>1, <1>2
  <2> QED BY <1>1, <2>1 DEF Sub, Add, Index
<1> QED BY <1>3, <1>4

\* PublishHead appends a record: every other one is further from the head.
LEMMA PublishFrames ==
    ASSUME NEW b, NEW h \in Index, NEW t \in Index, NEW S, Framed(S, b, h, t),
           NEW s \in Nat \ {0}, Sub(h, t) + s <= Capacity,
           LengthIn(b, h, 0) \in 1 .. MaxPacket, SizeIn(b, h, 0) = s
    PROVE  /\ Framed({u + s : u \in S} \union {0}, b, Add(h, s), t)
           /\ \A u \in S : /\ LengthIn(b, Add(h, s), u + s) = LengthIn(b, h, u)
                           /\ SizeIn(b, Add(h, s), u + s) = SizeIn(b, h, u)
                           /\ PacketIn(b, Add(h, s), u + s) = PacketIn(b, h, u)
<1> DEFINE g == Add(h, s)
           U == Sub(h, t)
           N == {u + s : u \in S} \union {0}
<1>1. g \in Index /\ Sub(g, t) = U + s /\ \A u \in 0 .. U : Sub(g, u + s) = Sub(h, u)
  BY MovedHead
<1>2. U \in Nat
  <2>1. 0 \in 0 .. Sub(h, t) BY DEF Framed
  <2> QED BY <2>1, Places
<1> HIDE DEF g
<1>3. S \subseteq 0 .. U /\ 0 \in S /\ U \in S BY DEF Framed
<1>4. \A u \in S : /\ LengthIn(b, g, u + s) = LengthIn(b, h, u)
                   /\ PacketIn(b, g, u + s) = PacketIn(b, h, u)
  BY <1>1, <1>3 DEF LengthIn, PacketIn
<1>5. \A u \in S : SizeIn(b, g, u + s) = SizeIn(b, h, u) BY <1>4 DEF SizeIn
<1>6. \A u \in S \ {0} : /\ LengthIn(b, h, u) \in 1 .. MaxPacket
                         /\ SizeIn(b, h, u) <= u /\ u - SizeIn(b, h, u) \in S
                         /\ \A v \in S : v < u => v <= u - SizeIn(b, h, u)
  BY DEF Framed
<1>7. MaxPacket \in Nat /\ \A u \in S : SizeIn(b, h, u) \in Nat
  <2>1. MaxPacket \in Nat BY RingAssumption
  <2>2. \A u \in S : LengthIn(b, h, u) \in Nat BY <1>6, <2>1
  <2> QED BY <2>1, <2>2, RecordSize DEF SizeIn
<1> HIDE DEF U
<1>8. N \subseteq 0 .. U + s /\ 0 \in N /\ U + s \in N BY <1>2, <1>3
<1>9. ASSUME NEW w \in N \ {0}
      PROVE  /\ LengthIn(b, g, w) \in 1 .. MaxPacket
             /\ SizeIn(b, g, w) <= w /\ w - SizeIn(b, g, w) \in N
             /\ \A v \in N : v < w => v <= w - SizeIn(b, g, w)
  <2>1. PICK u \in S : w = u + s OBVIOUS
  <2>2. LengthIn(b, g, w) = LengthIn(b, h, u) /\ SizeIn(b, g, w) = SizeIn(b, h, u) BY <1>4, <1>5, <2>1
  <2>3. u \in Nat BY <1>2, <1>3
  <2>4. \A v \in N : v = 0 \/ \E y \in S : v = y + s /\ y \in Nat BY <1>2, <1>3
  <2>5. CASE u = 0
    <3>1. SizeIn(b, g, w) = s /\ w = s BY <2>1, <2>2, <2>5
    <3>2. \A v \in N : v < w => v = 0 BY <2>4, <3>1
    <3> QED BY <2>2, <2>5, <3>1, <3>2, <1>8
  <2>6. CASE u # 0
    <3> DEFINE z == SizeIn(b, h, u)
    <3>1. /\ LengthIn(b, h, u) \in 1 .. MaxPacket /\ z \in Nat /\ z <= u /\ u - z \in S
          /\ \A v \in S : v < u => v <= u - z
      BY <1>6, <1>7, <2>6
    <3> HIDE DEF z
    <3>2. w - z = (u - z) + s BY <2>1, <2>3, <3>1
    <3>3. w - z \in N BY <3>1, <3>2
    <3>4. ASSUME NEW v \in N, v < w PROVE v <= w - z
      <4>1. CASE v = 0 BY <2>1, <2>3, <3>1, <4>1
      <4>2. ASSUME NEW y \in S, v = y + s, y \in Nat PROVE v <= w - z
        <5>1. y < u BY <2>1, <2>3, <3>4, <4>2
        <5>2. y <= u - z BY <3>1, <5>1
        <5> QED BY <2>1, <2>3, <3>1, <4>2, <5>2
      <4> QED BY <2>4, <4>1, <4>2
    <3>5. z <= w BY <2>1, <2>3, <3>1
    <3>6. SizeIn(b, g, w) = z BY <2>2 DEF z
    <3> QED BY <2>2, <3>1, <3>3, <3>4, <3>5, <3>6
  <2> QED BY <2>5, <2>6
<1>10. Framed(N, b, g, t)
  <2>1. Sub(g, t) = U + s BY <1>1
  <2> HIDE DEF N
  <2> QED BY <1>8, <1>9, <2>1 DEF Framed
<1> QED BY <1>4, <1>5, <1>10 DEF g

\* ReleaseTail takes the oldest record away.
LEMMA ReleaseFrames ==
    ASSUME NEW b, NEW h \in Index, NEW t \in Index, NEW S, Framed(S, b, h, t), Sub(h, t) # 0,
           NEW s \in Nat, s = SizeIn(b, h, Sub(h, t))
    PROVE  /\ Add(t, s) \in Index /\ Sub(h, Add(t, s)) = Sub(h, t) - s
           /\ Framed(S \cap (0 .. Sub(h, t) - s), b, h, Add(t, s))
<1> DEFINE U == Sub(h, t)
           e == Add(t, s)
           N == S \cap (0 .. U - s)
<1>1. S \subseteq 0 .. U /\ 0 \in S /\ U \in S BY DEF Framed
<1>2. U \in Nat
  <2>1. 0 \in 0 .. Sub(h, t) BY <1>1
  <2> QED BY <2>1, Places
<1>3. s <= U /\ U - s \in S BY <1>1 DEF Framed
<1>4. e \in Index /\ Sub(h, e) = U - s
  <2>1. Modulus \in Nat BY RingAssumption
  <2> QED BY <1>3, <2>1 DEF Add, Sub, Index
<1>5. \A u \in S \ {0} : /\ LengthIn(b, h, u) \in 1 .. MaxPacket
                         /\ SizeIn(b, h, u) <= u /\ u - SizeIn(b, h, u) \in S
                         /\ \A v \in S : v < u => v <= u - SizeIn(b, h, u)
  BY DEF Framed
<1>6. MaxPacket \in Nat /\ \A u \in S \ {0} : SizeIn(b, h, u) \in Nat
  <2>1. MaxPacket \in Nat BY RingAssumption
  <2>2. \A u \in S \ {0} : LengthIn(b, h, u) \in Nat BY <1>5, <2>1
  <2> QED BY <2>1, <2>2, RecordSize DEF SizeIn
<1> HIDE DEF U, e
<1>7. N \subseteq 0 .. U - s /\ 0 \in N /\ U - s \in N BY <1>1, <1>2, <1>3
<1>8. ASSUME NEW u \in N \ {0} PROVE u - SizeIn(b, h, u) \in N
  <2>1. u \in S \ {0} /\ u \in Nat /\ u <= U - s BY <1>2, <1>3
  <2> DEFINE z == SizeIn(b, h, u)
  <2>2. z \in Nat /\ z <= u /\ u - z \in S BY <1>5, <1>6, <2>1
  <2> HIDE DEF z
  <2>3. u - z \in 0 .. U - s BY <1>2, <1>3, <2>1, <2>2
  <2> QED BY <2>2, <2>3 DEF z
<1>9. Framed(N, b, h, e)
  <2>1. N \subseteq S OBVIOUS
  <2> HIDE DEF N
  <2> QED BY <1>4, <1>5, <1>7, <1>8, <2>1 DEF Framed
<1> QED BY <1>4, <1>9 DEF U, e

-----------------------------------------------------------------------------
(* The packets that a buffer decodes to: Decoded, of any buffer and head.     *)

Link(R, u, items, back, stop) ==
    IF u = 0 THEN <<>> ELSE IF u \in stop THEN <<<<>>>> ELSE <<items[u]>> \o R[back[u]]

Linked(R, N, items, back, stop) == R = [u \in 0 .. N |-> Link(R, u, items, back, stop)]
Backwards(N, back, stop) == \A u \in (1 .. N) \ stop : back[u] \in Nat /\ back[u] < u

\* A function that goes on at an earlier argument, or stops, exists.
LEMMA ChainExists ==
    ASSUME NEW N \in Nat, NEW items, NEW back, NEW stop, Backwards(N, back, stop)
    PROVE  \E R : Linked(R, N, items, back, stop)
<1> USE DEF Linked, Backwards
<1> DEFINE T == {n \in Nat : n <= N => \E R : R = [u \in 0 .. n |-> Link(R, u, items, back, stop)]}
<1>1. 0 \in T
  <2> DEFINE R == [u \in 0 .. 0 |-> <<>>]
  <2>1. \A u \in 0 .. 0 : Link(R, u, items, back, stop) = <<>> BY DEF Link
  <2>2. R = [u \in 0 .. 0 |-> Link(R, u, items, back, stop)] BY <2>1
  <2> HIDE DEF R
  <2> QED BY <2>2
<1>2. ASSUME NEW n \in T PROVE n + 1 \in T
  <2> SUFFICES ASSUME n + 1 <= N
               PROVE  \E R : R = [u \in 0 .. n + 1 |-> Link(R, u, items, back, stop)]
    OBVIOUS
  <2>1. PICK R : R = [u \in 0 .. n |-> Link(R, u, items, back, stop)] OBVIOUS
  <2> DEFINE g == [u \in 0 .. n + 1 |->
                      IF u <= n THEN R[u] ELSE Link(R, n + 1, items, back, stop)]
  <2>2. n \in Nat OBVIOUS
  <2>3. \A u \in 0 .. n : g[u] = R[u] BY <2>2
  <2>4. \A u \in 0 .. n + 1 : u # 0 /\ u \notin stop => back[u] \in 0 .. n BY <2>2
  <2>5. g[n + 1] = Link(R, n + 1, items, back, stop) BY <2>2
  <2>6. g = [u \in 0 .. n + 1 |-> g[u]] OBVIOUS
  <2> HIDE DEF g
  <2>7. \A u \in 0 .. n + 1 :
           Link(g, u, items, back, stop) = Link(R, u, items, back, stop)
    BY <2>3, <2>4 DEF Link
  <2>8. \A u \in 0 .. n : R[u] = Link(R, u, items, back, stop) BY <2>1
  <2>9. \A u \in 0 .. n + 1 : u \in 0 .. n \/ u = n + 1 BY <2>2
  <2>10. \A u \in 0 .. n + 1 : g[u] = Link(g, u, items, back, stop)
    BY <2>3, <2>5, <2>7, <2>8, <2>9
  <2>11. g = [u \in 0 .. n + 1 |-> Link(g, u, items, back, stop)] BY <2>6, <2>10
  <2> QED BY <2>11
<1>3. T = Nat BY <1>1, <1>2, Inductive
<1>4. N \in T /\ N <= N BY <1>3
<1> QED BY <1>4

DecodedIn(b, h) ==
    CHOOSE R : R = [u \in 0 .. Capacity |->
        IF u = 0 THEN <<>>
        ELSE IF LengthIn(b, h, u) = 0 \/ SizeIn(b, h, u) > u THEN <<<<>>>>
        ELSE <<PacketIn(b, h, u)>> \o R[u - SizeIn(b, h, u)]]

\* The queue of the refinement, now and after a step.
LEMMA DecodedNow ==
    /\ Records = DecodedIn(buffer, head)[Sub(head, tail)]
    /\ Records' = DecodedIn(buffer', head')[Sub(head', tail')]
<1>1. Decoded = DecodedIn(buffer, head)
  BY DEF Decoded, DecodedIn, LengthIn, SizeIn, PacketIn
<1>2. Decoded' = DecodedIn(buffer', head')
  BY DEF Decoded, DecodedIn, LengthIn, SizeIn, PacketIn
<1> QED BY <1>1, <1>2 DEF Records

\* Decoded is the function that its definition says.
LEMMA DecodedUnfolds ==
    ASSUME NEW b \in Memory, NEW h \in Index
    PROVE  /\ DecodedIn(b, h)[0] = <<>>
           /\ \A u \in 1 .. Capacity :
                LengthIn(b, h, u) # 0 /\ SizeIn(b, h, u) <= u =>
                    DecodedIn(b, h)[u] = <<PacketIn(b, h, u)>> \o DecodedIn(b, h)[u - SizeIn(b, h, u)]
<1> DEFINE t == Sub(h, Capacity)
<1>1. Capacity \in Nat \ {0} /\ t \in Index /\ Sub(h, t) = Capacity
  BY RingAssumption DEF Sub, Index
<1> HIDE DEF t
<1>2. \A u \in 0 .. Capacity : LengthIn(b, h, u) \in Nat
  BY <1>1, LengthType
<1>3. \A u \in 0 .. Capacity : /\ SizeIn(b, h, u) \in Nat
                               /\ LengthIn(b, h, u) # 0 => SizeIn(b, h, u) > 0
  <2>1. Header \in Nat BY RingAssumption
  <2>2. ASSUME NEW n \in Nat PROVE aligned_record_bytes(n) \in Nat /\ (n # 0 => aligned_record_bytes(n) > 0)
    <3>1. aligned_record_bytes(n) \in Nat /\ aligned_record_bytes(n) >= Header + n BY RecordSize
    <3> QED BY <2>1, <3>1
  <2> QED BY <1>2, <2>2 DEF SizeIn
<1> DEFINE items == [u \in 1 .. Capacity |-> PacketIn(b, h, u)]
           back == [u \in 1 .. Capacity |-> u - SizeIn(b, h, u)]
           stop == {u \in 1 .. Capacity : LengthIn(b, h, u) = 0 \/ SizeIn(b, h, u) > u}
           Value(R, u) == IF u = 0 THEN <<>>
                          ELSE IF LengthIn(b, h, u) = 0 \/ SizeIn(b, h, u) > u THEN <<<<>>>>
                          ELSE <<PacketIn(b, h, u)>> \o R[u - SizeIn(b, h, u)]
           Solved(R) == R = [u \in 0 .. Capacity |-> Value(R, u)]
<1>4. Backwards(Capacity, back, stop) BY <1>1, <1>2, <1>3 DEF Backwards
<1>5. \E R : R = [u \in 0 .. Capacity |-> Link(R, u, items, back, stop)]
  <2> HIDE DEF items, back, stop
  <2>1. \E R : Linked(R, Capacity, items, back, stop) BY <1>1, <1>4, ChainExists
  <2> QED BY <2>1 DEF Linked
<1>6. \A R : \A u \in 0 .. Capacity : Link(R, u, items, back, stop) = Value(R, u)
  <2>1. \A u \in 0 .. Capacity : u = 0 \/ u \in 1 .. Capacity BY <1>1
  <2> QED BY <2>1 DEF Link
<1>7. \E R : Solved(R) BY <1>5, <1>6
<1> DEFINE D == DecodedIn(b, h)
<1>8. D = CHOOSE R : Solved(R) BY DEF DecodedIn
<1>9. Solved(D)
  <2> HIDE DEF Solved, D
  <2> QED BY <1>7, <1>8
<1>10. \A u \in 0 .. Capacity : D[u] = Value(D, u)
  <2> HIDE DEF D, Value
  <2> QED BY <1>9
<1>11. D[0] = <<>>
  <2>1. 0 \in 0 .. Capacity BY <1>1
  <2> HIDE DEF D
  <2> QED BY <1>10, <2>1
<1>12. ASSUME NEW u \in 1 .. Capacity, LengthIn(b, h, u) # 0, SizeIn(b, h, u) <= u
       PROVE  D[u] = <<PacketIn(b, h, u)>> \o D[u - SizeIn(b, h, u)]
  <2>1. u \in 0 .. Capacity /\ u # 0 BY <1>1
  <2>2. ~(SizeIn(b, h, u) > u) BY <1>3, <1>12, <2>1
  <2> HIDE DEF D
  <2> QED BY <1>10, <1>12, <2>1, <2>2
<1> QED BY <1>11, <1>12

\* Record by record.
LEMMA FrameUnfolds ==
    ASSUME NEW b \in Memory, NEW h \in Index, NEW t \in Index, Sub(h, t) <= Capacity,
           NEW S, Framed(S, b, h, t)
    PROVE  /\ S \subseteq Nat /\ DecodedIn(b, h)[0] = <<>>
           /\ \A u \in S \ {0} :
                /\ SizeIn(b, h, u) \in Nat \ {0} /\ u - SizeIn(b, h, u) \in S
                /\ SizeIn(b, h, u) <= u
                /\ PacketIn(b, h, u) \in Seq(Byte)
                /\ Len(PacketIn(b, h, u)) = LengthIn(b, h, u)
                /\ DecodedIn(b, h)[u] =
                     <<PacketIn(b, h, u)>> \o DecodedIn(b, h)[u - SizeIn(b, h, u)]
<1>1. Capacity \in Nat /\ MaxPacket \in Nat /\ Header \in Nat BY RingAssumption
<1>2. Sub(h, t) \in Nat
  <2>1. 0 \in 0 .. Sub(h, t) BY DEF Framed
  <2> QED BY <2>1, Places
<1>3. S \subseteq 0 .. Sub(h, t) BY DEF Framed
<1>4. DecodedIn(b, h)[0] = <<>> BY DecodedUnfolds
<1>5. ASSUME NEW u \in S \ {0}
      PROVE  /\ SizeIn(b, h, u) \in Nat \ {0} /\ u - SizeIn(b, h, u) \in S
             /\ SizeIn(b, h, u) <= u
             /\ PacketIn(b, h, u) \in Seq(Byte)
             /\ Len(PacketIn(b, h, u)) = LengthIn(b, h, u)
             /\ DecodedIn(b, h)[u] =
                  <<PacketIn(b, h, u)>> \o DecodedIn(b, h)[u - SizeIn(b, h, u)]
  <2> DEFINE n == LengthIn(b, h, u)
             i == Sub(h, u)
             x == Sub(h, t) - u
             k == Add(i, Header)
             z == SizeIn(b, h, u)
  <2>1. /\ n \in 1 .. MaxPacket /\ z <= u /\ u - z \in S BY DEF Framed
  <2>2. /\ u \in 1 .. Capacity /\ u \in 0 .. Sub(h, t) /\ u \in Nat BY <1>1, <1>2, <1>3
  <2>3. n \in Nat /\ n # 0 BY <1>1, <2>1
  <2>4. z \in Nat \ {0}
    <3> HIDE DEF n
    <3>1. aligned_record_bytes(n) \in Nat /\ aligned_record_bytes(n) >= Header + n BY <2>3, RecordSize
    <3> QED BY <1>1, <2>3, <3>1 DEF SizeIn, n
  <2>5. DecodedIn(b, h)[u] = <<PacketIn(b, h, u)>> \o DecodedIn(b, h)[u - z]
    BY <2>1, <2>2, <2>3, DecodedUnfolds
  <2>6. Follows(i, t, x) /\ x \in Nat /\ t \in Nat BY <1>2, <2>2, Places DEF Index
  <2>7. PacketIn(b, h, u) = read_wrapped(b, k, n) BY DEF PacketIn
  <2> HIDE DEF i, x, n, z
  <2>8. Follows(k, t, x + Header) BY <1>1, <2>6, CellThatFollows
  <2> HIDE DEF k
  <2>9. read_wrapped(b, k, n) \in [1 .. n -> Byte]
    <3> DEFINE y == x + Header
    <3>1. y \in Nat /\ Follows(k, t, y) BY <1>1, <2>6, <2>8
    <3> HIDE DEF y
    <3>2. read_wrapped(b, k, n) = Window(b, t, y, n) /\ Window(b, t, y, n) \in [1 .. n -> Byte]
      BY <2>3, <2>6, <3>1, ReadAt
    <3> QED BY <3>2
  <2>10. PacketIn(b, h, u) \in Seq(Byte) /\ Len(PacketIn(b, h, u)) = n BY <2>3, <2>7, <2>9
  <2> QED BY <2>1, <2>4, <2>5, <2>10 DEF n, z
<1>6. S \subseteq Nat BY <1>2, <1>3
<1> QED BY <1>4, <1>5, <1>6

\* What holds of 0, and of every record if it holds of the one after it, holds
\* of all.
Passed(S, G, size) ==
    \A u \in S \ {0} : /\ size[u] \in Nat \ {0} /\ u - size[u] \in S
                       /\ u - size[u] \in G => u \in G

\* Otherwise the least record of which it does not hold has one after it.
LEMMA Recordwise ==
    ASSUME NEW S, S \subseteq Nat, NEW G, 0 \in G, NEW size, Passed(S, G, size)
    PROVE  S \subseteq G
<1> USE DEF Passed
<1> SUFFICES ASSUME ~(S \subseteq G) PROVE FALSE OBVIOUS
<1>1. S \ G # {} /\ S \ G \subseteq Nat OBVIOUS
<1>2. PICK u \in S \ G : \A v \in S \ G : u <= v BY <1>1, LeastNumber
<1>3. u \in S \ {0} /\ u \in Nat OBVIOUS
<1>4. size[u] \in Nat \ {0} /\ u - size[u] \in S /\ u - size[u] \in Nat BY <1>3
<1>5. u - size[u] \in S \ G BY <1>3, <1>4
<1>6. u <= u - size[u] BY <1>2, <1>5
<1> QED BY <1>3, <1>4, <1>6

\* Published records decode to packets.
LEMMA DecodedType ==
    ASSUME NEW b \in Memory, NEW h \in Index, NEW t \in Index, Sub(h, t) <= Capacity,
           NEW S, Framed(S, b, h, t)
    PROVE  \A u \in S : DecodedIn(b, h)[u] \in Seq(Seq(Byte))
<1> DEFINE D == DecodedIn(b, h)
           G == {u \in S : D[u] \in Seq(Seq(Byte))}
           size == [u \in S |-> SizeIn(b, h, u)]
<1>1. S \subseteq Nat /\ 0 \in S BY FrameUnfolds DEF Framed
<1>2. 0 \in G
  <2>1. D[0] = <<>> BY FrameUnfolds
  <2> DEFINE T == Seq(Byte)
  <2>2. <<>> \in Seq(T)
    <3> HIDE DEF T
    <3> QED OBVIOUS
  <2> HIDE DEF D
  <2>3. D[0] \in Seq(Seq(Byte)) BY <2>1, <2>2
  <2> QED BY <1>1, <2>3
<1>3. ASSUME NEW u \in S \ {0}
      PROVE  size[u] \in Nat \ {0} /\ u - size[u] \in S /\ (u - size[u] \in G => u \in G)
  <2>1. /\ size[u] \in Nat \ {0} /\ u - size[u] \in S /\ PacketIn(b, h, u) \in Seq(Byte)
        /\ D[u] = <<PacketIn(b, h, u)>> \o D[u - size[u]]
    BY FrameUnfolds
  <2> HIDE DEF D, size
  <2>2. ASSUME D[u - size[u]] \in Seq(Seq(Byte)) PROVE D[u] \in Seq(Seq(Byte))
    <3> DEFINE T == Seq(Byte)
               q == D[u - size[u]]
    <3>1. PacketIn(b, h, u) \in T /\ q \in Seq(T) /\ D[u] = <<PacketIn(b, h, u)>> \o q BY <2>1, <2>2
    <3> HIDE DEF T, q
    <3>2. <<PacketIn(b, h, u)>> \o q \in Seq(T) BY <3>1
    <3> QED BY <3>1, <3>2 DEF T
  <2> QED BY <2>1, <2>2
<1> HIDE DEF G, size
<1>4. Passed(S, G, size) BY <1>3 DEF Passed
<1>5. S \subseteq G BY <1>1, <1>2, <1>4, Recordwise
<1> QED BY <1>5 DEF G

\* A copy behind the head changes nothing of what is decoded.
LEMMA WriteKeepsDecoded ==
    ASSUME NEW b \in Memory, NEW h \in Index, NEW t \in Index, NEW S, Framed(S, b, h, t),
           NEW source \in Seq(Byte), NEW x \in Nat, NEW o, Follows(o, t, x),
           Sub(h, t) <= x, x + Len(source) <= Capacity
    PROVE  DecodedIn(write_wrapped(b, o, source), h)[Sub(h, t)] = DecodedIn(b, h)[Sub(h, t)]
<1> DEFINE w == write_wrapped(b, o, source)
           D == DecodedIn(b, h)
           E == DecodedIn(w, h)
           G == {u \in S : D[u] = E[u]}
           size == [u \in S |-> SizeIn(b, h, u)]
<1>1. /\ Framed(S, w, h, t)
      /\ \A u \in S \ {0} : /\ SizeIn(w, h, u) = SizeIn(b, h, u)
                            /\ PacketIn(w, h, u) = PacketIn(b, h, u)
  BY WriteKeepsFrame
<1>2. w \in Memory
  <2>1. t \in Nat BY RingAssumption DEF Index
  <2>2. Wrote(w, b, t, x, source) BY <2>1, Written
  <2> HIDE DEF w
  <2> QED BY <2>2 DEF Wrote
<1>3. Sub(h, t) <= Capacity /\ Sub(h, t) \in S /\ 0 \in S
  <2>1. 0 \in 0 .. Sub(h, t) /\ Sub(h, t) \in S /\ 0 \in S BY DEF Framed
  <2>2. Sub(h, t) \in Nat BY <2>1, Places
  <2> QED BY <2>1, <2>2, RingAssumption
<1> HIDE DEF w
<1>4. S \subseteq Nat /\ D[0] = <<>> /\ E[0] = <<>> BY <1>1, <1>2, <1>3, FrameUnfolds
<1>5. ASSUME NEW u \in S \ {0}
      PROVE  size[u] \in Nat \ {0} /\ u - size[u] \in S /\ (u - size[u] \in G => u \in G)
  <2>1. /\ size[u] \in Nat \ {0} /\ u - size[u] \in S
        /\ D[u] = <<PacketIn(b, h, u)>> \o D[u - size[u]]
    BY <1>3, FrameUnfolds
  <2>2. E[u] = <<PacketIn(w, h, u)>> \o E[u - SizeIn(w, h, u)] BY <1>1, <1>2, <1>3, FrameUnfolds
  <2>3. E[u] = <<PacketIn(b, h, u)>> \o E[u - size[u]] BY <1>1, <2>2
  <2> HIDE DEF D, E, size
  <2> QED BY <2>1, <2>3
<1>6. 0 \in G BY <1>3, <1>4
<1> HIDE DEF G, size
<1>7. Passed(S, G, size) BY <1>5 DEF Passed
<1>8. S \subseteq G BY <1>4, <1>6, <1>7, Recordwise
<1>9. Sub(h, t) \in G BY <1>3, <1>8
<1> QED BY <1>9 DEF G, w

\* PublishHead appends the packet to what the buffer decodes to.
LEMMA PublishAppends ==
    ASSUME NEW b \in Memory, NEW h \in Index, NEW t \in Index, NEW S, Framed(S, b, h, t),
           NEW s \in Nat \ {0}, Sub(h, t) + s <= Capacity,
           LengthIn(b, h, 0) \in 1 .. MaxPacket, SizeIn(b, h, 0) = s
    PROVE  DecodedIn(b, Add(h, s))[Sub(h, t) + s] =
               Append(DecodedIn(b, h)[Sub(h, t)], PacketIn(b, h, 0))
<1> DEFINE g == Add(h, s)
           N == {u + s : u \in S} \union {0}
           D == DecodedIn(b, h)
           E == DecodedIn(b, g)
           p == PacketIn(b, h, 0)
           G == {u \in S : E[u + s] = Append(D[u], p)}
           size == [u \in S |-> SizeIn(b, h, u)]
<1>1. /\ Framed(N, b, g, t)
      /\ \A u \in S : /\ SizeIn(b, g, u + s) = SizeIn(b, h, u)
                      /\ PacketIn(b, g, u + s) = PacketIn(b, h, u)
  BY PublishFrames
<1>2. g \in Index /\ Sub(g, t) = Sub(h, t) + s BY MovedHead
<1>3. Sub(h, t) <= Capacity /\ Sub(g, t) <= Capacity /\ Sub(h, t) \in S /\ 0 \in S
  <2>1. 0 \in 0 .. Sub(h, t) /\ Sub(h, t) \in S /\ 0 \in S BY DEF Framed
  <2>2. Sub(h, t) \in Nat BY <2>1, Places
  <2> QED BY <1>2, <2>1, <2>2, RingAssumption
<1> HIDE DEF g, N
<1>4. S \subseteq Nat /\ D[0] = <<>> /\ E[0] = <<>> BY <1>1, <1>2, <1>3, FrameUnfolds
<1>5. \A u \in S : u + s \in N \ {0}
  <2>1. S \subseteq Nat BY <1>4
  <2>2. \A u \in S : u + s # 0 BY <2>1
  <2>3. \A u \in S : u + s \in N BY DEF N
  <2> QED BY <2>2, <2>3
<1>6. ASSUME NEW u \in S
      PROVE  E[u + s] = <<PacketIn(b, h, u)>> \o E[(u + s) - SizeIn(b, h, u)]
             /\ PacketIn(b, h, u) \in Seq(Byte)
  <2> DEFINE v == u + s
  <2>1. v \in N \ {0} BY <1>5
  <2>2. SizeIn(b, g, v) = SizeIn(b, h, u) /\ PacketIn(b, g, v) = PacketIn(b, h, u) BY <1>1
  <2> HIDE DEF v
  <2>3. E[v] = <<PacketIn(b, g, v)>> \o E[v - SizeIn(b, g, v)] /\ PacketIn(b, g, v) \in Seq(Byte)
    BY <1>1, <1>2, <1>3, <2>1, FrameUnfolds
  <2> HIDE DEF E
  <2> QED BY <2>2, <2>3 DEF v
<1>7. \A u \in S : D[u] \in Seq(Seq(Byte)) BY <1>3, DecodedType
<1>8. 0 \in G
  <2>1. E[0 + s] = <<p>> \o E[(0 + s) - SizeIn(b, h, 0)] BY <1>3, <1>6
  <2>2. (0 + s) - SizeIn(b, h, 0) = 0 OBVIOUS
  <2>3. p \in Seq(Byte) BY <1>3, <1>6
  <2> HIDE DEF D, E, p
  <2>4. E[0 + s] = <<p>> \o <<>> BY <1>4, <2>1, <2>2
  <2>5. <<p>> \o <<>> = Append(<<>>, p) BY <2>3
  <2> QED BY <1>3, <1>4, <2>4, <2>5
<1>9. ASSUME NEW u \in S \ {0}
      PROVE  size[u] \in Nat \ {0} /\ u - size[u] \in S /\ (u - size[u] \in G => u \in G)
  <2>1. /\ size[u] \in Nat \ {0} /\ u - size[u] \in S /\ size[u] = SizeIn(b, h, u)
        /\ D[u] = <<PacketIn(b, h, u)>> \o D[u - size[u]]
    BY <1>3, FrameUnfolds
  <2>2. ASSUME u - size[u] \in G PROVE u \in G
    <3> DEFINE v == u - size[u]
               a == PacketIn(b, h, u)
    <3>1. u \in Nat /\ v \in S /\ (u + s) - size[u] = v + s
      <4> DEFINE z == size[u]
      <4>1. S \subseteq Nat BY <1>4
      <4>2. z \in Nat /\ u - z \in S BY <2>1
      <4> HIDE DEF z
      <4>3. u \in Nat /\ (u + s) - z = (u - z) + s BY <4>1, <4>2
      <4> QED BY <4>2, <4>3 DEF z
    <3>2. E[u + s] = <<a>> \o E[v + s] /\ a \in Seq(Byte) BY <1>6, <2>1, <3>1
    <3>3. E[v + s] = Append(D[v], p) BY <2>2
    <3>4. D[v] \in Seq(Seq(Byte)) /\ D[u] = <<a>> \o D[v] /\ p \in Seq(Byte)
      BY <1>3, <1>6, <1>7, <2>1, <3>1
    <3> HIDE DEF D, E, p, v, a
    <3>5. <<a>> \o Append(D[v], p) = Append(<<a>> \o D[v], p)
      <4> DEFINE q == D[v]
                 T == Seq(Byte)
      <4>1. q \in Seq(T) /\ a \in T /\ p \in T BY <3>2, <3>4
      <4> HIDE DEF q, T
      <4>2. <<a>> \o Append(q, p) = Append(<<a>> \o q, p) BY <4>1
      <4> QED BY <4>2 DEF q
    <3> QED BY <3>2, <3>3, <3>4, <3>5
  <2> QED BY <2>1, <2>2
<1> HIDE DEF G, size
<1>10. Passed(S, G, size) BY <1>9 DEF Passed
<1>11. S \subseteq G BY <1>4, <1>8, <1>10, Recordwise
<1>12. Sub(h, t) \in G BY <1>3, <1>11
<1> QED BY <1>12 DEF G, g

-----------------------------------------------------------------------------
(***************************************************************************)
(* One ring: what is written never reaches what is unread, and what is     *)
(* read is published, for every capacity, index width and packet size.     *)
(***************************************************************************)
\* The part of TypeOK that the accounting needs: no byte matters to it.
Accounts ==
    /\ head \in Index /\ tail \in Index
    /\ prod \in [pc : ProducerLabels, packet : {prod.packet}, seen : Index, size : Nat]
    /\ cons \in [pc : ConsumerLabels, packet : {cons.packet}, seen : Nat, size : Nat]

Used == Sub(head, tail)

\* Inductive: what try_push_inner and try_pop_into computed from an index
\* that they loaded is a safe bound for the index as it is now, because the
\* other side only ever moves it in their favour.
RingInv ==
    /\ Accounts
    /\ Used <= Capacity
    /\ prod.pc = "check" => Used <= Sub(head, prod.seen) /\ Sub(head, prod.seen) <= Capacity
    /\ prod.pc \in {"header", "payload", "publish"} => Used + prod.size <= Capacity
    /\ prod.pc # "corrupt"
    /\ cons.pc \in {"length", "copy", "release"} => cons.seen <= Used
    /\ cons.pc \in {"copy", "release"} => aligned_record_bytes(cons.size) <= cons.seen
    /\ cons.pc # "corrupt"

\* wrapping_add moves an index forward by what it is given: the distance to
\* any index behind it grows by as much, while it stays within the modulus.
LEMMA AddForward ==
    ASSUME NEW i \in Index, NEW j \in Index, NEW n \in Nat, Sub(i, j) + n < Modulus
    PROVE  Add(i, n) \in Index /\ Sub(Add(i, n), j) = Sub(i, j) + n
BY RingAssumption DEF Add, Sub, Index

\* A consumer that releases no more than is used brings its index closer.
LEMMA AddBehind ==
    ASSUME NEW i \in Index, NEW j \in Index, NEW n \in Nat, n <= Sub(i, j)
    PROVE  Add(j, n) \in Index /\ Sub(i, Add(j, n)) = Sub(i, j) - n
BY RingAssumption DEF Add, Sub, Index

\* wrapping_sub of two indices is an index.
LEMMA Distance ==
    ASSUME NEW i \in Index, NEW j \in Index
    PROVE  Sub(i, j) \in Index
BY RingAssumption DEF Sub, Index

\* A ring that `initialize' returns satisfies the accounting.
LEMMA InitRing == RingInit => RingInv
<1> SUFFICES ASSUME RingInit PROVE RingInv
  OBVIOUS
<1>1. Accounts
  BY RingAssumption DEF RingInit, RingIdle, Accounts, Index, ProducerLabels, ConsumerLabels
<1>2. Used = 0
  BY RingAssumption DEF RingInit, Used, Sub
<1> QED
  BY <1>1, <1>2, RingAssumption DEF RingInit, RingIdle, RingInv

\* Every load, copy and store of push and pop keeps the accounting.
LEMMA StepRing == RingInv /\ [RingNext]_ringVars => RingInv'
<1> SUFFICES ASSUME RingInv, [RingNext]_ringVars PROVE RingInv'
  OBVIOUS
<1> USE DEF RingInv
<1>1. /\ Used \in Nat /\ Capacity \in Nat /\ Used <= Capacity /\ Capacity < Modulus
      /\ Modulus \in Nat /\ 0 \in Index
      /\ \A i \in Index : i \in Nat /\ Sub(head, i) \in Nat
  BY Distance, RingAssumption DEF Used, Index, Accounts
<1>2. ASSUME NEW p \in Packets, LoadTail(p) PROVE RingInv'
  <2>1. Len(p) \in Nat
    BY RingAssumption
  <2>2. aligned_record_bytes(Len(p)) \in Nat
    BY <2>1, RecordSize
  <2>3. Accounts'
    BY <1>2, <2>2, <1>1 DEF LoadTail, Accounts, RingIdle, ProducerLabels
  <2>4. Used' = Used
    BY <1>2 DEF LoadTail, Used
  <2> QED
    BY <1>2, <2>3, <2>4, <1>1 DEF LoadTail, RingIdle, Used
<1>3. ASSUME NEW count \in BOOLEAN, CheckSpace(count) PROVE RingInv'
  <2>1. /\ prod.pc = "check" /\ Sub(head, prod.seen) <= Capacity
        /\ Used <= Sub(head, prod.seen) /\ Sub(head, prod.seen) \in Nat
        /\ prod.size \in Nat
    BY <1>3, <1>1 DEF CheckSpace, Accounts
  <2>2. \/ prod' = RingIdle
        \/ /\ prod' = [prod EXCEPT !.pc = "header"]
           /\ prod.size <= Capacity - Sub(head, prod.seen)
    BY <1>3, <2>1, <1>1 DEF CheckSpace
  <2>3. UNCHANGED <<head, tail, cons>> /\ Used' = Used
    BY <1>3 DEF CheckSpace, Used
  <2>4. Accounts'
    BY <2>2, <2>3, <1>1 DEF Accounts, RingIdle, ProducerLabels
  <2>5. prod'.pc = "idle" \/ (prod'.pc = "header" /\ Used + prod'.size <= Capacity)
    BY <2>1, <2>2, <1>1 DEF RingIdle, Accounts
  <2> QED
    BY <2>3, <2>4, <2>5, <1>1
<1>4. ASSUME WriteHeader \/ WritePayload PROVE RingInv'
  <2>1. /\ prod.pc \in {"header", "payload"}
        /\ prod' \in {[prod EXCEPT !.pc = "payload"], [prod EXCEPT !.pc = "publish"]}
        /\ UNCHANGED <<head, tail, cons>> /\ Used' = Used
    BY <1>4 DEF WriteHeader, WritePayload, Used
  <2>2. Accounts' /\ prod'.size = prod.size /\ prod'.pc \in {"payload", "publish"}
    BY <2>1 DEF Accounts, ProducerLabels
  <2> QED
    BY <2>1, <2>2, <1>1
<1>5. ASSUME PublishHead PROVE RingInv'
  <2>1. /\ prod.pc = "publish" /\ Used + prod.size <= Capacity /\ prod.size \in Nat
        /\ head' = Add(head, prod.size) /\ prod' = RingIdle /\ UNCHANGED <<tail, cons>>
    BY <1>5 DEF PublishHead, Accounts
  <2>2. head' \in Index /\ Used' = Used + prod.size
    BY <2>1, <1>1, AddForward DEF Used, Accounts
  <2>3. Accounts'
    BY <2>1, <2>2, <1>1 DEF Accounts, RingIdle, ProducerLabels
  <2> QED
    BY <2>1, <2>2, <2>3, <1>1 DEF RingIdle, Accounts
<1>6. ASSUME LoadHead PROVE RingInv'
  <2>1. UNCHANGED <<head, tail, prod>> /\ Used' = Used
    BY <1>6 DEF LoadHead, Used
  <2>2. /\ cons' = [cons EXCEPT !.seen = Used, !.pc = cons'.pc]
        /\ cons'.pc \in {"idle", "truncated", "length"}
    BY <1>6, <1>1 DEF LoadHead, Used, Accounts
  <2>3. Accounts' /\ cons'.seen = Used
    BY <2>1, <2>2, <1>1 DEF Accounts, ConsumerLabels
  <2> QED
    BY <2>1, <2>2, <2>3, <1>1
<1>7. ASSUME ReadLength PROVE RingInv'
  <2>1. UNCHANGED <<head, tail, prod>> /\ Used' = Used /\ cons.pc = "length"
    BY <1>7 DEF ReadLength, Used
  <2> DEFINE n == from_le_bytes(read_wrapped(buffer, tail, Header))
  <2>2. \/ cons' = [cons EXCEPT !.pc = "size_error"]
        \/ cons' = [cons EXCEPT !.pc = "truncated"]
        \/ /\ cons' = [cons EXCEPT !.pc = "copy", !.size = n]
           /\ n \in 1 .. MaxPacket
           /\ ~ (aligned_record_bytes(n) > cons.seen)
    BY <1>7 DEF ReadLength
  <2> HIDE DEF n
  <2>3. n \in 1 .. MaxPacket => n \in Nat /\ aligned_record_bytes(n) \in Nat
    <3>1. n \in 1 .. MaxPacket => n \in Nat
      BY RingAssumption
    <3> QED
      BY <3>1, RecordSize
  <2>4. Accounts'
    BY <2>1, <2>2, <2>3 DEF Accounts, ConsumerLabels
  <2>5. \/ cons'.pc \in {"size_error", "truncated"}
        \/ /\ cons'.pc = "copy" /\ cons'.seen = cons.seen
           /\ aligned_record_bytes(cons'.size) <= cons.seen
    <3>1. CASE /\ cons' = [cons EXCEPT !.pc = "copy", !.size = n]
               /\ n \in 1 .. MaxPacket
               /\ ~ (aligned_record_bytes(n) > cons.seen)
      <4>1. cons'.pc = "copy" /\ cons'.seen = cons.seen /\ cons'.size = n
        BY <3>1 DEF Accounts
      <4>2. cons.seen \in Nat
        BY DEF Accounts
      <4> QED
        BY <2>3, <3>1, <4>1, <4>2
    <3> QED
      BY <2>2, <3>1 DEF Accounts
  <2> QED
    BY <2>1, <2>4, <2>5, <1>1
<1>8. ASSUME ReadPayload PROVE RingInv'
  <2>1. UNCHANGED <<head, tail, prod>> /\ Used' = Used /\ cons.pc = "copy"
    BY <1>8 DEF ReadPayload, Used
  <2>2. Accounts' /\ cons'.pc = "release" /\ cons'.seen = cons.seen /\ cons'.size = cons.size
    BY <1>8, <2>1 DEF ReadPayload, Accounts, ConsumerLabels
  <2> QED
    BY <2>1, <2>2, <1>1
<1>9. ASSUME ReleaseTail PROVE RingInv'
  <2> DEFINE size == aligned_record_bytes(cons.size)
  <2>1. /\ cons.pc = "release" /\ tail' = Add(tail, size) /\ cons' = RingIdle
        /\ UNCHANGED <<head, prod>>
    BY <1>9 DEF ReleaseTail
  <2>2. size \in Nat /\ size <= Used
    BY <2>1, <1>1, RecordSize DEF Accounts
  <2> HIDE DEF size
  <2>3. tail' \in Index /\ Used' = Used - size
    BY <2>1, <2>2, AddBehind DEF Used, Accounts
  <2>4. Accounts'
    BY <2>1, <2>3, <1>1 DEF Accounts, RingIdle, ConsumerLabels
  <2>5. prod.size \in Nat /\ (prod.pc = "check" => Sub(head, prod.seen) \in Nat)
    BY <1>1 DEF Accounts
  <2>6. cons'.pc = "idle"
    BY <2>1 DEF RingIdle
  <2> QED
    BY <2>1, <2>2, <2>3, <2>4, <2>5, <2>6, <1>1
<1>10. CASE UNCHANGED ringVars
  BY <1>10 DEF ringVars, Accounts, Used
<1> QED
  BY <1>2, <1>3, <1>4, <1>5, <1>6, <1>7, <1>8, <1>9, <1>10 DEF RingNext, Producer, Consumer

\* For every capacity, index width that it divides and set of packets, the
\* producer's copy stays clear of the unread records and the consumer's copy
\* stays within the published ones.
THEOREM RingNeverOverwrites == SpecRing => []NoOverwrite
<1>1. RingInv => NoOverwrite
  <2> SUFFICES ASSUME RingInv PROVE NoOverwrite
    OBVIOUS
  <2>1. Used \in Nat /\ Used = Sub(head, tail)
    BY Distance DEF RingInv, Accounts, Used, Index
  <2>2. cons.pc \in {"copy", "release"} => aligned_record_bytes(cons.size) \in Nat
    BY RecordSize DEF RingInv, Accounts
  <2> QED
    BY <2>1, <2>2 DEF RingInv, NoOverwrite, Accounts
<1> QED
  BY <1>1, InitRing, StepRing, PTL DEF SpecRing

-----------------------------------------------------------------------------
(***************************************************************************)
(* What the bytes of the ring are.                                         *)
(***************************************************************************)
\* What try_push_inner has copied behind the head.
Writing ==
    /\ prod.pc \in {"check", "header", "payload", "publish"} =>
         prod.packet \in Accepted /\ prod.size = RecordBytes(prod.packet)
    /\ prod.pc \in {"payload", "publish"} =>
         read_wrapped(buffer, head, Header) = to_le_bytes(Len(prod.packet))
    /\ prod.pc = "publish" =>
         read_wrapped(buffer, Add(head, Header), Len(prod.packet)) = prod.packet

\* What try_pop_into has read is the oldest record, as it is now.
Reading ==
    /\ cons.pc \in {"copy", "release"} => Used # 0 /\ cons.size = LengthIn(buffer, head, Used)
    /\ cons.pc = "release" => cons.packet = PacketIn(buffer, head, Used)
    /\ cons.pc \notin {"corrupt", "truncated", "size_error"}

\* The published bytes are whole records, and the head that the consumer
\* loaded was the end of one of them.
Framing(S) ==
    /\ Framed(S, buffer, head, tail)
    /\ cons.pc = "length" => Used - cons.seen \in S /\ cons.seen # 0

WholeRecords == \E S : Framing(S)

\* Inductive.
ByteInv == RingInv /\ buffer \in Memory /\ Writing /\ Reading /\ WholeRecords

\* What the invariant says of the variables.
LEMMA ByteFacts ==
    ASSUME ByteInv
    PROVE  /\ buffer \in Memory /\ head \in Index /\ tail \in Index /\ tail \in Nat
           /\ Used = Sub(head, tail) /\ Used \in Nat /\ Used <= Capacity
           /\ Follows(head, tail, Used) /\ Sub(head, Used) = tail /\ Sub(head, 0) = head
           /\ Capacity \in Nat /\ Header \in Nat /\ MaxPacket \in Nat
           /\ prod.size \in Nat /\ cons.seen \in Nat /\ cons.size \in Nat
<1>1. head \in Index /\ tail \in Index /\ prod.size \in Nat /\ cons.seen \in Nat /\ cons.size \in Nat
  BY DEF ByteInv, RingInv, Accounts
<1>2. Used = Sub(head, tail) BY DEF Used
<1>3. tail \in Nat /\ Used \in Nat BY <1>1, <1>2, Distance, RingAssumption DEF Index
<1>4. 0 \in 0 .. Sub(head, tail) /\ Sub(head, tail) - 0 = Sub(head, tail) BY <1>2, <1>3
<1>5. Sub(head, Used) = tail /\ Sub(head, 0) = head /\ Follows(head, tail, Used)
  <2>1. /\ Sub(head, 0) = head /\ Sub(head, Sub(head, tail)) = tail
        /\ Follows(Sub(head, 0), tail, Sub(head, tail) - 0)
    BY <1>1, <1>4, Places
  <2> QED BY <1>2, <1>4, <2>1
<1> QED BY <1>1, <1>2, <1>3, <1>5, RingAssumption DEF ByteInv, RingInv

\* A packet that is being written.
LEMMA PacketFacts ==
    ASSUME ByteInv, prod.pc \in {"check", "header", "payload", "publish"}
    PROVE  /\ prod.packet \in Seq(Byte) /\ Len(prod.packet) \in 1 .. MaxPacket
           /\ Len(prod.packet) \in Nat
           /\ prod.size = aligned_record_bytes(Len(prod.packet))
           /\ prod.size \in Nat /\ prod.size >= Header + Len(prod.packet)
           /\ to_le_bytes(Len(prod.packet)) \in [1 .. Header -> Byte]
           /\ from_le_bytes(to_le_bytes(Len(prod.packet))) = Len(prod.packet)
<1> DEFINE n == Len(prod.packet)
<1>1. prod.packet \in Accepted /\ prod.size = RecordBytes(prod.packet) BY DEF ByteInv, Writing
<1>2. /\ prod.packet \in Seq(Byte) /\ n \in 1 .. MaxPacket /\ n \in Nat /\ MaxPacket \in Nat
      /\ prod.size = aligned_record_bytes(n)
  BY <1>1, RingAssumption DEF Accepted, RecordBytes
<1> HIDE DEF n
<1>3. prod.size \in Nat /\ prod.size >= Header + n BY <1>2, RecordSize
<1>4. n \in 0 .. MaxPacket BY <1>2
<1>5. to_le_bytes(n) \in [1 .. Header -> Byte] /\ from_le_bytes(to_le_bytes(n)) = n
  BY <1>4, HeaderReadsBack
<1> QED BY <1>2, <1>3, <1>5 DEF n

\* A copy of the producer.
LEMMA CopyKeeps ==
    ASSUME ByteInv, NEW source \in Seq(Byte), NEW x \in Nat, NEW o, Follows(o, tail, x),
           Used <= x, x + Len(source) <= Capacity,
           buffer' = write_wrapped(buffer, o, source), UNCHANGED <<head, tail, cons>>
    PROVE  buffer' \in Memory /\ Reading' /\ WholeRecords' /\ Records' = Records
<1> DEFINE w == write_wrapped(buffer, o, source)
<1>1. /\ buffer \in Memory /\ head \in Index /\ tail \in Index /\ tail \in Nat
      /\ Sub(head, tail) = Used /\ Used \in Nat
  BY ByteFacts
<1>2. PICK S : Framing(S) BY DEF ByteInv, WholeRecords
<1>3. Framed(S, buffer, head, tail) BY <1>2 DEF Framing
<1>4. Sub(head, tail) <= x BY <1>1
<1>5. /\ Framed(S, w, head, tail)
      /\ \A u \in S \ {0} : /\ LengthIn(w, head, u) = LengthIn(buffer, head, u)
                            /\ PacketIn(w, head, u) = PacketIn(buffer, head, u)
  BY <1>1, <1>3, <1>4, WriteKeepsFrame
<1>6. DecodedIn(w, head)[Sub(head, tail)] = DecodedIn(buffer, head)[Sub(head, tail)]
  BY <1>1, <1>3, <1>4, WriteKeepsDecoded
<1>7. w \in Memory
  <2>1. Wrote(w, buffer, tail, x, source) BY <1>1, Written
  <2> HIDE DEF w
  <2> QED BY <2>1 DEF Wrote
<1>8. buffer' = w OBVIOUS
<1> HIDE DEF w
<1>9. Used \in S BY <1>1, <1>3 DEF Framed
<1>10. Used' = Used BY DEF Used
<1>11. Framing(S)' BY <1>2, <1>5, <1>8, <1>10 DEF Framing
<1>12. Reading' BY <1>5, <1>8, <1>9, <1>10 DEF ByteInv, Reading
<1>13. Records' = Records BY <1>6, <1>8, DecodedNow
<1>14. WholeRecords' BY <1>11 DEF WholeRecords
<1> QED BY <1>7, <1>8, <1>12, <1>13, <1>14

\* A step that leaves the ring as it is.
LEMMA BufferKept ==
    ASSUME ByteInv, UNCHANGED <<buffer, head, tail>>
    PROVE  /\ buffer' \in Memory /\ Used' = Used /\ Records' = Records
           /\ \A S : Framed(S, buffer, head, tail) => Framed(S, buffer, head, tail)'
           /\ UNCHANGED prod => Writing'
           /\ UNCHANGED cons => Reading' /\ WholeRecords'
<1>1. buffer' \in Memory /\ Used' = Used BY ByteFacts DEF Used
<1>2. Records' = Records BY DecodedNow
<1>3. UNCHANGED prod => Writing' BY DEF ByteInv, Writing
<1>4. UNCHANGED cons => Reading' BY <1>1 DEF ByteInv, Reading
<1>5. UNCHANGED cons => WholeRecords'
  <2> SUFFICES ASSUME UNCHANGED cons PROVE WholeRecords' OBVIOUS
  <2>1. PICK S : Framing(S) BY DEF ByteInv, WholeRecords
  <2>2. Framing(S)' BY <1>1, <2>1 DEF Framing
  <2> QED BY <2>2 DEF WholeRecords
<1> QED BY <1>1, <1>2, <1>3, <1>4, <1>5

\* What the specification of the queue sees of the ring.
QueueStep == [Queue!Accept \/ Queue!Take]_<<Records, Sub(head, tail), popped>>

\* The header of a record is copied behind the head.
LEMMA WriteHeaderKeeps ==
    ASSUME ByteInv, WriteHeader, RingInv'
    PROVE  ByteInv' /\ QueueStep
<1> DEFINE n == Len(prod.packet)
           source == to_le_bytes(n)
<1>1. /\ prod.pc = "header" /\ buffer' = write_wrapped(buffer, head, source)
      /\ prod' = [prod EXCEPT !.pc = "payload"] /\ UNCHANGED <<head, tail, cons, popped>>
  BY DEF WriteHeader
<1>2. /\ source \in [1 .. Header -> Byte] /\ n \in Nat /\ prod.size >= Header + n
      /\ prod.size \in Nat
  BY <1>1, PacketFacts
<1>3. /\ buffer \in Memory /\ tail \in Nat /\ Used \in Nat /\ Follows(head, tail, Used)
      /\ Capacity \in Nat /\ Header \in Nat
  BY ByteFacts
<1>4. Used + prod.size <= Capacity BY <1>1 DEF ByteInv, RingInv
<1>5. /\ prod'.pc = "payload" /\ prod'.packet = prod.packet /\ prod'.size = prod.size
  BY <1>1 DEF ByteInv, RingInv, Accounts
<1> HIDE DEF n
<1>6. source \in Seq(Byte) /\ Len(source) = Header /\ Used + Len(source) <= Capacity
      /\ source = First(source, Header)
  <2> HIDE DEF source
  <2> QED BY <1>2, <1>3, <1>4 DEF First
<1> HIDE DEF source
<1>7. buffer' \in Memory /\ Reading' /\ WholeRecords' /\ Records' = Records
  BY <1>1, <1>3, <1>6, CopyKeeps
<1>8. read_wrapped(write_wrapped(buffer, head, source), head, Header) = First(source, Header)
  <2>1. Header \in 0 .. Len(source) BY <1>3, <1>6
  <2> QED BY <1>3, <1>6, <2>1, ReadBack
<1>9. read_wrapped(buffer', head', Header) = to_le_bytes(Len(prod.packet))
  BY <1>1, <1>6, <1>8 DEF source, n
<1>10. Writing' BY <1>1, <1>5, <1>9 DEF ByteInv, Writing
<1> QED BY <1>1, <1>7, <1>10 DEF ByteInv, QueueStep

\* The packet and its padding are copied behind the header.
LEMMA WritePayloadKeeps ==
    ASSUME ByteInv, WritePayload, RingInv'
    PROVE  ByteInv' /\ QueueStep
<1> DEFINE n == Len(prod.packet)
           k == prod.size - Header - n
           source == prod.packet \o Zeros(k)
           o == Add(head, Header)
           x == Used + Header
<1>1. /\ prod.pc = "payload" /\ buffer' = write_wrapped(buffer, o, source)
      /\ prod' = [prod EXCEPT !.pc = "publish"] /\ UNCHANGED <<head, tail, cons, popped>>
  BY DEF WritePayload
<1>2. /\ prod.packet \in Seq(Byte) /\ n \in Nat /\ prod.size >= Header + n /\ prod.size \in Nat
  BY <1>1, PacketFacts
<1>3. /\ buffer \in Memory /\ tail \in Nat /\ Used \in Nat /\ Follows(head, tail, Used)
      /\ Capacity \in Nat /\ Header \in Nat
  BY ByteFacts
<1>4. Used + prod.size <= Capacity BY <1>1 DEF ByteInv, RingInv
<1>5. /\ prod'.pc = "publish" /\ prod'.packet = prod.packet /\ prod'.size = prod.size
  BY <1>1 DEF ByteInv, RingInv, Accounts
<1>6. k \in Nat /\ x \in Nat /\ Used <= x /\ (x + n) + k <= Capacity /\ Used + Header <= x
  <2> DEFINE s == prod.size
  <2>1. n \in Nat /\ s \in Nat /\ s >= Header + n /\ Used + s <= Capacity BY <1>2, <1>4
  <2> HIDE DEF n, s
  <2>2. s - Header - n \in Nat /\ ((Used + Header) + n) + (s - Header - n) <= Capacity BY <1>3, <2>1
  <2>3. Used + Header \in Nat /\ Used <= Used + Header /\ Used + Header <= Used + Header BY <1>3
  <2> QED BY <2>2, <2>3 DEF s
<1>7. Zeros(k) \in Seq(Byte) /\ Len(Zeros(k)) = k
  <2> HIDE DEF k
  <2>1. 0 \in Byte BY RingAssumption DEF Byte
  <2> QED BY <1>6, <2>1 DEF Zeros
<1>8. source \in Seq(Byte) /\ Len(source) = n + k
      /\ \A i \in 1 .. n : source[i] = prod.packet[i]
  <2> DEFINE z == Zeros(k)
             p == prod.packet
  <2>1. z \in Seq(Byte) /\ p \in Seq(Byte) /\ Len(z) = k /\ Len(p) = n BY <1>2, <1>7
  <2> HIDE DEF z, p, k, n
  <2>2. p \o z \in Seq(Byte) /\ Len(p \o z) = n + k /\ \A i \in 1 .. n : (p \o z)[i] = p[i]
    BY <2>1
  <2> QED BY <2>2 DEF z, p
<1>9. Follows(o, tail, x) BY <1>3, CellThatFollows
<1> HIDE DEF n, k, source, o, x
<1>10. x + Len(source) <= Capacity BY <1>2, <1>3, <1>6, <1>8
<1>11. buffer' \in Memory /\ Reading' /\ WholeRecords' /\ Records' = Records
  BY <1>1, <1>3, <1>6, <1>8, <1>9, <1>10, CopyKeeps
<1>12. read_wrapped(write_wrapped(buffer, o, source), head, Header) = read_wrapped(buffer, head, Header)
  BY <1>3, <1>6, <1>8, <1>9, <1>10, ReadElsewhere
<1>13. read_wrapped(write_wrapped(buffer, o, source), o, n) = First(source, n)
  <2>1. n \in 0 .. Len(source) BY <1>2, <1>6, <1>8
  <2> QED BY <1>3, <1>6, <1>8, <1>9, <1>10, <2>1, ReadBack
<1>14. First(source, n) = prod.packet
  <2> DEFINE p == prod.packet
  <2>1. p \in Seq(Byte) /\ Len(p) = n /\ \A i \in 1 .. n : source[i] = p[i] BY <1>2, <1>8 DEF n
  <2> HIDE DEF p
  <2>2. p = [i \in 1 .. n |-> p[i]] BY <2>1
  <2>3. First(source, n) = [i \in 1 .. n |-> p[i]] BY <2>1 DEF First
  <2> QED BY <2>2, <2>3 DEF p
<1>15. read_wrapped(buffer', head', Header) = to_le_bytes(Len(prod.packet))
  BY <1>1, <1>12 DEF ByteInv, Writing
<1>16. read_wrapped(buffer', Add(head', Header), Len(prod.packet)) = prod.packet
  BY <1>1, <1>13, <1>14 DEF o, n
<1>17. Writing' BY <1>1, <1>5, <1>15, <1>16 DEF ByteInv, Writing
<1> QED BY <1>1, <1>11, <1>17 DEF ByteInv, QueueStep

\* The store of the head accepts the packet.
LEMMA PublishHeadKeeps ==
    ASSUME ByteInv, PublishHead, RingInv'
    PROVE  ByteInv' /\ QueueStep
<1> DEFINE s == prod.size
<1>1. /\ prod.pc = "publish" /\ head' = Add(head, s) /\ prod' = RingIdle
      /\ UNCHANGED <<buffer, tail, cons, popped>>
  BY DEF PublishHead
<1>2. /\ Len(prod.packet) \in 1 .. MaxPacket /\ s = aligned_record_bytes(Len(prod.packet))
      /\ s \in Nat /\ s >= Header + Len(prod.packet) /\ Len(prod.packet) \in Nat
      /\ from_le_bytes(to_le_bytes(Len(prod.packet))) = Len(prod.packet)
  BY <1>1, PacketFacts
<1>3. /\ buffer \in Memory /\ head \in Index /\ tail \in Index /\ Used \in Nat
      /\ Used = Sub(head, tail) /\ Header \in Nat /\ MaxPacket \in Nat /\ Sub(head, 0) = head
      /\ cons.seen \in Nat /\ Capacity \in Nat
  BY ByteFacts
<1>4. LengthIn(buffer, head, 0) = Len(prod.packet)
  BY <1>1, <1>2, <1>3 DEF LengthIn, ByteInv, Writing
<1>5. SizeIn(buffer, head, 0) = s /\ PacketIn(buffer, head, 0) = prod.packet
  BY <1>1, <1>2, <1>3, <1>4 DEF SizeIn, PacketIn, ByteInv, Writing
<1>6. Used + s <= Capacity BY <1>1 DEF ByteInv, RingInv
<1>7. s \in Nat \ {0}
  <2> DEFINE n == Len(prod.packet)
  <2>1. n \in 1 .. MaxPacket /\ n \in Nat /\ s \in Nat /\ s >= Header + n BY <1>2
  <2> HIDE DEF n, s
  <2> QED BY <1>3, <2>1
<1>8. LengthIn(buffer, head, 0) \in 1 .. MaxPacket BY <1>2, <1>4
<1>9. PICK S : Framing(S) BY DEF ByteInv, WholeRecords
<1>10. Framed(S, buffer, head, tail) BY <1>9 DEF Framing
<1>11. Sub(head, tail) + s <= Capacity BY <1>3, <1>6
<1> HIDE DEF s
<1>12. /\ Framed({u + s : u \in S} \union {0}, buffer, Add(head, s), tail)
       /\ \A u \in S : /\ LengthIn(buffer, Add(head, s), u + s) = LengthIn(buffer, head, u)
                       /\ PacketIn(buffer, Add(head, s), u + s) = PacketIn(buffer, head, u)
  BY <1>3, <1>5, <1>7, <1>8, <1>10, <1>11, PublishFrames
<1>13. DecodedIn(buffer, Add(head, s))[Sub(head, tail) + s] =
         Append(DecodedIn(buffer, head)[Sub(head, tail)], PacketIn(buffer, head, 0))
  BY <1>3, <1>5, <1>7, <1>8, <1>10, <1>11, PublishAppends
<1>14. Used' = Used + s /\ Sub(head', tail') = Sub(head, tail) + s
  <2>1. Sub(Add(head, s), tail) = Sub(head, tail) + s BY <1>3, <1>7, <1>11, MovedHead
  <2> QED BY <1>1, <2>1 DEF Used
<1>15. Used \in S BY <1>3, <1>10 DEF Framed
<1>16. PICK N : N = {u + s : u \in S} \union {0} OBVIOUS
<1>17. WholeRecords'
  <2>1. Framed(N, buffer', head', tail') BY <1>1, <1>12, <1>16
  <2>2. ASSUME cons'.pc = "length" PROVE Used' - cons'.seen \in N /\ cons'.seen # 0
    <3>1. Used - cons.seen \in S /\ cons.seen # 0 BY <1>1, <1>9, <2>2 DEF Framing
    <3>2. Used' - cons'.seen = (Used - cons.seen) + s BY <1>1, <1>3, <1>7, <1>14
    <3> QED BY <1>1, <1>16, <3>1, <3>2
  <2>3. Framing(N)' BY <2>1, <2>2 DEF Framing
  <2> QED BY <2>3 DEF WholeRecords
<1>18. Reading'
  <2>1. /\ LengthIn(buffer', head', Used') = LengthIn(buffer, head, Used)
        /\ PacketIn(buffer', head', Used') = PacketIn(buffer, head, Used)
    BY <1>1, <1>12, <1>14, <1>15
  <2>2. Used' # 0 BY <1>3, <1>7, <1>14
  <2> QED BY <1>1, <2>1, <2>2 DEF ByteInv, Reading
<1>19. Writing' BY <1>1 DEF Writing, RingIdle
<1>20. Records' = Append(Records, prod.packet)
  BY <1>1, <1>5, <1>13, <1>14, DecodedNow
<1>21. Queue!Accept
  <2>1. prod.packet \in Accepted /\ s = RecordBytes(prod.packet)
    BY <1>1 DEF ByteInv, Writing, s
  <2>2. Sub(head, tail) + RecordBytes(prod.packet) <= Capacity BY <1>11, <2>1
  <2>3. Sub(head, tail)' = Sub(head, tail) + RecordBytes(prod.packet) BY <1>14, <2>1
  <2> QED BY <1>1, <1>20, <2>1, <2>2, <2>3 DEF Queue!Accept
<1>22. buffer' \in Memory BY <1>1, <1>3
<1> QED BY <1>17, <1>18, <1>19, <1>21, <1>22 DEF ByteInv, QueueStep

\* The oldest record, of which the consumer makes the packet.
LEMMA OldestRecord ==
    ASSUME ByteInv, Used # 0, NEW S, Framing(S)
    PROVE  LET n == LengthIn(buffer, head, Used)
               s == SizeIn(buffer, head, Used)
               p == PacketIn(buffer, head, Used)
               q == DecodedIn(buffer, head)[Used - s]
           IN  /\ n \in 1 .. MaxPacket /\ n \in Nat /\ s = aligned_record_bytes(n)
               /\ s \in Nat /\ s >= Header + n /\ s <= Used
               /\ \A v \in S : v < Used => v <= Used - s
               /\ p \in Seq(Byte) /\ Len(p) = n
               /\ n = from_le_bytes(read_wrapped(buffer, tail, Header))
               /\ p = read_wrapped(buffer, Add(tail, Header), n)
               /\ Records = <<p>> \o q /\ q \in Seq(Seq(Byte))
<1> DEFINE n == LengthIn(buffer, head, Used)
           s == SizeIn(buffer, head, Used)
           p == PacketIn(buffer, head, Used)
           q == DecodedIn(buffer, head)[Used - s]
<1>1. /\ buffer \in Memory /\ head \in Index /\ tail \in Index /\ Used \in Nat
      /\ Used = Sub(head, tail) /\ Header \in Nat /\ MaxPacket \in Nat /\ Sub(head, Used) = tail
      /\ Sub(head, tail) <= Capacity
  BY ByteFacts
<1>2. Framed(S, buffer, head, tail) BY DEF Framing
<1>3. Used \in S \ {0} BY <1>1, <1>2 DEF Framed
<1>4. n \in 1 .. MaxPacket /\ s <= Used /\ \A v \in S : v < Used => v <= Used - s
  BY <1>2, <1>3 DEF Framed
<1>5. /\ p \in Seq(Byte) /\ Len(p) = n /\ DecodedIn(buffer, head)[Used] = <<p>> \o q
      /\ Used - s \in S
  <2>1. \A u \in S \ {0} :
           /\ u - SizeIn(buffer, head, u) \in S
           /\ PacketIn(buffer, head, u) \in Seq(Byte)
           /\ Len(PacketIn(buffer, head, u)) = LengthIn(buffer, head, u)
           /\ DecodedIn(buffer, head)[u] =
                <<PacketIn(buffer, head, u)>> \o DecodedIn(buffer, head)[u - SizeIn(buffer, head, u)]
    BY <1>1, <1>2, FrameUnfolds
  <2> QED BY <1>3, <2>1
<1>6. q \in Seq(Seq(Byte)) BY <1>1, <1>2, <1>5, DecodedType
<1>7. Records = <<p>> \o q BY <1>1, <1>5, DecodedNow
<1>8. n = from_le_bytes(read_wrapped(buffer, tail, Header)) BY <1>1 DEF LengthIn
<1>9. p = read_wrapped(buffer, Add(tail, Header), n) BY <1>1 DEF PacketIn
<1>10. s = aligned_record_bytes(n) BY DEF SizeIn
<1>11. n \in Nat /\ s \in Nat /\ s >= Header + n
  <2> HIDE DEF n, s
  <2>1. n \in Nat BY <1>1, <1>4
  <2> QED BY <1>10, <2>1, RecordSize
<1> QED BY <1>4, <1>5, <1>6, <1>7, <1>8, <1>9, <1>10, <1>11

\* The store of the tail takes the oldest packet.
LEMMA ReleaseTailKeeps ==
    ASSUME ByteInv, ReleaseTail, RingInv'
    PROVE  ByteInv' /\ QueueStep
<1> DEFINE s == SizeIn(buffer, head, Used)
           p == PacketIn(buffer, head, Used)
           q == DecodedIn(buffer, head)[Used - s]
<1>1. /\ cons.pc = "release" /\ tail' = Add(tail, aligned_record_bytes(cons.size))
      /\ popped' = cons.packet /\ cons' = RingIdle /\ UNCHANGED <<buffer, head, prod>>
  BY DEF ReleaseTail
<1>2. Used # 0 /\ cons.size = LengthIn(buffer, head, Used) /\ cons.packet = p
  BY <1>1 DEF ByteInv, Reading
<1>3. PICK S : Framing(S) BY DEF ByteInv, WholeRecords
<1>4. /\ s \in Nat /\ s <= Used /\ p \in Seq(Byte) /\ Len(p) = cons.size
      /\ s = aligned_record_bytes(cons.size) /\ Records = <<p>> \o q /\ q \in Seq(Seq(Byte))
  BY <1>2, <1>3, OldestRecord
<1>5. /\ buffer \in Memory /\ head \in Index /\ tail \in Index /\ Used \in Nat
      /\ Used = Sub(head, tail)
  BY ByteFacts
<1>6. Framed(S, buffer, head, tail) BY <1>3 DEF Framing
<1>7. s = SizeIn(buffer, head, Sub(head, tail)) BY <1>5
<1> HIDE DEF s
<1>8. /\ Sub(head, Add(tail, s)) = Sub(head, tail) - s
      /\ Framed(S \cap (0 .. Sub(head, tail) - s), buffer, head, Add(tail, s))
  BY <1>2, <1>4, <1>5, <1>6, <1>7, ReleaseFrames
<1>9. tail' = Add(tail, s) BY <1>1, <1>4
<1>10. WholeRecords'
  <2>1. PICK M : M = S \cap (0 .. Sub(head, tail) - s) OBVIOUS
  <2>2. Framed(M, buffer', head', tail') BY <1>1, <1>8, <1>9, <2>1
  <2>3. Framing(M)' BY <1>1, <2>2 DEF Framing, RingIdle
  <2> QED BY <2>3 DEF WholeRecords
<1>11. Reading' BY <1>1 DEF Reading, RingIdle
<1>12. Writing' BY <1>1 DEF ByteInv, Writing
<1>13. Records' = q BY <1>1, <1>5, <1>8, <1>9, DecodedNow
<1> HIDE DEF p, q
<1>14. Records # <<>> /\ Head(Records) = p /\ Tail(Records) = q
  <2> DEFINE T == Seq(Byte)
  <2>1. Records = <<p>> \o q /\ p \in T /\ q \in Seq(T) BY <1>4
  <2> HIDE DEF T
  <2>2. <<p>> \o q # <<>> /\ Head(<<p>> \o q) = p /\ Tail(<<p>> \o q) = q BY <2>1
  <2> QED BY <2>1, <2>2
<1>15. Queue!Take
  <2>1. RecordBytes(Head(Records)) = s BY <1>4, <1>14 DEF RecordBytes
  <2>2. Sub(head, tail)' = Sub(head, tail) - RecordBytes(Head(Records))
    BY <1>1, <1>8, <1>9, <2>1
  <2> QED BY <1>1, <1>2, <1>13, <1>14, <2>2 DEF Queue!Take
<1>16. buffer' \in Memory BY <1>1, <1>5
<1> QED BY <1>10, <1>11, <1>12, <1>15, <1>16 DEF ByteInv, QueueStep

\* The steps that write no byte and no index.
LEMMA LoadTailKeeps ==
    ASSUME ByteInv, NEW p \in Packets, LoadTail(p), RingInv'
    PROVE  ByteInv' /\ QueueStep
<1>1. UNCHANGED <<buffer, head, tail, cons, popped>> BY DEF LoadTail
<1>2. buffer' \in Memory /\ Records' = Records /\ Reading' /\ WholeRecords'
  BY <1>1, BufferKept
<1>3. Writing'
  <2>1. CASE Len(p) \in 1 .. MaxPacket
    BY <2>1 DEF LoadTail, Writing, Accepted, RecordBytes
  <2>2. CASE Len(p) \notin 1 .. MaxPacket
    BY <2>2 DEF LoadTail, Writing, RingIdle
  <2> QED BY <2>1, <2>2
<1> QED BY <1>1, <1>2, <1>3 DEF ByteInv, QueueStep

\* The producer finds room, or refuses the packet.
LEMMA CheckSpaceKeeps ==
    ASSUME ByteInv, NEW count \in BOOLEAN, CheckSpace(count), RingInv'
    PROVE  ByteInv' /\ QueueStep
<1>1. UNCHANGED <<buffer, head, tail, cons, popped>> /\ prod.pc = "check" BY DEF CheckSpace
<1>2. buffer' \in Memory /\ Records' = Records /\ Reading' /\ WholeRecords'
  BY <1>1, BufferKept
<1>3. prod'.pc \in {"idle", "header"} /\ (prod'.pc = "header" => prod' = [prod EXCEPT !.pc = "header"])
  <2>1. prod' \in {RingIdle, [prod EXCEPT !.pc = "header"], [prod EXCEPT !.pc = "corrupt"]}
    BY DEF CheckSpace
  <2>2. prod'.pc # "corrupt" BY DEF RingInv
  <2> QED BY <2>1, <2>2 DEF RingIdle, ByteInv, RingInv, Accounts
<1>4. Writing'
  <2>1. CASE prod'.pc = "header"
    <3>1. prod'.packet = prod.packet /\ prod'.size = prod.size
      BY <1>3, <2>1 DEF ByteInv, RingInv, Accounts
    <3> QED BY <1>1, <2>1, <3>1 DEF ByteInv, Writing
  <2>2. CASE prod'.pc = "idle" BY <2>2 DEF Writing
  <2> QED BY <1>3, <2>1, <2>2
<1> QED BY <1>1, <1>2, <1>4 DEF ByteInv, QueueStep

\* What the consumer finds published is nothing or a whole record.
LEMMA LoadHeadKeeps ==
    ASSUME ByteInv, LoadHead, RingInv'
    PROVE  ByteInv' /\ QueueStep
<1>1. UNCHANGED <<buffer, head, tail, prod, popped>> BY DEF LoadHead
<1>2. buffer' \in Memory /\ Records' = Records /\ Writing' /\ Used' = Used
  BY <1>1, BufferKept
<1>3. PICK S : Framing(S) BY DEF ByteInv, WholeRecords
<1>4. Used \in Nat /\ Used <= Capacity /\ Used = Sub(head, tail) /\ Header \in Nat BY ByteFacts
<1>5. Used # 0 => Used >= Header
  <2> SUFFICES ASSUME Used # 0 PROVE Used >= Header OBVIOUS
  <2> DEFINE n == LengthIn(buffer, head, Used)
             s == SizeIn(buffer, head, Used)
  <2>1. n \in Nat /\ s \in Nat /\ s >= Header + n /\ s <= Used BY <1>3, OldestRecord
  <2> HIDE DEF n, s
  <2> QED BY <1>4, <2>1
<1>6. /\ cons'.seen = Used
      /\ cons'.pc = IF Used = 0 THEN "idle" ELSE "length"
  <2>1. cons' = [cons EXCEPT !.seen = Used, !.pc = IF Used > Capacity THEN "corrupt"
                                                   ELSE IF Used = 0 THEN "idle"
                                                   ELSE IF Used < Header THEN "truncated"
                                                   ELSE "length"]
    BY <1>4 DEF LoadHead
  <2>2. ~(Used > Capacity) /\ (Used # 0 => ~(Used < Header)) BY <1>4, <1>5, RingAssumption
  <2> QED BY <2>1, <2>2 DEF ByteInv, RingInv, Accounts
<1>7. Reading' BY <1>6 DEF Reading
<1>8. Framing(S)'
  <2>1. 0 \in S BY <1>3 DEF Framing, Framed
  <2>2. Used - Used = 0 BY <1>4
  <2>3. Framed(S, buffer', head', tail') BY <1>1, <1>3 DEF Framing
  <2> QED BY <1>2, <1>6, <2>1, <2>2, <2>3 DEF Framing
<1>9. WholeRecords' BY <1>8 DEF WholeRecords
<1> QED BY <1>1, <1>2, <1>7, <1>9 DEF ByteInv, QueueStep

\* The head that the consumer loaded is the end of a record, so the oldest
\* record ends there or before.
LEMMA ReadLengthKeeps ==
    ASSUME ByteInv, ReadLength, RingInv'
    PROVE  ByteInv' /\ QueueStep
<1> DEFINE n == LengthIn(buffer, head, Used)
           s == SizeIn(buffer, head, Used)
<1>1. UNCHANGED <<buffer, head, tail, prod, popped>> /\ cons.pc = "length" BY DEF ReadLength
<1>2. buffer' \in Memory /\ Records' = Records /\ Writing' /\ Used' = Used
  BY <1>1, BufferKept
<1>3. PICK S : Framing(S) BY DEF ByteInv, WholeRecords
<1>4. Used \in Nat /\ Used <= Capacity /\ Capacity \in Nat /\ cons.seen \in Nat BY ByteFacts
<1>5. Used - cons.seen \in S /\ cons.seen # 0 BY <1>1, <1>3 DEF Framing
<1>6. cons.seen <= Used BY <1>1 DEF ByteInv, RingInv
<1>7. Used # 0 BY <1>4, <1>5, <1>6
<1>8. /\ n \in 1 .. MaxPacket /\ s = aligned_record_bytes(n) /\ s \in Nat /\ s <= Used
      /\ \A v \in S : v < Used => v <= Used - s
      /\ n = from_le_bytes(read_wrapped(buffer, tail, Header))
  BY <1>3, <1>7, OldestRecord
<1> HIDE DEF n, s
<1>9. s <= cons.seen
  <2>1. Used - cons.seen < Used BY <1>4, <1>5
  <2>2. Used - cons.seen <= Used - s BY <1>5, <1>8, <2>1
  <2> QED BY <1>4, <1>8, <2>2
<1>10. ~(s > cons.seen) /\ ~(s > Capacity) BY <1>4, <1>8, <1>9
<1>11. cons' = [cons EXCEPT !.pc = "copy", !.size = n] BY <1>8, <1>10 DEF ReadLength
<1>12. cons'.pc = "copy" /\ cons'.size = n BY <1>11 DEF ByteInv, RingInv, Accounts
<1>13. LengthIn(buffer', head', Used') = n BY <1>1, <1>2 DEF n
<1>14. Reading' BY <1>2, <1>7, <1>12, <1>13 DEF Reading
<1>15. Framed(S, buffer', head', tail') BY <1>1, <1>3 DEF Framing
<1>16. Framing(S)' BY <1>12, <1>15 DEF Framing
<1>17. WholeRecords' BY <1>16 DEF WholeRecords
<1> QED BY <1>1, <1>2, <1>14, <1>17 DEF ByteInv, QueueStep

\* The consumer copies the packet of the oldest record.
LEMMA ReadPayloadKeeps ==
    ASSUME ByteInv, ReadPayload, RingInv'
    PROVE  ByteInv' /\ QueueStep
<1>1. /\ UNCHANGED <<buffer, head, tail, prod, popped>> /\ cons.pc = "copy"
      /\ cons' = [cons EXCEPT !.pc = "release",
                              !.packet = read_wrapped(buffer, Add(tail, Header), cons.size)]
  BY DEF ReadPayload
<1>2. buffer' \in Memory /\ Records' = Records /\ Writing' /\ Used' = Used
  BY <1>1, BufferKept
<1>3. PICK S : Framing(S) BY DEF ByteInv, WholeRecords
<1>4. Used # 0 /\ cons.size = LengthIn(buffer, head, Used) BY <1>1 DEF ByteInv, Reading
<1>5. PacketIn(buffer, head, Used) = read_wrapped(buffer, Add(tail, Header), cons.size)
  BY <1>3, <1>4, OldestRecord
<1>6. /\ cons'.pc = "release" /\ cons'.size = cons.size
      /\ cons'.packet = PacketIn(buffer, head, Used)
  BY <1>1, <1>5 DEF ByteInv, RingInv, Accounts
<1>7. /\ LengthIn(buffer', head', Used') = LengthIn(buffer, head, Used)
      /\ PacketIn(buffer', head', Used') = PacketIn(buffer, head, Used)
  BY <1>1, <1>2
<1>8. Reading' BY <1>2, <1>4, <1>6, <1>7 DEF Reading
<1>9. Framed(S, buffer', head', tail') BY <1>1, <1>3 DEF Framing
<1>10. Framing(S)' BY <1>6, <1>9 DEF Framing
<1>11. WholeRecords' BY <1>10 DEF WholeRecords
<1> QED BY <1>1, <1>2, <1>8, <1>11 DEF ByteInv, QueueStep

\* A ring that `initialize' returns has no record.
LEMMA InitBytes == RingInit => ByteInv /\ Queue!QueueInit
<1> SUFFICES ASSUME RingInit PROVE ByteInv /\ Queue!QueueInit OBVIOUS
<1>1. RingInv BY InitRing
<1>2. buffer \in Memory
  <2>1. 0 \in Byte BY RingAssumption DEF Byte
  <2> QED BY <2>1 DEF RingInit, Memory
<1>3. head = 0 /\ tail = 0 /\ Sub(head, tail) = 0 /\ Used = 0 BY DEF RingInit, Sub, Used
<1>4. Writing /\ Reading BY DEF RingInit, RingIdle, Writing, Reading
<1>5. WholeRecords
  <2>1. Framing({0}) BY <1>3 DEF RingInit, RingIdle, Framing, Framed
  <2> QED BY <2>1 DEF WholeRecords
<1>6. head \in Index BY <1>1 DEF RingInv, Accounts
<1>7. Records = <<>>
  <2>1. DecodedIn(buffer, head)[0] = <<>> BY <1>2, <1>6, DecodedUnfolds
  <2> QED BY <1>3, <2>1, DecodedNow
<1>8. Queue!QueueInit BY <1>3, <1>7 DEF RingInit, Queue!QueueInit
<1> QED BY <1>1, <1>2, <1>4, <1>5, <1>8 DEF ByteInv

\* Every step of push and pop keeps the invariant, and is a step of the queue
\* or none.
LEMMA StepBytes == ByteInv /\ [RingNext]_ringVars => ByteInv' /\ QueueStep
<1> SUFFICES ASSUME ByteInv, [RingNext]_ringVars PROVE ByteInv' /\ QueueStep OBVIOUS
<1>1. RingInv' BY StepRing DEF ByteInv
<1>2. ASSUME NEW p \in Packets, LoadTail(p) PROVE ByteInv' /\ QueueStep BY <1>1, <1>2, LoadTailKeeps
<1>3. ASSUME NEW count \in BOOLEAN, CheckSpace(count) PROVE ByteInv' /\ QueueStep
  BY <1>1, <1>3, CheckSpaceKeeps
<1>4. CASE WriteHeader BY <1>1, <1>4, WriteHeaderKeeps
<1>5. CASE WritePayload BY <1>1, <1>5, WritePayloadKeeps
<1>6. CASE PublishHead BY <1>1, <1>6, PublishHeadKeeps
<1>7. CASE LoadHead BY <1>1, <1>7, LoadHeadKeeps
<1>8. CASE ReadLength BY <1>1, <1>8, ReadLengthKeeps
<1>9. CASE ReadPayload BY <1>1, <1>9, ReadPayloadKeeps
<1>10. CASE ReleaseTail BY <1>1, <1>10, ReleaseTailKeeps
<1>11. CASE UNCHANGED ringVars
  <2>1. UNCHANGED <<buffer, head, tail, prod, cons, popped>> BY <1>11 DEF ringVars
  <2>2. buffer' \in Memory /\ Records' = Records /\ Writing' /\ Reading' /\ WholeRecords'
    BY <2>1, BufferKept
  <2> QED BY <1>1, <2>1, <2>2 DEF ByteInv, QueueStep
<1> QED
  BY <1>2, <1>3, <1>4, <1>5, <1>6, <1>7, <1>8, <1>9, <1>10, <1>11
  DEF RingNext, Producer, Consumer

\* For every capacity, index width, byte width and set of packets, a length
\* that try_pop_into reads is that of a whole published record, wherever the
\* indices and the bytes wrap: neither side finds the ring corrupt.
THEOREM RingNeverCorrupt == SpecRing => []NoFalseCorruption
<1>1. ByteInv => NoFalseCorruption BY DEF ByteInv, RingInv, Reading, NoFalseCorruption
<1>2. RingInit => ByteInv BY InitBytes
<1>3. ByteInv /\ [RingNext]_ringVars => ByteInv' BY StepBytes
<1> QED BY <1>1, <1>2, <1>3, PTL DEF SpecRing

\* Push and pop implement a bounded FIFO of packets: every step of the ring
\* maps to an Accept, a Take or a stutter of PacketQueue.
THEOREM RingImplementsQueue == SpecRing => RingIsQueue
<1>1. RingInit => ByteInv BY InitBytes
<1>2. RingInit => Queue!QueueInit BY InitBytes
<1>3. ByteInv /\ [RingNext]_ringVars => ByteInv' BY StepBytes
<1>4. ByteInv /\ [RingNext]_ringVars =>
        [Queue!Accept \/ Queue!Take]_<<Records, Sub(head, tail), popped>>
  BY StepBytes DEF QueueStep
<1> QED BY <1>1, <1>2, <1>3, <1>4, PTL DEF SpecRing, RingIsQueue, Queue!QueueSpec

-----------------------------------------------------------------------------
(***************************************************************************)
(* The pumps: packets are neither stranded nor lost between the Agent and   *)
(* the Engine, for every size of the rings, of the device and of the        *)
(* batches.                                                                 *)
(***************************************************************************)
AgentLabels == {"wait", "ring", "device", "batch", "signal", "failing", "ended"}
PumpLabels == {"top", "publish", "signal", "select", "ended"}
Endings == {"select", "ready", "blocked", "failed", "cancelled"}

TypeOK ==
    /\ down \in Seq(Int) /\ Len(down) <= DownCap
    /\ up \in Nat /\ device \in Nat /\ next \in Nat /\ pending \in Nat
    /\ agent \in [at : AgentLabels, drained : Nat, published : BOOLEAN]
    /\ pump \in [at : PumpLabels, readable : BOOLEAN, upload : BOOLEAN, batch : Nat,
                 then : Endings]

\* The packets in the ring are numbered from its oldest one on.
Numbered == \A i \in 1 .. Len(down) : down[i] = i - 1

\* The packet that waits comes next; an ended pump has none, and has told the
\* Agent.
Waiting ==
    /\ pump.at = "publish" => pending # None
    /\ pump.at = "ended" => pending = None /\ shutdown
    /\ pending # None => pending = Len(down)
    /\ pump.at # "ended" => next = IF pending = None THEN Len(down) ELSE Len(down) + 1
    /\ next >= Len(down)

IInv == TypeOK /\ Numbered /\ Waiting /\ NobodyStranded

USE PumpAssumption

(***************************************************************************)
(* One step of the proof for each disjunct of Next; what it leaves alone    *)
(* follows from two frames.                                                 *)
(***************************************************************************)
\* The download: ring, waiting packet and numbering do not move.
LEMMA DownloadKept ==
    ASSUME IInv, UNCHANGED <<down, next>>, shutdown => shutdown', pump'.at \in PumpLabels,
           \/ pending' = pending /\ (pump'.at = "publish" => pending # None)
                                 /\ (pump'.at = "ended" <=> pump.at = "ended")
           \/ pending' = None /\ pump'.at = "ended" /\ shutdown'
    PROVE  /\ down' \in Seq(Int) /\ Len(down') <= DownCap /\ next' \in Nat /\ pending' \in Nat
           /\ Numbered' /\ Waiting'
<1>1. None \in Nat BY DEF None
<1>2. next \in Nat /\ down \in Seq(Int) /\ Len(down) <= DownCap /\ pending \in Nat
  BY DEF IInv, TypeOK
<1>3. Numbered' BY DEF IInv, Numbered
<1>4. Waiting' BY <1>2 DEF IInv, Waiting
<1> QED BY <1>1, <1>2, <1>3, <1>4

LEMMA Types ==
    ASSUME IInv
    PROVE  /\ down \in Seq(Int) /\ Len(down) \in Nat /\ Len(down) <= DownCap
           /\ up \in Nat /\ device \in Nat /\ next \in Nat /\ pending \in Nat
           /\ agent \in [at : AgentLabels, drained : Nat, published : BOOLEAN]
           /\ agent.at \in AgentLabels /\ agent.drained \in Nat /\ agent.published \in BOOLEAN
           /\ pump \in [at : PumpLabels, readable : BOOLEAN, upload : BOOLEAN, batch : Nat,
                        then : Endings]
           /\ pump.at \in PumpLabels /\ pump.readable \in BOOLEAN /\ pump.batch \in Nat
           /\ pump.then \in Endings
           /\ None \in Nat /\ None > DownCap /\ DownCap \in Nat /\ DownCap > 0
           /\ UpCap \in Nat
  BY DEF IInv, TypeOK, None

\* The Engine's pump ends.
LEMMA IdleFields ==
    ASSUME NEW at \in PumpLabels
    PROVE  /\ Idle(at) \in [at : PumpLabels, readable : BOOLEAN, upload : BOOLEAN,
                            batch : Nat, then : Endings]
           /\ Idle(at).at = at /\ Idle(at).batch = 0
  BY DEF Idle, Endings

LEMMA InitInv == Init => IInv
<1> SUFFICES ASSUME Init PROVE IInv OBVIOUS
<1>1. "top" \in PumpLabels /\ None \in Nat BY DEF PumpLabels, None
<1>2. pump = Idle("top") BY DEF Init
<1>3. TypeOK BY <1>1, <1>2, IdleFields DEF Init, TypeOK, AgentLabels
<1>4. Numbered BY DEF Init, Numbered
<1>5. Waiting BY <1>1, <1>2, IdleFields DEF Init, Waiting
<1>6. NobodyStranded BY DEF Init, NobodyStranded
<1> QED BY <1>3, <1>4, <1>5, <1>6 DEF IInv

\* The whole invariant from its parts.
LEMMA Parts ==
    ASSUME down' \in Seq(Int), Len(down') <= DownCap, next' \in Nat, pending' \in Nat,
           Numbered', Waiting', NobodyStranded', up' \in Nat, device' \in Nat,
           agent' \in [at : AgentLabels, drained : Nat, published : BOOLEAN],
           pump' \in [at : PumpLabels, readable : BOOLEAN, upload : BOOLEAN, batch : Nat,
                      then : Endings]
    PROVE  IInv'
  BY DEF IInv, TypeOK

(***************************************************************************)
(* The Agent's thread, the device and the waiter.                           *)
(***************************************************************************)
LEMMA OutsideKeeps ==
    ASSUME IInv, \/ DeviceReceives \/ AgentStops \/ LivenessLost \/ StopTasks
                 \/ UNCHANGED vars
    PROVE  IInv'
<1>1. /\ UNCHANGED <<down, next, pending, up, agent, pump, upEvent, downEvent, waiter, token>>
      /\ shutdown => shutdown'
  BY DEF DeviceReceives, AgentStops, LivenessLost, StopTasks, vars, agentVars, pumpVars
<1>2. device' \in Nat /\ (device' > 0 => device > 0 \/ deviceEvent')
      /\ (deviceEvent => deviceEvent')
  BY Types DEF DeviceReceives, AgentStops, LivenessLost, StopTasks, vars, agentVars
<1>3. /\ down' \in Seq(Int) /\ Len(down') <= DownCap /\ next' \in Nat /\ pending' \in Nat
      /\ Numbered' /\ Waiting'
  <2>1. pump'.at \in PumpLabels BY <1>1, Types
  <2>2. pump'.at = "publish" => pending # None BY <1>1 DEF IInv, Waiting
  <2> QED BY <1>1, <2>1, <2>2, DownloadKept
<1>4. NobodyStranded'
  BY <1>1, <1>2, Types DEF IInv, NobodyStranded
<1> QED BY <1>1, <1>2, <1>3, <1>4, Types, Parts

LEMMA AgentWaitKeeps ==
    ASSUME IInv, AgentWait
    PROVE  IInv'
<1>1. /\ UNCHANGED <<down, next, pending, up, device, pump, upEvent, waiter, token, shutdown>>
      /\ agent.at = "wait"
  BY DEF AgentWait, pumpVars
<1>2. /\ agent' \in [at : AgentLabels, drained : Nat, published : BOOLEAN]
      /\ agent'.published = agent.published
      /\ \/ shutdown
         \/ agent'.at = "ring" /\ deviceEvent' = deviceEvent
         \/ agent'.at = "device" /\ downEvent' = downEvent
  BY Types DEF AgentWait, AgentLabels
<1>3. /\ down' \in Seq(Int) /\ Len(down') <= DownCap /\ next' \in Nat /\ pending' \in Nat
      /\ Numbered' /\ Waiting'
  <2>1. pump'.at \in PumpLabels BY <1>1, Types
  <2>2. pump'.at = "publish" => pending # None BY <1>1 DEF IInv, Waiting
  <2> QED BY <1>1, <2>1, <2>2, DownloadKept
<1>4. NobodyStranded'
  BY <1>1, <1>2, Types DEF IInv, NobodyStranded
<1> QED BY <1>1, <1>2, <1>3, <1>4, Types, Parts

\* The oldest packet leaves the ring: the others move up.
LEMMA TakeKeeps ==
    ASSUME IInv, down # <<>>, Take, pump' = pump, shutdown' = shutdown
    PROVE  /\ down' \in Seq(Int) /\ Len(down') <= DownCap /\ next' \in Nat /\ pending' \in Nat
           /\ Numbered' /\ Waiting'
<1> DEFINE n == Len(down)
<1>1. n \in Nat /\ n > 0 /\ n <= DownCap /\ next >= n /\ next \in Nat /\ None > DownCap
      /\ None \in Nat /\ None' = None /\ DownCap \in Nat
  <2>1. None' = None BY DEF None
  <2> QED BY <2>1, Types DEF IInv, Waiting
<1>2. \A i \in 1 .. n : down[i] \in Int BY <1>1, Types
<1>3. \A i \in 1 .. n - 1 : i + 1 \in 1 .. n /\ down[i + 1] - 1 \in Int BY <1>1, <1>2
<1>4. down' = [i \in 1 .. n - 1 |-> down[i + 1] - 1] BY DEF Take
<1>5. down' \in Seq(Int) /\ Len(down') = n - 1 BY <1>1, <1>3, <1>4
<1>6. Numbered'
  BY <1>1, <1>3, <1>4, <1>5 DEF IInv, Numbered
<1>7. next' = next - 1 /\ pending' = IF pending = None THEN None ELSE pending - 1
  BY DEF Take
<1>8. pending # None => pending = n /\ pending' = n - 1 /\ pending' # None
  BY <1>1, <1>7 DEF IInv, Waiting
<1>9. Waiting'
  BY <1>1, <1>5, <1>7, <1>8 DEF IInv, Waiting
<1> QED BY <1>1, <1>5, <1>6, <1>7, <1>8, <1>9

LEMMA AgentRingKeeps ==
    ASSUME IInv, NEW sent \in BOOLEAN, AgentRing(sent)
    PROVE  IInv'
<1>1. /\ UNCHANGED <<up, device, pump, upEvent, downEvent, deviceEvent, waiter, token, shutdown>>
      /\ agent.at = "ring"
  BY DEF AgentRing
<1>2. /\ agent' \in [at : AgentLabels, drained : Nat, published : BOOLEAN]
      /\ agent'.published = agent.published
      /\ IF down = <<>> THEN agent'.at = "wait" ELSE agent'.at \in {"ring", "ended"}
  <2>1. PICK at \in {"wait", "ring", "ended"}, n \in Nat :
          /\ agent' = [agent EXCEPT !.at = at, !.drained = n]
          /\ IF down = <<>> THEN at = "wait" ELSE at \in {"ring", "ended"}
    <3>1. CASE down = <<>>
      BY <3>1 DEF AgentRing
    <3>2. CASE down # <<>>
      <4> DEFINE at == IF (agent.drained = AgentBatch /\ shutdown) \/ ~sent
                       THEN "ended" ELSE "ring"
                 n == IF agent.drained = AgentBatch THEN 1 ELSE agent.drained + 1
      <4>1. agent' = [agent EXCEPT !.at = at, !.drained = n] BY <3>2 DEF AgentRing
      <4>2. at \in {"ring", "ended"} /\ n \in Nat BY Types
      <4> HIDE DEF at, n
      <4> QED BY <3>2, <4>1, <4>2
    <3> QED BY <3>1, <3>2
  <2> QED BY <2>1, Types DEF AgentLabels
<1>3. /\ down' \in Seq(Int) /\ Len(down') <= DownCap /\ next' \in Nat /\ pending' \in Nat
      /\ Numbered' /\ Waiting'
  <2>1. CASE down = <<>>
    <3>1. UNCHANGED <<down, pending, next>> BY <2>1 DEF AgentRing
    <3>2. pump'.at \in PumpLabels BY <1>1, Types
    <3>3. pump'.at = "publish" => pending # None BY <1>1 DEF IInv, Waiting
    <3> QED BY <1>1, <3>1, <3>2, <3>3, DownloadKept
  <2>2. CASE down # <<>>
    <3>1. Take BY <2>2 DEF AgentRing
    <3> QED BY <1>1, <2>2, <3>1, TakeKeeps
  <2> QED BY <2>1, <2>2
<1>4. down = <<>> => down' = down BY DEF AgentRing
<1>5. NobodyStranded'
  BY <1>1, <1>2, <1>4, Types DEF IInv, NobodyStranded
<1> QED BY <1>1, <1>2, <1>3, <1>5, Types, Parts

LEMMA AgentDeviceKeeps ==
    ASSUME IInv, NEW full \in BOOLEAN, AgentDevice(full) \/ AgentDeviceEnd(full)
    PROVE  IInv'
<1>1. /\ UNCHANGED <<down, next, pending, pump, upEvent, downEvent, deviceEvent, waiter,
                     token, shutdown>>
      /\ agent.at = "device"
  BY DEF AgentDevice, AgentDeviceEnd, pumpVars
<1>2. PICK at \in {"device", "batch", "failing", "signal"}, n \in Nat, p \in BOOLEAN :
        /\ agent' = [agent EXCEPT !.at = at, !.drained = n, !.published = p]
        /\ up' \in Nat /\ device' \in Nat
        /\ p \/ (up' = up /\ p = agent.published)
        /\ at = "signal" => device' = 0
  <2>1. CASE AgentDevice(full)
    <3> DEFINE at == IF full \/ agent.drained + 1 = AgentBatch THEN "batch" ELSE "device"
               p == agent.published \/ up < UpCap
    <3>1. agent' = [agent EXCEPT !.at = at, !.drained = @ + 1, !.published = p]
      BY <2>1 DEF AgentDevice
    <3>2. at \in {"batch", "device"} /\ p \in BOOLEAN /\ agent.drained + 1 \in Nat BY Types
    <3>3. up' \in Nat /\ device' \in Nat /\ (p \/ (up' = up /\ p = agent.published))
      BY <2>1, Types DEF AgentDevice
    <3>4. agent' = [agent EXCEPT !.at = at, !.drained = agent.drained + 1, !.published = p]
      BY <3>1
    <3> HIDE DEF at, p
    <3> QED BY <3>2, <3>3, <3>4
  <2>2. CASE AgentDeviceEnd(full)
    <3>1. /\ agent' = [agent EXCEPT !.at = IF full THEN "failing" ELSE "signal"]
          /\ UNCHANGED <<up, device>> /\ (full \/ device = 0)
      BY <2>2 DEF AgentDeviceEnd
    <3>2. PICK at \in {"failing", "signal"} :
            agent' = [agent EXCEPT !.at = at] /\ (at = "signal" => device = 0)
      BY <3>1
    <3>3. agent' = [agent EXCEPT !.at = at, !.drained = agent.drained,
                                 !.published = agent.published]
      BY <3>2, Types
    <3> QED BY <3>1, <3>2, <3>3, Types
  <2> QED BY <2>1, <2>2
<1>3. /\ agent' \in [at : AgentLabels, drained : Nat, published : BOOLEAN]
      /\ agent'.published = p /\ agent'.at = at
  BY <1>2, Types DEF AgentLabels
<1>4. /\ down' \in Seq(Int) /\ Len(down') <= DownCap /\ next' \in Nat /\ pending' \in Nat
      /\ Numbered' /\ Waiting'
  <2>1. pump'.at \in PumpLabels BY <1>1, Types
  <2>2. pump'.at = "publish" => pending # None BY <1>1 DEF IInv, Waiting
  <2> QED BY <1>1, <2>1, <2>2, DownloadKept
<1>5. NobodyStranded'
  BY <1>1, <1>2, <1>3, Types DEF IInv, NobodyStranded
<1> QED BY <1>1, <1>2, <1>3, <1>4, <1>5, Types, Parts

LEMMA AgentSignalKeeps ==
    ASSUME IInv, AgentSignal
    PROVE  IInv'
<1>1. /\ UNCHANGED <<down, next, pending, pump, up, device, downEvent, deviceEvent, waiter,
                     token, shutdown>>
      /\ agent.at \in {"batch", "signal", "failing"}
  BY DEF AgentSignal, pumpVars
<1>2. agent' \in [at : AgentLabels, drained : Nat, published : BOOLEAN]
  BY Types DEF AgentSignal, AgentLabels
<1>3. /\ upEvent' = (upEvent \/ agent.published)
      /\ IF agent.at = "failing" THEN agent'.at = "ended"
         ELSE IF agent.at = "signal" THEN agent'.at = "wait"
         ELSE shutdown \/ agent'.at = "device"
  BY Types DEF AgentSignal
<1>4. /\ down' \in Seq(Int) /\ Len(down') <= DownCap /\ next' \in Nat /\ pending' \in Nat
      /\ Numbered' /\ Waiting'
  <2>1. pump'.at \in PumpLabels BY <1>1, Types
  <2>2. pump'.at = "publish" => pending # None BY <1>1 DEF IInv, Waiting
  <2> QED BY <1>1, <2>1, <2>2, DownloadKept
<1>5. NobodyStranded'
  BY <1>1, <1>2, <1>3, Types DEF IInv, NobodyStranded
<1> QED BY <1>1, <1>2, <1>4, <1>5, Types, Parts

LEMMA WaiterKeeps ==
    ASSUME IInv, WaiterWait \/ WaiterNotify
    PROVE  IInv'
<1>1. /\ UNCHANGED <<down, next, pending, pump, agent, up, device, downEvent, deviceEvent,
                     shutdown>>
  BY DEF WaiterWait, WaiterNotify, pumpVars, agentVars
<1>2. \/ shutdown
      \/ waiter' = "notify" /\ token' = token
      \/ waiter = "notify" /\ token' /\ upEvent' = upEvent
  BY DEF WaiterWait, WaiterNotify, IInv, Waiting
<1>3. /\ down' \in Seq(Int) /\ Len(down') <= DownCap /\ next' \in Nat /\ pending' \in Nat
      /\ Numbered' /\ Waiting'
  <2>1. pump'.at \in PumpLabels BY <1>1, Types
  <2>2. pump'.at = "publish" => pending # None BY <1>1 DEF IInv, Waiting
  <2> QED BY <1>1, <2>1, <2>2, DownloadKept
<1>4. NobodyStranded'
  BY <1>1, <1>2, Types DEF IInv, NobodyStranded
<1> QED BY <1>1, <1>3, <1>4, Types, Parts

(***************************************************************************)
(* The Engine's pump.                                                       *)
(***************************************************************************)
\* It ends: its packet is dropped and the session is over.
LEMMA EndPumpKeeps ==
    ASSUME IInv, EndPump, UNCHANGED <<down, next, up, device, agent>>
    PROVE  IInv'
<1>1. /\ pump' = Idle("ended") /\ pending' = None /\ shutdown' BY DEF EndPump
<1>2. "ended" \in PumpLabels BY DEF PumpLabels
<1>3. /\ down' \in Seq(Int) /\ Len(down') <= DownCap /\ next' \in Nat /\ pending' \in Nat
      /\ Numbered' /\ Waiting'
  BY <1>1, <1>2, IdleFields, DownloadKept
<1>4. NobodyStranded' BY <1>1 DEF NobodyStranded
<1> QED BY <1>1, <1>2, <1>3, <1>4, IdleFields, Types, Parts

\* It goes on with the packet that it had.
LEMMA PumpGoesOn ==
    ASSUME IInv, UNCHANGED <<down, next, device, agent, pending, deviceEvent, upEvent, waiter,
                             shutdown>>,
           up' \in Nat,
           pump' \in [at : PumpLabels, readable : BOOLEAN, upload : BOOLEAN, batch : Nat,
                      then : Endings],
           pump'.at # "ended", pump.at # "ended",
           pump'.at = "publish" => pending # None,
           up' > 0 => up > 0 /\ (token \/ pump.readable => token' \/ pump'.readable),
           downEvent => downEvent',
           pump.at \in {"publish", "signal"} /\ pump.batch > 0 =>
              downEvent' \/ (pump'.at \in {"publish", "signal"} /\ pump'.batch > 0)
    PROVE  IInv'
<1>1. /\ down' \in Seq(Int) /\ Len(down') <= DownCap /\ next' \in Nat /\ pending' \in Nat
      /\ Numbered' /\ Waiting'
  <2>1. pump'.at \in PumpLabels OBVIOUS
  <2> QED BY <2>1, DownloadKept
<1>2. NobodyStranded'
  BY Types DEF IInv, NobodyStranded
<1> QED BY <1>1, <1>2, Types, Parts

LEMMA PumpTopKeeps ==
    ASSUME IInv, PumpTop
    PROVE  IInv'
<1>1. /\ UNCHANGED <<down, next, device, agent, deviceEvent, upEvent, downEvent, waiter, token>>
      /\ pump.at = "top"
  BY DEF PumpTop, agentVars
<1>2. CASE cancelled
  BY <1>1, <1>2, EndPumpKeeps DEF PumpTop
<1>3. CASE ~cancelled
  <2> DEFINE pop == ~pump.upload /\ pump.readable
             at == IF pending # None /\ due THEN "publish" ELSE "select"
             u == pump.upload \/ (pop /\ up > 0)
             r == pump.readable /\ ~(pop /\ up = 0)
  <2>1. /\ pump' = [pump EXCEPT !.at = at, !.upload = u, !.readable = r]
        /\ up' = IF pop /\ up > 0 THEN up - 1 ELSE up
        /\ UNCHANGED <<shutdown, pending>>
    BY <1>3 DEF PumpTop
  <2>2. /\ at \in {"publish", "select"} /\ (at = "publish" => pending # None)
        /\ u \in BOOLEAN /\ r \in BOOLEAN
    OBVIOUS
  <2>3. up' \in Nat /\ (up' > 0 => up > 0 /\ (pump.readable => r))
    BY <2>1, Types
  <2> HIDE DEF at, u, r
  <2>4. /\ pump' \in [at : PumpLabels, readable : BOOLEAN, upload : BOOLEAN, batch : Nat,
                      then : Endings]
        /\ pump'.at = at /\ pump'.readable = r
    BY <2>1, <2>2, Types DEF PumpLabels
  <2>5. up' > 0 => up > 0 /\ (token \/ pump.readable => token' \/ pump'.readable)
    BY <1>1, <2>3, <2>4
  <2> QED BY <1>1, <2>1, <2>2, <2>3, <2>4, <2>5, PumpGoesOn
<1> QED BY <1>2, <1>3

\* A packet that finds room goes into the ring; the next one, if the tunnel has
\* it, is numbered after it.
LEMMA AppendKeeps ==
    ASSUME IInv, pump.at = "publish", Len(down) # DownCap, down' = Append(down, pending),
           shutdown' = shutdown, pump'.at \in {"publish", "signal"},
           \/ pending' = next /\ next' = next + 1
           \/ pending' = None /\ next' = next /\ pump'.at = "signal"
    PROVE  /\ down' \in Seq(Int) /\ Len(down') <= DownCap /\ next' \in Nat /\ pending' \in Nat
           /\ Numbered' /\ Waiting'
<1> DEFINE n == Len(down)
<1>1. n \in Nat /\ n < DownCap /\ DownCap \in Nat /\ None > DownCap /\ None \in Nat
      /\ None' = None /\ pending = n /\ next = n + 1
  <2>1. None' = None BY DEF None
  <2>2. pending = n /\ next = n + 1 BY DEF IInv, Waiting
  <2> QED BY <2>1, <2>2, Types
<1>2. down' \in Seq(Int) /\ Len(down') = n + 1 BY <1>1, Types
<1>3. \A i \in 1 .. n + 1 : down'[i] = IF i <= n THEN down[i] ELSE pending
  BY <1>1, Types
<1>4. Numbered'
  BY <1>1, <1>2, <1>3 DEF IInv, Numbered
<1>5. Waiting'
  BY <1>1, <1>2 DEF Waiting
<1> QED BY <1>1, <1>2, <1>4, <1>5

LEMMA PublishKeeps ==
    ASSUME IInv, NEW more \in {"packet", "none", "full", "error"}, Publish(more)
    PROVE  IInv'
<1>1. /\ UNCHANGED <<up, device, agent, deviceEvent, upEvent, downEvent, waiter, token, shutdown>>
      /\ pump.at = "publish"
  BY DEF Publish, agentVars
<1>2. CASE Len(down) = DownCap
  <2>1. /\ UNCHANGED <<down, next, pending>>
        /\ pump' = [pump EXCEPT !.at = "signal", !.then = "blocked"]
    BY <1>2 DEF Publish
  <2>2. /\ pump' \in [at : PumpLabels, readable : BOOLEAN, upload : BOOLEAN, batch : Nat,
                      then : Endings]
        /\ pump'.at = "signal" /\ pump'.batch = pump.batch /\ pump'.readable = pump.readable
    BY <2>1, Types DEF PumpLabels, Endings
  <2> QED BY <1>1, <2>1, <2>2, Types, PumpGoesOn
<1>3. CASE Len(down) # DownCap
  <2> DEFINE go == more = "packet" /\ pump.batch + 1 < EngineBatch
             at == IF go THEN "publish" ELSE "signal"
             then == IF more = "error" /\ pump.batch + 1 < EngineBatch
                     THEN "failed" ELSE "ready"
  <2>1. /\ down' = Append(down, pending)
        /\ pump' = [pump EXCEPT !.batch = @ + 1, !.at = at, !.then = then]
        /\ IF go THEN pending' = next /\ next' = next + 1
           ELSE pending' = None /\ UNCHANGED next
    BY <1>3 DEF Publish
  <2>2. /\ at \in {"publish", "signal"} /\ then \in Endings
        /\ \/ pending' = next /\ next' = next + 1
           \/ pending' = None /\ next' = next /\ at = "signal"
    BY <2>1 DEF Endings
  <2>3. pump.batch + 1 \in Nat /\ pump.batch + 1 > 0 BY Types
  <2> HIDE DEF go, at, then
  <2>4. /\ pump' \in [at : PumpLabels, readable : BOOLEAN, upload : BOOLEAN, batch : Nat,
                      then : Endings]
        /\ pump'.at = at /\ pump'.batch > 0 /\ pump'.readable = pump.readable
    BY <2>1, <2>2, <2>3, Types DEF PumpLabels
  <2>5. /\ down' \in Seq(Int) /\ Len(down') <= DownCap /\ next' \in Nat /\ pending' \in Nat
        /\ Numbered' /\ Waiting'
    BY <1>1, <1>3, <2>1, <2>2, <2>4, AppendKeeps
  <2>6. NobodyStranded'
    BY <1>1, <2>2, <2>4, Types DEF IInv, NobodyStranded
  <2> QED BY <1>1, <2>4, <2>5, <2>6, Types, Parts
<1> QED BY <1>2, <1>3

LEMMA SignalKeeps ==
    ASSUME IInv, PublishCancelled \/ PublishSignal
    PROVE  IInv'
<1>1. UNCHANGED <<down, next, up, device, agent, deviceEvent, upEvent, waiter, token>>
  BY DEF PublishCancelled, PublishSignal, agentVars
<1>2. CASE PublishCancelled
  <2>1. /\ pump.at = "publish" /\ UNCHANGED <<pending, shutdown, downEvent>>
        /\ pump' = [pump EXCEPT !.at = "signal", !.then = "cancelled"]
    BY <1>2 DEF PublishCancelled
  <2>2. /\ pump' \in [at : PumpLabels, readable : BOOLEAN, upload : BOOLEAN, batch : Nat,
                      then : Endings]
        /\ pump'.at = "signal" /\ pump'.batch = pump.batch /\ pump'.readable = pump.readable
    BY <2>1, Types DEF PumpLabels, Endings
  <2> QED BY <1>1, <2>1, <2>2, Types, PumpGoesOn
<1>3. CASE PublishSignal
  <2>1. CASE EndPump BY <1>1, <2>1, EndPumpKeeps
  <2>2. CASE ~EndPump
    <3>1. /\ pump.at = "signal" /\ UNCHANGED <<pending, shutdown>>
          /\ pump' = [pump EXCEPT !.at = "select", !.batch = 0, !.then = "select"]
          /\ downEvent' = (downEvent \/ pump.batch > 0)
      BY <1>3, <2>2 DEF PublishSignal, Fail
    <3>2. /\ pump' \in [at : PumpLabels, readable : BOOLEAN, upload : BOOLEAN, batch : Nat,
                        then : Endings]
          /\ pump'.at = "select" /\ pump'.readable = pump.readable
      BY <3>1, Types DEF PumpLabels, Endings
    <3> QED BY <1>1, <3>1, <3>2, Types, PumpGoesOn
  <2> QED BY <2>1, <2>2
<1> QED BY <1>2, <1>3

\* A branch of the select ends the pump, or leads back to its top.
LEMMA SelectKeeps ==
    ASSUME IInv, \/ SelectCancelled \/ SelectReady \/ SelectClosed \/ SelectRetry
                 \/ \E ok \in BOOLEAN : SelectSent(ok)
                 \/ SelectReceived(FALSE)
    PROVE  IInv'
<1>1. /\ UNCHANGED <<down, next, up, device, agent, deviceEvent, upEvent, downEvent, waiter>>
      /\ pump.at = "select"
  BY DEF SelectCancelled, SelectReady, SelectClosed, SelectRetry, SelectSent, SelectReceived,
         agentVars
<1>2. CASE EndPump BY <1>1, <1>2, EndPumpKeeps
<1>3. CASE ~EndPump
  <2>1. /\ UNCHANGED <<pending, shutdown>>
        /\ \/ pump' = [pump EXCEPT !.at = "top", !.readable = TRUE]
           \/ pump' = [pump EXCEPT !.at = "top", !.upload = FALSE] /\ token' = token
           \/ pump' = [pump EXCEPT !.at = "top"] /\ token' = token
    BY <1>3 DEF SelectCancelled, SelectReady, SelectClosed, SelectRetry, SelectSent,
                SelectReceived, Fail
  <2>2. /\ pump' \in [at : PumpLabels, readable : BOOLEAN, upload : BOOLEAN, batch : Nat,
                      then : Endings]
        /\ pump'.at = "top"
        /\ pump'.readable \/ (token' = token /\ pump'.readable = pump.readable)
    BY <2>1, Types DEF PumpLabels
  <2> QED BY <1>1, <2>1, <2>2, Types, PumpGoesOn
<1> QED BY <1>2, <1>3

LEMMA ReceivedKeeps ==
    ASSUME IInv, SelectReceived(TRUE)
    PROVE  IInv'
<1>1. /\ UNCHANGED <<down, up, device, agent, deviceEvent, upEvent, downEvent, waiter, token,
                     shutdown>>
      /\ pump.at = "select" /\ pending = None /\ pending' = next /\ next' = next + 1
      /\ pump' = [pump EXCEPT !.at = "top"]
  BY DEF SelectReceived, agentVars
<1>2. /\ pump' \in [at : PumpLabels, readable : BOOLEAN, upload : BOOLEAN, batch : Nat,
                    then : Endings]
      /\ pump'.at = "top" /\ pump'.readable = pump.readable
  BY <1>1, Types DEF PumpLabels
<1>3. None' = None BY DEF None
<1>4. next = Len(down) BY <1>1 DEF IInv, Waiting
<1>5. Numbered' BY <1>1 DEF IInv, Numbered
<1>6. Waiting' BY <1>1, <1>2, <1>3, <1>4, Types DEF Waiting
<1>7. NobodyStranded'
  BY <1>1, <1>2, Types DEF IInv, NobodyStranded
<1> QED BY <1>1, <1>2, <1>4, <1>5, <1>6, <1>7, Types, Parts

LEMMA CancelPumpsKeeps ==
    ASSUME IInv, CancelPumps
    PROVE  IInv'
<1>1. UNCHANGED <<down, next, up, device, agent>> /\ shutdown'
  BY DEF CancelPumps, agentVars
<1>2. CASE EndPump BY <1>1, <1>2, EndPumpKeeps
<1>3. CASE ~EndPump
  <2>1. UNCHANGED <<pump, pending>> BY <1>3 DEF CancelPumps
  <2>2. pump'.at = "publish" => pending # None BY <2>1 DEF IInv, Waiting
  <2>3. pump'.at \in PumpLabels BY <2>1, Types
  <2>4. /\ down' \in Seq(Int) /\ Len(down') <= DownCap /\ next' \in Nat /\ pending' \in Nat
        /\ Numbered' /\ Waiting'
    BY <1>1, <2>1, <2>2, <2>3, DownloadKept
  <2>5. NobodyStranded' BY <1>1 DEF NobodyStranded
  <2> QED BY <1>1, <2>1, <2>4, <2>5, Types, Parts
<1> QED BY <1>2, <1>3

\* Every step of the two processes keeps the invariant.
LEMMA StepInv == IInv /\ [Next]_vars => IInv'
<1> SUFFICES ASSUME IInv, [Next]_vars PROVE IInv' OBVIOUS
<1>1. CASE Agent
  BY <1>1, AgentWaitKeeps, AgentRingKeeps, AgentDeviceKeeps, AgentSignalKeeps DEF Agent
<1>2. CASE Waiter BY <1>2, WaiterKeeps DEF Waiter
<1>3. CASE PumpWorks
  BY <1>3, PumpTopKeeps, SignalKeeps, SelectKeeps, PublishKeeps DEF PumpWorks
<1>4. CASE DeviceReceives \/ AgentStops \/ LivenessLost \/ StopTasks \/ CancelPumps
  BY <1>4, OutsideKeeps, CancelPumpsKeeps
<1>5. CASE Finished \/ UNCHANGED vars
  BY <1>5, OutsideKeeps DEF Finished
<1>6. ASSUME NEW ok \in BOOLEAN, SelectReceived(ok) PROVE IInv'
  BY <1>6, SelectKeeps, ReceivedKeeps
<1>7. CASE SelectReady \/ SelectClosed \/ SelectRetry \/ \E ok \in BOOLEAN : SelectSent(ok)
  BY <1>7, SelectKeeps
<1> QED BY <1>1, <1>2, <1>3, <1>4, <1>5, <1>6, <1>7 DEF Next

\* IInv holds in every reachable state of the session, for all sizes.
THEOREM PumpInvariance == Spec => []IInv
  BY InitInv, StepInv, PTL DEF Spec

\* "The consumer drains until empty, so auto-reset event coalescing cannot
\* strand packets" (packet_session.rs, packet_pump.rs): somebody is always
\* going to look at a packet in a ring or in the device.
THEOREM PacketsAreSeen == Spec => []NobodyStranded
<1>1. IInv => NobodyStranded BY DEF IInv
<1> QED BY <1>1, PumpInvariance, PTL

LEMMA InvIsLossless == IInv => DownloadIsLossless
<1> SUFFICES ASSUME IInv, pump.at # "ended"
             PROVE  LET way == IF pending = None THEN down ELSE Append(down, pending)
                    IN  next = Len(way) /\ \A i \in 1 .. Len(way) : way[i] = i - 1
  BY DEF DownloadIsLossless
<1>1. CASE pending = None
  BY <1>1, Types DEF IInv, Waiting, Numbered
<1>2. CASE pending # None
  <2> DEFINE way == Append(down, pending)
  <2>1. pending = Len(down) /\ next = Len(down) + 1
    BY <1>2 DEF IInv, Waiting
  <2>2. /\ Len(way) = Len(down) + 1
        /\ \A i \in 1 .. Len(down) + 1 : way[i] = IF i <= Len(down) THEN down[i] ELSE pending
    BY Types
  <2>3. \A i \in 1 .. Len(way) : way[i] = i - 1
    BY <2>1, <2>2, Types DEF IInv, Numbered
  <2> QED BY <1>2, <2>1, <2>2, <2>3
<1> QED BY <1>1, <1>2

\* publish_engine_packet_batch neither loses nor reorders a packet of the tunnel
\* when the ring is full.
THEOREM DownloadsAreKept == Spec => []DownloadIsLossless
  BY InvIsLossless, PumpInvariance, PTL
=============================================================================
