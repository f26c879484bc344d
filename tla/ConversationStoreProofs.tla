----------------------- MODULE ConversationStoreProofs -----------------------
(***************************************************************************)
(* Facts about the histories of ConversationStore, for any requests and    *)
(* any number of turns kept: what a cut leaves is the end of the history,  *)
(* cuts compose, one more request is one more exchange at the end, and a   *)
(* redo takes away exactly the last exchange, however much of it is there. *)
(***************************************************************************)
EXTENDS ConversationStore, SequenceTheorems, TLAPS

(* The second of each pair of positions, and the pair each belongs to. *)
LEMMA Halves ==
  ASSUME NEW n \in Nat
  PROVE  /\ \A i \in 1 .. 2 * n : (i + 1) \div 2 \in 1 .. n
         /\ (2 * n + 1) % 2 = 1 /\ (2 * n + 1 + 1) \div 2 = n + 1
         /\ (2 * n + 2) % 2 = 0 /\ (2 * n + 2 + 1) \div 2 = n + 1
OBVIOUS

LEMMA OneOrMore ==
  ASSUME NEW n \in Nat
  PROVE  (n = 0 \/ n >= 1) /\ (n >= 1 => n = 1 \/ n > 1)
OBVIOUS

(* The turns of the requests, one by one. *)
LEMMA ExchangesProps ==
  ASSUME NEW R, NEW rs \in Seq(R)
  PROVE  /\ Exchanges(rs) \in Seq([role : Roles, of : R]) /\ Len(Exchanges(rs)) = 2 * Len(rs)
         /\ \A i \in 1 .. 2 * Len(rs) : Exchanges(rs)[i] =
              Turn(IF i % 2 = 1 THEN "user" ELSE "assistant", rs[(i + 1) \div 2])
<1>1. Len(rs) \in Nat /\ 2 * Len(rs) \in Nat
  OBVIOUS
<1>2. \A i \in 1 .. 2 * Len(rs) : rs[(i + 1) \div 2] \in R
  BY <1>1, Halves
<1>3. \A i \in 1 .. 2 * Len(rs) :
        Turn(IF i % 2 = 1 THEN "user" ELSE "assistant", rs[(i + 1) \div 2]) \in [role : Roles, of : R]
  BY <1>2 DEF Turn, Roles
<1>4. Exchanges(rs) \in [1 .. 2 * Len(rs) -> [role : Roles, of : R]]
  BY <1>3 DEF Exchanges
<1>5. \A i \in 1 .. 2 * Len(rs) : Exchanges(rs)[i] =
        Turn(IF i % 2 = 1 THEN "user" ELSE "assistant", rs[(i + 1) \div 2])
  BY DEF Exchanges
<1>6. Exchanges(rs) \in Seq([role : Roles, of : R]) /\ Len(Exchanges(rs)) = 2 * Len(rs)
  <2> DEFINE T == [role : Roles, of : R]
  <2>1. Exchanges(rs) \in [1 .. 2 * Len(rs) -> T]
    BY <1>4
  <2> HIDE DEF T
  <2>2. Exchanges(rs) \in Seq(T) /\ Len(Exchanges(rs)) = 2 * Len(rs)
    BY <1>1, <2>1
  <2> QED  BY <2>2 DEF T
<1> QED  BY <1>5, <1>6

LEMMA NothingSaved ==
  Exchanges(<<>>) = <<>> /\ LastN(Exchanges(<<>>), MaxHistory) = <<>>
<1> DEFINE T == [role : Roles, of : {}]
<1>1. <<>> \in Seq({}) /\ Len(<<>>) = 0
  OBVIOUS
<1>2. Exchanges(<<>>) \in Seq(T) /\ Len(Exchanges(<<>>)) = 2 * Len(<<>>)
  BY <1>1, ExchangesProps
<1> HIDE DEF T
<1>3. Exchanges(<<>>) = <<>>
  BY <1>1, <1>2
<1>4. LastN(<<>>, MaxHistory) = <<>>
  BY MaxHistoryAssumption DEF LastN
<1> QED  BY <1>3, <1>4

(* g is what h ends with, *)
Ends(g, h) ==
  /\ Len(g) <= Len(h)
  /\ \A i \in 1 .. Len(g) : g[i] = h[Len(h) - Len(g) + i]

(* and of its length it is the only one. *)
LEMMA OneEnd ==
  ASSUME NEW S, NEW g \in Seq(S), NEW f \in Seq(S), NEW h \in Seq(S),
         Ends(g, h), Ends(f, h), Len(g) = Len(f)
  PROVE  g = f
BY SeqEqual DEF Ends

(* The end of an end, *)
LEMMA EndsAgain ==
  ASSUME NEW S, NEW f \in Seq(S), NEW g \in Seq(S), NEW h \in Seq(S), Ends(f, g), Ends(g, h)
  PROVE  Ends(f, h)
<1>1. Len(f) \in Nat /\ Len(g) \in Nat /\ Len(h) \in Nat /\ Len(f) <= Len(g) /\ Len(g) <= Len(h)
  BY DEF Ends
<1>2. ASSUME NEW i \in 1 .. Len(f) PROVE f[i] = h[Len(h) - Len(f) + i]
  <2> DEFINE j == Len(g) - Len(f) + i
  <2>1. f[i] = g[j]
    BY DEF Ends
  <2>2. j \in 1 .. Len(g)
    BY <1>1
  <2>3. Len(h) - Len(g) + j = Len(h) - Len(f) + i
    BY <1>1
  <2> HIDE DEF j
  <2>4. g[j] = h[Len(h) - Len(g) + j]
    BY <2>2 DEF Ends
  <2> QED  BY <2>1, <2>3, <2>4
<1> QED  BY <1>1, <1>2 DEF Ends

(* The same at the end of both. *)
LEMMA EndsMore ==
  ASSUME NEW S, NEW g \in Seq(S), NEW h \in Seq(S), NEW t \in Seq(S), Ends(g, h)
  PROVE  Ends(g \o t, h \o t)
<1>1. Len(g) \in Nat /\ Len(h) \in Nat /\ Len(t) \in Nat /\ Len(g) <= Len(h)
  BY DEF Ends
<1>2. /\ Len(g \o t) = Len(g) + Len(t)
      /\ \A i \in 1 .. Len(g) + Len(t) : (g \o t)[i] = IF i <= Len(g) THEN g[i] ELSE t[i - Len(g)]
  BY ConcatProperties
<1>3. /\ Len(h \o t) = Len(h) + Len(t)
      /\ \A i \in 1 .. Len(h) + Len(t) : (h \o t)[i] = IF i <= Len(h) THEN h[i] ELSE t[i - Len(h)]
  BY ConcatProperties
<1>4. ASSUME NEW i \in 1 .. Len(g) + Len(t)
      PROVE  (g \o t)[i] = (h \o t)[Len(h) - Len(g) + i]
  <2> SUFFICES ASSUME NEW j, j = Len(h) - Len(g) + i PROVE (g \o t)[i] = (h \o t)[j]
    OBVIOUS
  <2>1. j \in 1 .. Len(h) + Len(t) /\ (i <= Len(g) <=> j <= Len(h)) /\ i - Len(g) = j - Len(h)
    BY <1>1
  <2>2. i \in 1 .. Len(g) => g[i] = h[j]
    BY DEF Ends
  <2>3. (h \o t)[j] = IF j <= Len(h) THEN h[j] ELSE t[j - Len(h)]
    BY <1>3, <2>1
  <2>4. (g \o t)[i] = IF i <= Len(g) THEN g[i] ELSE t[i - Len(g)]
    BY <1>2
  <2>5. CASE i <= Len(g)
    BY <2>1, <2>2, <2>3, <2>4, <2>5
  <2>6. CASE ~(i <= Len(g))
    BY <2>1, <2>3, <2>4, <2>6
  <2> QED  BY <2>5, <2>6
<1>5. Len(h \o t) - Len(g \o t) = Len(h) - Len(g) /\ Len(g \o t) <= Len(h \o t)
  BY <1>1, <1>2, <1>3
<1> QED  BY <1>2, <1>4, <1>5 DEF Ends

(* A cut keeps the end. *)
LEMMA LastNProps ==
  ASSUME NEW S, NEW h \in Seq(S), NEW n \in Nat
  PROVE  /\ LastN(h, n) \in Seq(S) /\ Ends(LastN(h, n), h)
         /\ Len(LastN(h, n)) = IF Len(h) > n THEN n ELSE Len(h)
<1>0. Len(h) \in Nat
  OBVIOUS
<1>1. CASE Len(h) > n
  <2> DEFINE m == Len(h) - n + 1
             g == SubSeq(h, m, Len(h))
  <2>1. \A i \in m .. Len(h) : h[i] \in S
    BY <1>0, <1>1
  <2>2. m \in Nat /\ m \in 1 .. Len(h) + 1 /\ Len(h) - m + 1 = n /\ \A i \in 1 .. n : m + i - 1 = Len(h) - n + i
    BY <1>0, <1>1
  <2> HIDE DEF m
  <2>3. /\ g \in Seq(S)
        /\ Len(g) = IF m <= Len(h) THEN Len(h) - m + 1 ELSE 0
        /\ \A i \in 1 .. Len(h) - m + 1 : g[i] = h[m + i - 1]
    BY <1>0, <2>1, <2>2, SubSeqProperties
  <2>4. LastN(h, n) = g
    BY <1>1 DEF LastN, m
  <2> HIDE DEF g
  <2>5. Len(g) = n /\ \A i \in 1 .. n : g[i] = h[Len(h) - n + i]
    <3>1. Len(g) = n
      BY <1>0, <2>2, <2>3
    <3>2. ASSUME NEW i \in 1 .. n PROVE g[i] = h[Len(h) - n + i]
      <4>1. i \in 1 .. Len(h) - m + 1 /\ m + i - 1 = Len(h) - n + i
        BY <2>2
      <4>2. g[i] = h[m + i - 1]
        BY <2>3, <4>1
      <4> QED  BY <4>1, <4>2
    <3> QED  BY <3>1, <3>2
  <2>6. Ends(g, h)
    <3>1. Len(g) <= Len(h)
      BY <1>0, <1>1, <2>5
    <3>2. \A i \in 1 .. Len(g) : g[i] = h[Len(h) - Len(g) + i]
      BY <2>5
    <3> QED  BY <3>1, <3>2 DEF Ends
  <2>7. Len(g) = IF Len(h) > n THEN n ELSE Len(h)
    BY <1>1, <2>5
  <2>8. g \in Seq(S)
    BY <2>3
  <2> QED  BY <2>4, <2>6, <2>7, <2>8
<1>2. CASE ~(Len(h) > n)
  BY <1>0, <1>2 DEF LastN, Ends
<1> QED  BY <1>1, <1>2

(* The last m of the last n. *)
LEMMA LastOfLast ==
  ASSUME NEW S, NEW h \in Seq(S), NEW n \in Nat, NEW m \in Nat
  PROVE  LastN(LastN(h, n), m) = LastN(h, IF n < m THEN n ELSE m)
<1> DEFINE q == IF n < m THEN n ELSE m
           g == LastN(h, n)
<1>1. g \in Seq(S) /\ Ends(g, h) /\ Len(g) = IF Len(h) > n THEN n ELSE Len(h)
  BY LastNProps
<1>2. q \in Nat /\ q = (IF n < m THEN n ELSE m)
  OBVIOUS
<1> HIDE DEF q, g
<1>3. LastN(g, m) \in Seq(S) /\ Ends(LastN(g, m), g) /\ Len(LastN(g, m)) = IF Len(g) > m THEN m ELSE Len(g)
  BY <1>1, LastNProps
<1>4. LastN(h, q) \in Seq(S) /\ Ends(LastN(h, q), h) /\ Len(LastN(h, q)) = IF Len(h) > q THEN q ELSE Len(h)
  BY <1>2, LastNProps
<1>5. Len(LastN(g, m)) = Len(LastN(h, q))
  <2>1. Len(h) \in Nat
    OBVIOUS
  <2> QED  BY <1>1, <1>2, <1>3, <1>4, <2>1
<1>6. Ends(LastN(g, m), h)
  BY <1>1, <1>3, EndsAgain
<1>7. LastN(g, m) = LastN(h, q)
  BY <1>3, <1>4, <1>5, <1>6, OneEnd
<1> QED  BY <1>7 DEF q, g

(* What is added to the last n is added to the whole. *)
LEMMA LastAndMore ==
  ASSUME NEW S, NEW h \in Seq(S), NEW t \in Seq(S), NEW n \in Nat
  PROVE  LastN(h, n) \o t = LastN(h \o t, n + Len(t))
<1> DEFINE g == LastN(h, n)
           b == h \o t
           m == n + Len(t)
<1>0. Len(h) \in Nat /\ Len(t) \in Nat /\ m \in Nat
  OBVIOUS
<1>1. g \in Seq(S) /\ Ends(g, h) /\ Len(g) = IF Len(h) > n THEN n ELSE Len(h)
  BY LastNProps
<1>2. b \in Seq(S) /\ Len(b) = Len(h) + Len(t)
  BY ConcatProperties
<1> HIDE DEF g
<1>3. g \o t \in Seq(S) /\ Len(g \o t) = Len(g) + Len(t)
  BY <1>1, ConcatProperties
<1>4. Ends(g \o t, b)
  BY <1>1, EndsMore
<1> HIDE DEF b
<1>5. LastN(b, m) \in Seq(S) /\ Ends(LastN(b, m), b) /\ Len(LastN(b, m)) = IF Len(b) > m THEN m ELSE Len(b)
  BY <1>0, <1>2, LastNProps
<1>6. Len(g \o t) = Len(LastN(b, m))
  BY <1>0, <1>1, <1>2, <1>3, <1>5
<1>7. g \o t = LastN(b, m)
  BY <1>2, <1>3, <1>4, <1>5, <1>6, OneEnd
<1> QED  BY <1>7 DEF g, b

(* What is added to what is kept leaves what adding it to the whole does. *)
LEMMA ExtendedLast ==
  ASSUME NEW S, NEW h \in Seq(S), NEW t \in Seq(S)
  PROVE  Extended(LastN(h, MaxHistory), t) = LastN(h \o t, MaxHistory)
<1> DEFINE m == MaxHistory + Len(t)
<1>1. MaxHistory \in Nat /\ m \in Nat /\ (m < MaxHistory => FALSE)
  <2>1. Len(t) \in Nat
    OBVIOUS
  <2> QED  BY <2>1, MaxHistoryAssumption
<1>2. LastN(h, MaxHistory) \o t = LastN(h \o t, m)
  BY <1>1, LastAndMore
<1>3. h \o t \in Seq(S)
  OBVIOUS
<1> HIDE DEF m
<1>4. LastN(LastN(h \o t, m), MaxHistory) = LastN(h \o t, MaxHistory)
  BY <1>1, <1>3, LastOfLast
<1> QED  BY <1>2, <1>4 DEF Extended

(* What is kept was there or was added. *)
LEMMA ExtendedFrom ==
  ASSUME NEW S, NEW h \in Seq(S), NEW t \in Seq(S)
  PROVE  /\ Extended(h, t) \in Seq(S)
         /\ \A i \in DOMAIN Extended(h, t) :
              \/ \E j \in DOMAIN h : Extended(h, t)[i] = h[j]
              \/ \E j \in DOMAIN t : Extended(h, t)[i] = t[j]
<1> DEFINE b == h \o t
           e == Extended(h, t)
<1>0. Len(h) \in Nat /\ Len(t) \in Nat
  OBVIOUS
<1>1. /\ b \in Seq(S) /\ Len(b) = Len(h) + Len(t)
      /\ \A i \in 1 .. Len(h) + Len(t) : b[i] = IF i <= Len(h) THEN h[i] ELSE t[i - Len(h)]
  BY ConcatProperties
<1>2. e = LastN(b, MaxHistory)
  BY DEF Extended
<1> HIDE DEF b, e
<1>3. e \in Seq(S) /\ Ends(e, b)
  BY <1>1, <1>2, MaxHistoryAssumption, LastNProps
<1>4. ASSUME NEW i \in DOMAIN e
      PROVE  (\E j \in DOMAIN h : e[i] = h[j]) \/ (\E j \in DOMAIN t : e[i] = t[j])
  <2>1. i \in 1 .. Len(e) /\ Len(e) \in Nat /\ Len(e) <= Len(b)
    BY <1>3 DEF Ends
  <2>2. PICK k : k = Len(b) - Len(e) + i
    OBVIOUS
  <2>3. e[i] = b[k] /\ k \in 1 .. Len(h) + Len(t)
    BY <1>0, <1>1, <1>3, <2>1, <2>2 DEF Ends
  <2>4. CASE k <= Len(h)
    BY <1>0, <1>1, <2>3, <2>4
  <2>5. CASE ~(k <= Len(h))
    <3>1. k - Len(h) \in 1 .. Len(t) /\ b[k] = t[k - Len(h)]
      BY <1>0, <1>1, <2>3, <2>5
    <3> QED  BY <2>3, <3>1
  <2> QED  BY <2>4, <2>5
<1> QED  BY <1>3, <1>4 DEF e

-----------------------------------------------------------------------------
(* One more exchange. *)
LEMMA ExchangesMore ==
  ASSUME NEW R, NEW rs \in Seq(R), NEW r \in R
  PROVE  /\ Exchange(r) \in Seq([role : Roles, of : R]) /\ Len(Exchange(r)) = 2
         /\ Exchanges(Append(rs, r)) = Exchanges(rs) \o Exchange(r)
<1> DEFINE T == [role : Roles, of : R]
           n == Len(rs)
           e == Exchanges(rs)
           x == Exchange(r)
           a == Append(rs, r)
           f == Exchanges(a)
           who(i) == IF i % 2 = 1 THEN "user" ELSE "assistant"
<1>0. n \in Nat
  OBVIOUS
<1>1. a \in Seq(R) /\ Len(a) = n + 1 /\ (\A i \in 1 .. n : a[i] = rs[i]) /\ a[n + 1] = r
  BY AppendProperties
<1>2. /\ e \in Seq(T) /\ Len(e) = 2 * n
      /\ \A i \in 1 .. 2 * n : e[i] = Turn(who(i), rs[(i + 1) \div 2])
  BY ExchangesProps
<1> HIDE DEF a
<1>3. /\ f \in Seq(T) /\ Len(f) = 2 * (n + 1)
      /\ \A i \in 1 .. 2 * (n + 1) : f[i] = Turn(who(i), a[(i + 1) \div 2])
  BY <1>1, ExchangesProps
<1>4. /\ x \in Seq(T) /\ Len(x) = 2 /\ x[1] = Turn("user", r) /\ x[2] = Turn("assistant", r)
  <2>1. Turn("user", r) \in T /\ Turn("assistant", r) \in T
    BY DEF Turn, Roles
  <2> HIDE DEF T
  <2> QED  BY <2>1 DEF Exchange
<1> HIDE DEF e, f, x, n, T
<1>5. /\ e \o x \in Seq(T) /\ Len(e \o x) = 2 * n + 2
      /\ \A i \in 1 .. 2 * n + 2 : (e \o x)[i] = IF i <= 2 * n THEN e[i] ELSE x[i - 2 * n]
  <2>1. e \in Seq(T) /\ x \in Seq(T)
    BY <1>2, <1>4 DEF e, n
  <2>2. Len(e) = 2 * n /\ Len(x) = 2
    BY <1>2, <1>4
  <2>3. /\ e \o x \in Seq(T) /\ Len(e \o x) = Len(e) + Len(x)
        /\ \A i \in 1 .. Len(e) + Len(x) : (e \o x)[i] = IF i <= Len(e) THEN e[i] ELSE x[i - Len(e)]
    BY <2>1, ConcatProperties
  <2> QED  BY <2>2, <2>3
<1>6. ASSUME NEW i \in 1 .. 2 * n + 2 PROVE f[i] = (e \o x)[i]
  <2>1. f[i] = Turn(who(i), a[(i + 1) \div 2])
    BY <1>0, <1>3
  <2>2. CASE i <= 2 * n
    <3>1. i \in 1 .. 2 * n /\ (i + 1) \div 2 \in 1 .. n
      BY <1>0, <2>2, Halves
    <3>2. a[(i + 1) \div 2] = rs[(i + 1) \div 2]
      BY <1>1, <3>1 DEF n
    <3>3. e[i] = Turn(who(i), rs[(i + 1) \div 2])
      BY <1>2, <3>1 DEF e, n
    <3>4. (e \o x)[i] = e[i]
      BY <1>5, <2>2
    <3> QED  BY <2>1, <3>2, <3>3, <3>4
  <2>3. CASE i = 2 * n + 1
    <3>1. i % 2 = 1 /\ (i + 1) \div 2 = n + 1
      BY <1>0, <2>3, Halves
    <3>2. (e \o x)[i] = x[1]
      BY <1>0, <1>5, <2>3
    <3> QED  BY <1>1, <1>4, <2>1, <3>1, <3>2
  <2>4. CASE i = 2 * n + 2
    <3>1. i % 2 = 0 /\ (i + 1) \div 2 = n + 1
      BY <1>0, <2>4, Halves
    <3>2. (e \o x)[i] = x[2]
      <4>1. i \in 1 .. 2 * n + 2 /\ ~(i <= 2 * n) /\ i - 2 * n = 2
        BY <1>0, <2>4
      <4> QED  BY <1>5, <4>1
    <3> QED  BY <1>1, <1>4, <2>1, <3>1, <3>2
  <2>5. i <= 2 * n \/ i = 2 * n + 1 \/ i = 2 * n + 2
    BY <1>0
  <2> QED  BY <2>2, <2>3, <2>4, <2>5
<1>7. f = e \o x
  <2>1. f \in Seq(T) /\ Len(f) = 2 * n + 2 /\ e \o x \in Seq(T) /\ Len(e \o x) = 2 * n + 2
    BY <1>0, <1>3, <1>5
  <2> QED  BY <1>6, <2>1, SeqEqual
<1> QED  BY <1>4, <1>7 DEF f, a, e, x, T

(* Saved in one call or in two, an exchange is one more exchange of what   *)
(* is kept.                                                                *)
LEMMA ExchangeSaved ==
  ASSUME NEW R, NEW c \in Seq(R), NEW r \in R
  PROVE  /\ Extended(LastN(Exchanges(c), MaxHistory), Exchange(r))
              = LastN(Exchanges(Append(c, r)), MaxHistory)
         /\ Extended(Extended(LastN(Exchanges(c), MaxHistory), <<Turn("user", r)>>),
                     <<Turn("assistant", r)>>)
              = LastN(Exchanges(Append(c, r)), MaxHistory)
<1> DEFINE T == [role : Roles, of : R]
           e == Exchanges(c)
           u == <<Turn("user", r)>>
           a == <<Turn("assistant", r)>>
<1>1. e \in Seq(T)
  BY ExchangesProps
<1>2. Exchange(r) \in Seq(T) /\ Exchanges(Append(c, r)) = e \o Exchange(r)
  BY ExchangesMore
<1>3. u \in Seq(T) /\ a \in Seq(T)
  <2>1. Turn("user", r) \in T /\ Turn("assistant", r) \in T
    BY DEF Turn, Roles
  <2> HIDE DEF T
  <2> QED  BY <2>1
<1>4. Exchange(r) = u \o a
  BY DEF Exchange
<1> HIDE DEF T, e, u, a
<1>5. Extended(LastN(e, MaxHistory), Exchange(r)) = LastN(e \o Exchange(r), MaxHistory)
  BY <1>1, <1>2, ExtendedLast
<1>6. Extended(LastN(e, MaxHistory), u) = LastN(e \o u, MaxHistory)
  BY <1>1, <1>3, ExtendedLast
<1>7. e \o u \in Seq(T)
  BY <1>1, <1>3
<1>8. Extended(LastN(e \o u, MaxHistory), a) = LastN((e \o u) \o a, MaxHistory)
  BY <1>3, <1>7, ExtendedLast
<1>9. (e \o u) \o a = e \o Exchange(r)
  BY <1>1, <1>3, <1>4, ConcatAssociative
<1> QED  BY <1>2, <1>5, <1>6, <1>8, <1>9 DEF e, u, a

(* All but the last. *)
LEMMA FrontProps ==
  ASSUME NEW S, NEW h \in Seq(S), h # <<>>
  PROVE  /\ SubSeq(h, 1, Len(h) - 1) \in Seq(S) /\ Len(h) >= 1
         /\ Len(SubSeq(h, 1, Len(h) - 1)) = Len(h) - 1
         /\ \A i \in 1 .. Len(h) - 1 : SubSeq(h, 1, Len(h) - 1)[i] = h[i]
<1>1. Len(h) \in Nat /\ Len(h) >= 1
  OBVIOUS
<1>2. \A i \in 1 .. Len(h) - 1 : h[i] \in S
  BY <1>1
<1> DEFINE m == Len(h) - 1
<1>3. m \in Nat
  BY <1>1
<1> HIDE DEF m
<1>4. /\ SubSeq(h, 1, m) \in Seq(S)
      /\ Len(SubSeq(h, 1, m)) = IF 1 <= m THEN m - 1 + 1 ELSE 0
      /\ \A i \in 1 .. m - 1 + 1 : SubSeq(h, 1, m)[i] = h[1 + i - 1]
  <2>1. \A i \in 1 .. m : h[i] \in S
    BY <1>2 DEF m
  <2> QED  BY <1>3, <2>1, SubSeqProperties
<1>5. Len(SubSeq(h, 1, m)) = m /\ \A i \in 1 .. m : SubSeq(h, 1, m)[i] = h[i]
  BY <1>3, <1>4
<1> QED  BY <1>1, <1>4, <1>5 DEF m

(* and the last after it. *)
LEMMA FrontAndLast ==
  ASSUME NEW S, NEW h \in Seq(S), h # <<>>
  PROVE  /\ h[Len(h)] \in S /\ Len(h) \in Nat /\ Len(h) >= 1
         /\ h = Append(SubSeq(h, 1, Len(h) - 1), h[Len(h)])
<1> DEFINE f == SubSeq(h, 1, Len(h) - 1)
           n == Len(h) - 1
<1>1. n \in Nat /\ h[Len(h)] \in S /\ Len(h) = n + 1
  OBVIOUS
<1>2. f \in Seq(S) /\ Len(f) = n /\ \A i \in 1 .. n : f[i] = h[i]
  BY FrontProps
<1> HIDE DEF f
<1>3. /\ Append(f, h[Len(h)]) \in Seq(S) /\ Len(Append(f, h[Len(h)])) = n + 1
      /\ \A i \in 1 .. n : Append(f, h[Len(h)])[i] = f[i]
      /\ Append(f, h[Len(h)])[n + 1] = h[Len(h)]
  <2>1. f \in Seq(S) /\ h[Len(h)] \in S /\ Len(f) = n
    BY <1>1, <1>2
  <2> HIDE DEF n
  <2> QED  BY <2>1, AppendProperties
<1>4. \A i \in 1 .. n + 1 : h[i] = Append(f, h[Len(h)])[i]
  BY <1>1, <1>2, <1>3
<1>5. h = Append(f, h[Len(h)])
  BY <1>1, <1>3, <1>4, SeqEqual
<1> QED  BY <1>1, <1>5 DEF f

(* What a redo leaves of what ends with an exchange. *)
LEMMA WithoutEnd ==
  ASSUME NEW R, NEW g \in Seq([role : Roles, of : R]), NEW r \in R,
         NEW h \in Seq([role : Roles, of : R]), Ends(h, g \o Exchange(r))
  PROVE  /\ WithoutLastExchange(h) \in Seq([role : Roles, of : R])
         /\ Ends(WithoutLastExchange(h), g)
         /\ Len(WithoutLastExchange(h)) = IF Len(h) > 2 THEN Len(h) - 2 ELSE 0
<1> DEFINE T == [role : Roles, of : R]
           x == Exchange(r)
           b == g \o x
           L == Len(h)
           f == WithoutLast(h, "assistant")
           w == WithoutLastExchange(h)
<1>1. /\ x \in Seq(T) /\ Len(x) = 2 /\ x[1].role = "user" /\ x[2].role = "assistant"
  <2>1. Turn("user", r) \in T /\ Turn("assistant", r) \in T
    BY DEF Turn, Roles
  <2>2. x = <<Turn("user", r), Turn("assistant", r)>>
    BY DEF Exchange
  <2> HIDE DEF T
  <2>3. x \in Seq(T)
    BY <2>1, <2>2
  <2> QED  BY <2>2, <2>3 DEF Turn
<1>2. g \in Seq(T) /\ h \in Seq(T)
  OBVIOUS
<1>0. Len(g) \in Nat /\ L \in Nat /\ w = WithoutLast(f, "user")
  BY DEF WithoutLastExchange
<1> HIDE DEF x, T
<1>3. /\ b \in Seq(T) /\ Len(b) = Len(g) + 2
      /\ \A i \in 1 .. Len(g) + 2 : b[i] = IF i <= Len(g) THEN g[i] ELSE x[i - Len(g)]
  <2>1. x \in Seq(T) /\ Len(x) = 2
    BY <1>1
  <2>2. /\ g \o x \in Seq(T) /\ Len(g \o x) = Len(g) + Len(x)
        /\ \A i \in 1 .. Len(g) + Len(x) : (g \o x)[i] = IF i <= Len(g) THEN g[i] ELSE x[i - Len(g)]
    BY <1>2, <2>1, ConcatProperties
  <2> QED  BY <2>1, <2>2
<1>4. L <= Len(g) + 2 /\ \A i \in 1 .. L : h[i] = b[Len(g) + 2 - L + i]
  BY <1>3 DEF Ends, x
<1> HIDE DEF b, w
<1>5. CASE L = 0
  <2>1. h = <<>>
    BY <1>2, <1>5
  <2>2. f = <<>>
    BY <2>1 DEF WithoutLast
  <2>3. w = <<>>
    BY <1>0, <2>2 DEF WithoutLast
  <2>4. w \in Seq(T) /\ Len(w) = 0
    BY <2>3
  <2>5. Ends(w, g)
    BY <1>0, <2>4 DEF Ends
  <2> QED  BY <1>5, <2>4, <2>5 DEF w, T
<1>6. CASE L >= 1
  <2>1. h # <<>> /\ L \in 1 .. L /\ Len(g) + 2 - L + L = Len(g) + 2
    BY <1>0, <1>6
  <2>2. h[L] = x[2]
    <3>1. h[L] = b[Len(g) + 2 - L + L]
      BY <1>4, <2>1
    <3>2. b[Len(g) + 2] = x[2]
      BY <1>0, <1>3
    <3> QED  BY <2>1, <3>1, <3>2
  <2>3. f = SubSeq(h, 1, L - 1)
    BY <1>1, <2>1, <2>2 DEF WithoutLast
  <2> HIDE DEF f
  <2>4. f \in Seq(T) /\ Len(f) = L - 1 /\ \A i \in 1 .. L - 1 : f[i] = h[i]
    BY <1>2, <2>1, <2>3, FrontProps
  <2>5. CASE L = 1
    <3>1. f = <<>>
      BY <2>4, <2>5
    <3>2. w = <<>>
      BY <1>0, <3>1 DEF WithoutLast
    <3>3. w \in Seq(T) /\ Len(w) = 0
      BY <3>2
    <3>4. Ends(w, g)
      BY <1>0, <3>3 DEF Ends
    <3> QED  BY <2>5, <3>3, <3>4 DEF w, T
  <2>6. CASE L > 1
    <3>1. f # <<>> /\ L - 1 \in 1 .. L /\ L - 1 \in 1 .. L - 1 /\ Len(g) + 2 - L + (L - 1) = Len(g) + 1
      BY <1>0, <2>4, <2>6
    <3>2. f[L - 1] = x[1]
      <4>1. f[L - 1] = b[Len(g) + 2 - L + (L - 1)]
        BY <1>4, <2>4, <3>1
      <4>2. b[Len(g) + 1] = x[1]
        BY <1>0, <1>3
      <4> QED  BY <3>1, <4>1, <4>2
    <3>3. w = SubSeq(f, 1, Len(f) - 1)
      BY <1>0, <1>1, <2>4, <3>1, <3>2 DEF WithoutLast
    <3>4. w \in Seq(T) /\ Len(w) = L - 2 /\ \A i \in 1 .. L - 2 : w[i] = f[i]
      <4>1. Len(f) - 1 = L - 2
        BY <1>0, <2>4
      <4> QED  BY <2>4, <3>1, <3>3, <4>1, FrontProps
    <3>5. ASSUME NEW i \in 1 .. L - 2 PROVE w[i] = g[Len(g) - (L - 2) + i]
      <4> SUFFICES ASSUME NEW j, j = Len(g) - (L - 2) + i PROVE w[i] = g[j]
        OBVIOUS
      <4>1. j = Len(g) + 2 - L + i /\ j \in 1 .. Len(g) + 2 /\ j <= Len(g) /\ i \in 1 .. L /\ i \in 1 .. L - 1
        BY <1>0, <1>4, <2>6
      <4>2. w[i] = b[j]
        BY <1>4, <2>4, <3>4, <4>1
      <4> QED  BY <1>3, <4>1, <4>2
    <3>6. Len(w) = L - 2 /\ L - 2 <= Len(g) /\ L - 2 = IF L > 2 THEN L - 2 ELSE 0
      BY <1>0, <1>4, <2>6, <3>4
    <3>7. Ends(w, g)
      BY <3>5, <3>6 DEF Ends
    <3> QED  BY <3>4, <3>6, <3>7 DEF w, T
  <2>7. L = 1 \/ L > 1
    BY <1>0, <1>6, OneOrMore, Zenon
  <2> QED  BY <2>5, <2>6, <2>7
<1> QED  BY <1>0, <1>5, <1>6, OneOrMore, Zenon
=============================================================================
