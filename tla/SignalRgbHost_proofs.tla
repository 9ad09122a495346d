------------------------ MODULE SignalRgbHost_proofs ------------------------
(***************************************************************************)
(* Plugin and keyboard together, for any number of LEDs, any sizes of      *)
(* packets that the keyboard's parser accepts and any frames.  The keyboard*)
(* in it is the receiver of SignalRgb, so that what is proved there holds  *)
(* here.  The plugin's cache is the draft as it will be when the packets   *)
(* under way are taken (Cached), and what was rendered last is the cache   *)
(* and is committed with nothing behind it (Shown): what is left of a LED  *)
(* by a queue of packets (Leaves) is followed through each of the lists    *)
(* the plugin writes and each packet the keyboard takes.  What Changed     *)
(* sends is defined by recursion over the chunks; that it has a value is   *)
(* shown by induction, which the library's theorem on well-founded         *)
(* relations gives for sets in place of operators (SetInduction).          *)
(***************************************************************************)
EXTENDS SignalRgbHost, SignalRgb_proofs, WellFoundedInduction

(* Every set of naturals that is not empty has a least element.            *)
LEMMA LeastNatural ==
  ASSUME NEW T, T \subseteq Nat, T # {}
  PROVE  \E x \in T : \A y \in T : x <= y
<1> DEFINE R == {ss \in Nat \X Nat : ss[1] < ss[2]}
<1>1. IsWellFoundedOn(OpToRel(<, Nat), Nat)
  BY NatLessThanWellFounded
<1>2. IsWellFoundedOn(R, Nat)
  BY <1>1 DEF OpToRel
<1>3. PICK x \in T : \A y \in T : ~ (<<y, x>> \in R)
  <2> HIDE DEF R
  <2> QED BY <1>2, WFMin
<1>4. \A y \in T : ~(y < x)
  BY <1>3
<1> QED BY <1>4

(* Induction over the members of a set, which no operator is needed for.   *)
LEMMA SetInduction ==
  ASSUME NEW T, 0 \in T, \A n \in Nat : n \in T => n + 1 \in T
  PROVE  \A n \in Nat : n \in T
<1> SUFFICES ASSUME NEW n \in Nat, n \notin T
             PROVE  FALSE
  OBVIOUS
<1>1. PICK x \in Nat \ T : \A y \in Nat \ T : x <= y
  BY LeastNatural
<1>2. x # 0 /\ x - 1 \in Nat
  BY <1>1
<1>3. x - 1 \in T
  BY <1>1, <1>2
<1> QED  BY <1>1, <1>2, <1>3

----------------------------------------------------------------------------
(* The loop that writes the chunks, as far as chunk m.                     *)
IsSent(g, m, f) ==
  g = [n \in 0 .. m |->
         IF n = 0 THEN <<>>
         ELSE IF Goes(AllChunks[n], f)
              THEN Append(g[n - 1], StreamOf(AllChunks[n], f))
              ELSE g[n - 1]]

LEMMA SentExists ==
  ASSUME NEW f
  PROVE  \A m \in Nat : \E g : IsSent(g, m, f)
<1> DEFINE T == {m \in Nat : \E g : IsSent(g, m, f)}
<1>1. 0 \in T
  <2>1. IsSent([n \in 0 .. 0 |-> <<>>], 0, f)
    BY DEF IsSent
  <2> QED  BY <2>1
<1>2. ASSUME NEW m \in Nat, m \in T
      PROVE  m + 1 \in T
  <2>1. PICK g : IsSent(g, m, f)
    BY <1>2
  <2> DEFINE step(x, n) == IF Goes(AllChunks[n], f)
                           THEN Append(x, StreamOf(AllChunks[n], f)) ELSE x
             h == [n \in 0 .. m + 1 |-> IF n = m + 1 THEN step(g[m], m + 1) ELSE g[n]]
  <2> HIDE DEF step
  <2>2. /\ g = [n \in 0 .. m |-> IF n = 0 THEN <<>> ELSE step(g[n - 1], n)]
        /\ IsSent(h, m + 1, f) <=>
             h = [n \in 0 .. m + 1 |-> IF n = 0 THEN <<>> ELSE step(h[n - 1], n)]
    BY <2>1 DEF IsSent, step
  <2>3. ASSUME NEW n \in 0 .. m + 1
        PROVE  h[n] = IF n = 0 THEN <<>> ELSE step(h[n - 1], n)
    <3>1. CASE n = m + 1
      BY <3>1
    <3>2. CASE n \in 0 .. m
      <4>1. g[n] = IF n = 0 THEN <<>> ELSE step(g[n - 1], n)
        BY <2>2, <3>2
      <4>2. n # 0 => h[n - 1] = g[n - 1]
        BY <3>2
      <4> QED  BY <3>2, <4>1, <4>2
    <3> QED  BY <3>1, <3>2
  <2>4. h = [n \in 0 .. m + 1 |-> IF n = 0 THEN <<>> ELSE step(h[n - 1], n)]
    BY <2>3
  <2>5. IsSent(h, m + 1, f)
    BY <2>2, <2>4
  <2> QED  BY <2>5
<1>3. \A m \in Nat : m \in T
  <2> HIDE DEF T
  <2> QED  BY <1>1, <1>2, SetInduction
<1> QED  BY <1>3

LEMMA ChangedIsSent ==
  ASSUME NEW f, NEW N \in Nat, N = Len(AllChunks)
  PROVE  \E g : IsSent(g, N, f) /\ Changed(f) = g[N]
<1> DEFINE g == CHOOSE x : IsSent(x, N, f)
<1>1. IsSent(g, N, f)
  BY SentExists
<1>2. Changed(f) = g[N]
  BY DEF Changed, IsSent
<1> QED  BY <1>1, <1>2

----------------------------------------------------------------------------
(* Rounding up: n things in chunks of b; every one of them is in a chunk.  *)
LEMMA ChunkBounds ==
  ASSUME NEW n \in Nat, NEW b \in Nat \ {0}
  PROVE  /\ (n + b - 1) \div b \in Nat
         /\ \A k \in 1 .. ((n + b - 1) \div b) : (k - 1) * b \in Nat /\ (k - 1) * b < n
         /\ \A x \in 0 .. n - 1 :
              \E k \in 1 .. ((n + b - 1) \div b) : (k - 1) * b <= x /\ x < (k - 1) * b + b
<1> DEFINE q == (n + b - 1) \div b
<1>1. q \in Nat /\ q * b <= n + b - 1 /\ n + b - 1 < q * b + b
  BY Z3
<1>2. ASSUME NEW k \in 1 .. q
      PROVE  (k - 1) * b \in Nat /\ (k - 1) * b < n
  <2> HIDE DEF q
  <2>1. k * b <= q * b
    BY <1>1
  <2>2. (k - 1) * b = k * b - b
    BY <1>1
  <2>3. (k - 1) * b \in Nat
    BY <1>1
  <2> QED  BY <1>1, <2>1, <2>2, <2>3
<1>3. ASSUME NEW x \in 0 .. n - 1
      PROVE  \E k \in 1 .. q : (k - 1) * b <= x /\ x < (k - 1) * b + b
  <2> DEFINE d == x \div b
  <2>1. d \in Nat /\ d * b <= x /\ x < d * b + b
    BY Z3
  <2> HIDE DEF q, d
  <2>2. d < q
    <3>1. SUFFICES ASSUME d >= q PROVE FALSE
      BY <1>1, <2>1
    <3>2. d * b >= q * b
      BY <1>1, <2>1, <3>1
    <3> QED  BY <1>1, <2>1, <3>2
  <2>3. d + 1 \in 1 .. q /\ (d + 1) - 1 = d
    BY <1>1, <2>1, <2>2
  <2> QED  BY <2>1, <2>3
<1> QED  BY <1>1, <1>2, <1>3

LEMMA CountIsNat == Zone = {"key", "head", "side"} /\ \A z \in Zone : Count[z] \in Nat
  BY CountAssumption DEF Zone, Count

(* The chunks of a zone cover its LEDs.                                    *)
LEMMA ChunksCover ==
  ASSUME NEW z \in Zone
  PROVE  /\ Chunks(z) \in Seq([zone : Zone, start : Nat])
         /\ \A k \in 1 .. Len(Chunks(z)) :
               Chunks(z)[k].zone = z /\ Chunks(z)[k].start < Count[z]
         /\ \A l \in Leds(z) : \E k \in 1 .. Len(Chunks(z)) : l \in ChunkLed(Chunks(z)[k])
<1> DEFINE n == Count[z]
           q == (n + ChunkLeds - 1) \div ChunkLeds
           start(k) == (k - 1) * ChunkLeds
<1>1. n \in Nat /\ ChunkLeds \in Nat \ {0}
  BY CountIsNat, CountAssumption, HostAssumption
<1>2. /\ q \in Nat
      /\ \A k \in 1 .. q : start(k) \in Nat /\ start(k) < n
      /\ \A x \in 0 .. n - 1 : \E k \in 1 .. q : start(k) <= x /\ x < start(k) + ChunkLeds
  BY <1>1, ChunkBounds
<1>3. Chunks(z) = [k \in 1 .. q |-> [zone |-> z, start |-> start(k)]]
  BY DEF Chunks
<1> HIDE DEF n, q, start
<1>4. Chunks(z) \in Seq([zone : Zone, start : Nat]) /\ Len(Chunks(z)) = q
  BY <1>2, <1>3
<1>5. \A k \in 1 .. q : Chunks(z)[k].zone = z /\ Chunks(z)[k].start = start(k)
  BY <1>3
<1>6. ASSUME NEW l \in Leds(z)
      PROVE  \E k \in 1 .. q : l \in ChunkLed(Chunks(z)[k])
  <2>1. l = <<z, l[2]>> /\ l[2] \in 0 .. n - 1
    BY DEF Leds, n
  <2>2. PICK k \in 1 .. q : start(k) <= l[2] /\ l[2] < start(k) + ChunkLeds
    BY <1>2, <2>1
  <2> QED  BY <1>5, <2>2 DEF ChunkLed
<1> QED  BY <1>2, <1>4, <1>5, <1>6 DEF n

LEMMA AllChunksCover ==
  /\ AllChunks \in Seq([zone : Zone, start : Nat])
  /\ \A i \in 1 .. Len(AllChunks) : AllChunks[i].start < Count[AllChunks[i].zone]
  /\ \A l \in Led : \E i \in 1 .. Len(AllChunks) : l \in ChunkLed(AllChunks[i])
<1> DEFINE a == Chunks("key")
           b == Chunks("head")
           c == Chunks("side")
<1>1. AllChunks = (a \o b) \o c
  BY DEF AllChunks
<1>2. /\ a \in Seq([zone : Zone, start : Nat])
      /\ b \in Seq([zone : Zone, start : Nat])
      /\ c \in Seq([zone : Zone, start : Nat])
  BY ChunksCover DEF Zone
<1>3. /\ \A k \in 1 .. Len(a) : a[k].start < Count[a[k].zone]
      /\ \A k \in 1 .. Len(b) : b[k].start < Count[b[k].zone]
      /\ \A k \in 1 .. Len(c) : c[k].start < Count[c[k].zone]
  BY ChunksCover DEF Zone
<1>4. /\ \A l \in Leds("key") : \E k \in 1 .. Len(a) : l \in ChunkLed(a[k])
      /\ \A l \in Leds("head") : \E k \in 1 .. Len(b) : l \in ChunkLed(b[k])
      /\ \A l \in Leds("side") : \E k \in 1 .. Len(c) : l \in ChunkLed(c[k])
  BY ChunksCover DEF Zone
<1>5. Led = Leds("key") \cup Leds("head") \cup Leds("side")
  BY DEF Led, Zone
<1> HIDE DEF a, b, c
<1>6. /\ AllChunks \in Seq([zone : Zone, start : Nat])
      /\ Len(AllChunks) = Len(a) + Len(b) + Len(c)
      /\ \A k \in 1 .. Len(a) : AllChunks[k] = a[k]
      /\ \A k \in 1 .. Len(b) : AllChunks[Len(a) + k] = b[k]
      /\ \A k \in 1 .. Len(c) : AllChunks[Len(a) + Len(b) + k] = c[k]
  BY <1>1, <1>2
<1>7. ASSUME NEW i \in 1 .. Len(AllChunks)
      PROVE  AllChunks[i].start < Count[AllChunks[i].zone]
  <2>1. CASE i \in 1 .. Len(a)
    BY <1>3, <1>6, <2>1
  <2>2. CASE i > Len(a) /\ i <= Len(a) + Len(b)
    <3>1. i - Len(a) \in 1 .. Len(b) /\ i = Len(a) + (i - Len(a))
      BY <1>2, <2>2
    <3> QED  BY <1>3, <1>6, <3>1
  <2>3. CASE i > Len(a) + Len(b)
    <3>1. /\ i - Len(a) - Len(b) \in 1 .. Len(c)
          /\ i = Len(a) + Len(b) + (i - Len(a) - Len(b))
      BY <1>2, <1>6, <2>3
    <3> QED  BY <1>3, <1>6, <3>1
  <2> QED  BY <1>2, <2>1, <2>2, <2>3
<1>8. ASSUME NEW l \in Led
      PROVE  \E i \in 1 .. Len(AllChunks) : l \in ChunkLed(AllChunks[i])
  <2>1. CASE l \in Leds("key")
    <3>1. PICK k \in 1 .. Len(a) : l \in ChunkLed(a[k])
      BY <1>4, <2>1
    <3>2. k \in 1 .. Len(AllChunks) /\ AllChunks[k] = a[k]
      BY <1>2, <1>6
    <3> QED  BY <3>1, <3>2
  <2>2. CASE l \in Leds("head")
    <3>1. PICK k \in 1 .. Len(b) : l \in ChunkLed(b[k])
      BY <1>4, <2>2
    <3>2. Len(a) + k \in 1 .. Len(AllChunks) /\ AllChunks[Len(a) + k] = b[k]
      BY <1>2, <1>6
    <3> QED  BY <3>1, <3>2
  <2>3. CASE l \in Leds("side")
    <3>1. PICK k \in 1 .. Len(c) : l \in ChunkLed(c[k])
      BY <1>4, <2>3
    <3>2. /\ Len(a) + Len(b) + k \in 1 .. Len(AllChunks)
          /\ AllChunks[Len(a) + Len(b) + k] = c[k]
      BY <1>2, <1>6
    <3> QED  BY <3>1, <3>2
  <2> QED  BY <1>5, <2>1, <2>2, <2>3
<1> QED  BY <1>6, <1>7, <1>8

----------------------------------------------------------------------------
(* What a packet does to an LED of the draft once it is handled whole.     *)
Writes(p, l) ==
  \/ p.cmd = "mode" /\ p.on
  \/ /\ p.cmd = "stream"
     /\ l[1] = p.zone /\ p.start <= l[2] /\ l[2] < p.start + Len(p.rgb)
ColorOf(p, l) == IF p.cmd = "mode" THEN Black ELSE p.rgb[l[2] - p.start + 1]

(* Of the packets q, the i-th is the last to write the LED.                *)
WritesLast(q, i, l) ==
  Writes(q[i], l) /\ \A j \in 1 .. Len(q) : j > i => ~Writes(q[j], l)

(* After the packets q an LED that was w is c.                             *)
Leaves(q, l, w, c) ==
  /\ \A i \in 1 .. Len(q) : WritesLast(q, i, l) => ColorOf(q[i], l) = c
  /\ (\A i \in 1 .. Len(q) : ~Writes(q[i], l)) => w = c

LEMMA LeavesTail ==
  ASSUME NEW S, NEW q \in Seq(S), q # <<>>, NEW l, NEW w, NEW c, NEW v,
         Leaves(q, l, w, c),
         Writes(Head(q), l) => v = ColorOf(Head(q), l),
         ~Writes(Head(q), l) => v = w
  PROVE  Leaves(Tail(q), l, v, c)
<1> DEFINE t == Tail(q)
<1>1. t \in Seq(S) /\ Len(q) = Len(t) + 1 /\ \A i \in 1 .. Len(t) : t[i] = q[i + 1]
  OBVIOUS
<1>2. Head(q) = q[1] /\ 1 \in 1 .. Len(q)
  OBVIOUS
<1> HIDE DEF t
<1>3. ASSUME NEW i \in 1 .. Len(t), WritesLast(t, i, l)
      PROVE  ColorOf(t[i], l) = c
  <2>1. i + 1 \in 1 .. Len(q) /\ t[i] = q[i + 1]
    BY <1>1
  <2>2. ASSUME NEW j \in 1 .. Len(q), j > i + 1
        PROVE  ~Writes(q[j], l)
    <3>1. j - 1 \in 1 .. Len(t) /\ j - 1 > i /\ t[j - 1] = q[j]
      BY <1>1, <2>2
    <3> QED  BY <1>3, <3>1 DEF WritesLast
  <2>3. WritesLast(q, i + 1, l)
    BY <1>3, <2>1, <2>2 DEF WritesLast
  <2> QED  BY <2>1, <2>3 DEF Leaves
<1>4. ASSUME \A i \in 1 .. Len(t) : ~Writes(t[i], l)
      PROVE  v = c
  <2>1. ASSUME NEW j \in 1 .. Len(q), j > 1
        PROVE  ~Writes(q[j], l)
    <3>1. j - 1 \in 1 .. Len(t) /\ t[j - 1] = q[j]
      BY <1>1, <2>1
    <3> QED  BY <1>4, <3>1
  <2>2. CASE Writes(Head(q), l)
    <3>1. WritesLast(q, 1, l)
      BY <1>2, <2>1, <2>2 DEF WritesLast
    <3> QED  BY <1>2, <2>2, <3>1 DEF Leaves
  <2>3. CASE ~Writes(Head(q), l)
    <3>1. \A j \in 1 .. Len(q) : ~Writes(q[j], l)
      <4> SUFFICES ASSUME NEW j \in 1 .. Len(q) PROVE ~Writes(q[j], l)
        OBVIOUS
      <4>1. j = 1 \/ j > 1
        OBVIOUS
      <4> QED  BY <1>2, <2>1, <2>3, <4>1
    <3> QED  BY <2>3, <3>1 DEF Leaves
  <2> QED  BY <2>2, <2>3
<1> QED  BY <1>3, <1>4 DEF Leaves, t

LEMMA Joined ==
  ASSUME NEW S, NEW q \in Seq(S), NEW e \in Seq(S)
  PROVE  /\ q \o e \in Seq(S) /\ Len(q \o e) = Len(q) + Len(e)
         /\ \A i \in 1 .. Len(q) : (q \o e)[i] = q[i]
         /\ \A i \in 1 .. Len(e) : (q \o e)[Len(q) + i] = e[i]
         /\ \A i \in 1 .. Len(q \o e) :
               i \in 1 .. Len(q) \/ (i - Len(q) \in 1 .. Len(e) /\ (q \o e)[i] = e[i - Len(q)])
<1> DEFINE r == q \o e
<1>1. r \in Seq(S) /\ Len(r) = Len(q) + Len(e) /\ Len(q) \in Nat /\ Len(e) \in Nat
  OBVIOUS
<1>2. \A i \in 1 .. Len(q) : r[i] = q[i]
  OBVIOUS
<1>3. \A i \in 1 .. Len(e) : r[Len(q) + i] = e[i]
  OBVIOUS
<1> HIDE DEF r
<1>4. ASSUME NEW i \in 1 .. Len(r), i \notin 1 .. Len(q)
      PROVE  i - Len(q) \in 1 .. Len(e) /\ r[i] = e[i - Len(q)]
  <2>1. i - Len(q) \in 1 .. Len(e) /\ i = Len(q) + (i - Len(q))
    BY <1>1, <1>4
  <2> QED  BY <1>3, <2>1
<1>5. r \in Seq(S) /\ Len(r) = Len(q) + Len(e)
      /\ (\A i \in 1 .. Len(q) : r[i] = q[i])
      /\ (\A i \in 1 .. Len(e) : r[Len(q) + i] = e[i])
      /\ \A i \in 1 .. Len(r) :
           i \in 1 .. Len(q) \/ (i - Len(q) \in 1 .. Len(e) /\ r[i] = e[i - Len(q)])
  BY <1>1, <1>2, <1>3, <1>4
<1> QED  BY <1>5 DEF r

(* Packets that leave the LED alone change nothing of what q leaves.       *)
LEMMA LeavesMore ==
  ASSUME NEW S, NEW q \in Seq(S), NEW e \in Seq(S), NEW l, NEW w, NEW c,
         Leaves(q, l, w, c),
         \A i \in 1 .. Len(e) : ~Writes(e[i], l)
  PROVE  Leaves(q \o e, l, w, c)
<1> DEFINE r == q \o e
<1>1. /\ r \in Seq(S) /\ Len(r) = Len(q) + Len(e)
      /\ \A i \in 1 .. Len(q) : r[i] = q[i]
      /\ \A i \in 1 .. Len(r) :
            i \in 1 .. Len(q) \/ (i - Len(q) \in 1 .. Len(e) /\ r[i] = e[i - Len(q)])
  BY Joined
<1> HIDE DEF r
<1>0. 1 .. Len(q) \subseteq 1 .. Len(r)
  BY <1>1
<1>2. ASSUME NEW i \in 1 .. Len(r), WritesLast(r, i, l)
      PROVE  ColorOf(r[i], l) = c
  <2>1. i \in 1 .. Len(q)
    BY <1>1, <1>2 DEF WritesLast
  <2>2. WritesLast(q, i, l)
    BY <1>0, <1>1, <1>2, <2>1 DEF WritesLast
  <2> QED  BY <1>1, <2>1, <2>2 DEF Leaves
<1>3. ASSUME \A i \in 1 .. Len(r) : ~Writes(r[i], l)
      PROVE  w = c
  <2>1. \A i \in 1 .. Len(q) : ~Writes(q[i], l)
    BY <1>0, <1>1, <1>3
  <2> QED  BY <2>1 DEF Leaves
<1> QED  BY <1>2, <1>3 DEF Leaves, r

(* If one of e writes the LED, and any that does writes c, c is left.      *)
LEMMA LeavesNew ==
  ASSUME NEW S, NEW q \in Seq(S), NEW e \in Seq(S), NEW l, NEW w, NEW c,
         NEW k \in 1 .. Len(e), Writes(e[k], l),
         \A i \in 1 .. Len(e) : Writes(e[i], l) => ColorOf(e[i], l) = c
  PROVE  Leaves(q \o e, l, w, c)
<1> DEFINE r == q \o e
<1>1. /\ r \in Seq(S) /\ Len(r) = Len(q) + Len(e)
      /\ r[Len(q) + k] = e[k]
      /\ \A i \in 1 .. Len(r) :
            i \in 1 .. Len(q) \/ (i - Len(q) \in 1 .. Len(e) /\ r[i] = e[i - Len(q)])
  BY Joined
<1>2. Len(q) \in Nat /\ Len(e) \in Nat
  OBVIOUS
<1> HIDE DEF r
<1>3. Len(q) + k \in 1 .. Len(r) /\ Writes(r[Len(q) + k], l)
  BY <1>1, <1>2
<1>4. ASSUME NEW i \in 1 .. Len(r), WritesLast(r, i, l)
      PROVE  ColorOf(r[i], l) = c
  <2>1. i \notin 1 .. Len(q)
    BY <1>2, <1>3, <1>4 DEF WritesLast
  <2>2. i - Len(q) \in 1 .. Len(e) /\ r[i] = e[i - Len(q)]
    BY <1>1, <2>1
  <2> QED  BY <1>4, <2>2 DEF WritesLast
<1> QED  BY <1>3, <1>4 DEF Leaves, r

----------------------------------------------------------------------------
(* The keyboard writes a packet whole.                                     *)
Fits(p) ==
  p.cmd = "stream" =>
    p.zone \in Zone /\ Len(p.rgb) <= MaxLeds /\ p.start + Len(p.rgb) <= Count[p.zone]

Chunk == {c \in [zone : Zone, start : Nat] : c.start < Count[c.zone]}

LEMMA StreamOfChunk ==
  ASSUME NEW c \in Chunk, NEW f \in Frame
  PROVE  /\ StreamOf(c, f).cmd = "stream" /\ Fits(StreamOf(c, f))
         /\ \A l \in Led : Writes(StreamOf(c, f), l) <=> l \in ChunkLed(c)
         /\ \A l \in Led : Writes(StreamOf(c, f), l) => ColorOf(StreamOf(c, f), l) = f[l]
<1> DEFINE p == StreamOf(c, f)
           N == Count[c.zone]
           n == IF c.start + ChunkLeds <= N THEN ChunkLeds ELSE N - c.start
<1>1. /\ c.zone \in Zone /\ c.start \in Nat /\ N \in Nat /\ c.start < N
      /\ ChunkLeds \in Nat /\ ChunkLeds >= 1 /\ ChunkLeds <= MaxLeds /\ MaxLeds \in Nat
  BY CountIsNat, CountAssumption, HostAssumption DEF Chunk
<1>2. n \in Nat /\ n <= ChunkLeds /\ c.start + n <= N
  BY <1>1
<1>3. /\ p.cmd = "stream" /\ p.zone = c.zone /\ p.start = c.start
      /\ p.rgb = [i \in 1 .. n |-> f[<<c.zone, c.start + i - 1>>]]
  BY DEF StreamOf
<1>4. \A x \in Nat : x < N /\ c.start <= x /\ x < c.start + ChunkLeds <=>
                     c.start <= x /\ x < c.start + n
  BY <1>1
<1> HIDE DEF p, n
<1>5. Len(p.rgb) = n
  BY <1>2, <1>3
<1>6. Fits(p)
  BY <1>1, <1>2, <1>3, <1>5 DEF Fits
<1>7. ASSUME NEW l \in Led
      PROVE  /\ Writes(p, l) <=> l \in ChunkLed(c)
             /\ Writes(p, l) => ColorOf(p, l) = f[l]
  <2>1. /\ l = <<l[1], l[2]>> /\ l[1] \in Zone /\ l[2] \in Nat /\ l[2] < Count[l[1]]
        /\ l \in Leds(c.zone) <=> l[1] = c.zone
    BY CountIsNat DEF Led, Leds
  <2>2. Writes(p, l) <=> l[1] = c.zone /\ c.start <= l[2] /\ l[2] < c.start + n
    BY <1>3, <1>5 DEF Writes
  <2>3. l \in ChunkLed(c) <=> l[1] = c.zone /\ c.start <= l[2] /\ l[2] < c.start + ChunkLeds
    BY <2>1 DEF ChunkLed
  <2>4. Writes(p, l) <=> l \in ChunkLed(c)
    BY <1>4, <2>1, <2>2, <2>3
  <2>5. ASSUME Writes(p, l)
        PROVE  ColorOf(p, l) = f[l]
    <3>1. /\ l[2] - c.start + 1 \in 1 .. n
          /\ c.start + (l[2] - c.start + 1) - 1 = l[2]
      BY <1>1, <1>2, <2>1, <2>2, <2>5
    <3>2. ColorOf(p, l) = p.rgb[l[2] - c.start + 1]
      BY <1>3 DEF ColorOf
    <3>3. p.rgb[l[2] - c.start + 1] = f[<<c.zone, l[2]>>]
      BY <1>3, <3>1
    <3> QED  BY <2>1, <2>2, <2>5, <3>2, <3>3
  <2> QED  BY <2>4, <2>5
<1> QED  BY <1>3, <1>6, <1>7 DEF p

(* Of the chunks up to m a packet for each that goes, and no other.        *)
AreSent(q, m, f, S) ==
  /\ q \in Seq(S)
  /\ \A i \in 1 .. Len(q) : \E k \in 1 .. m : q[i] = StreamOf(AllChunks[k], f)
  /\ \A k \in 1 .. m : Goes(AllChunks[k], f) =>
       \E i \in 1 .. Len(q) : q[i] = StreamOf(AllChunks[k], f)

(* This is what the loop has written in the end.                           *)
LEMMA SentPackets ==
  ASSUME NEW f, NEW m \in Nat, m = Len(AllChunks), NEW g, IsSent(g, m, f),
         NEW S, \A i \in 1 .. m : StreamOf(AllChunks[i], f) \in S
  PROVE  AreSent(g[m], m, f, S)
<1> DEFINE P(k) == StreamOf(AllChunks[k], f)
           G(k) == Goes(AllChunks[k], f)
           Good(n) == /\ g[n] \in Seq(S)
                      /\ \A i \in 1 .. Len(g[n]) : \E k \in 1 .. n : g[n][i] = P(k)
                      /\ \A k \in 1 .. n : G(k) => \E i \in 1 .. Len(g[n]) : g[n][i] = P(k)
           T == {n \in Nat : n <= m => Good(n)}
<1>0. /\ g[0] = <<>>
      /\ \A n \in 1 .. m : g[n] = IF G(n) THEN Append(g[n - 1], P(n)) ELSE g[n - 1]
  <2>1. \A n \in 0 .. m : g[n] = IF n = 0 THEN <<>>
                               ELSE IF G(n) THEN Append(g[n - 1], P(n)) ELSE g[n - 1]
    BY DEF IsSent
  <2> HIDE DEF P, G
  <2> QED  BY <2>1
<1>00. \A i \in 1 .. m : P(i) \in S
  OBVIOUS
<1> HIDE DEF P, G
<1>1. Good(0)
  <2>1. g[0] \in Seq(S) /\ Len(g[0]) = 0
    BY <1>0
  <2> QED  BY <2>1
<1>2. ASSUME NEW n \in Nat, n <= m => Good(n), n + 1 <= m
      PROVE  Good(n + 1)
  <2>1. Good(n) /\ n + 1 \in 1 .. m /\ (n + 1) - 1 = n
    BY <1>2
  <2>2. CASE ~G(n + 1)
    <3>1. g[n + 1] = g[n]
      BY <1>0, <2>1, <2>2
    <3> QED  BY <2>1, <2>2, <3>1
  <2>3. CASE G(n + 1)
    <3>1. g[n + 1] = Append(g[n], P(n + 1))
      BY <1>0, <2>1, <2>3
    <3>2. /\ g[n + 1] \in Seq(S) /\ Len(g[n + 1]) = Len(g[n]) + 1
          /\ \A i \in 1 .. Len(g[n]) : g[n + 1][i] = g[n][i]
          /\ g[n + 1][Len(g[n]) + 1] = P(n + 1)
      BY <1>00, <2>1, <3>1
    <3>3. Len(g[n]) \in Nat
      BY <2>1
    <3>4. ASSUME NEW i \in 1 .. Len(g[n + 1])
          PROVE  \E k \in 1 .. n + 1 : g[n + 1][i] = P(k)
      <4>1. CASE i \in 1 .. Len(g[n])
        <5>1. PICK k \in 1 .. n : g[n][i] = P(k)
          BY <2>1, <4>1
        <5>2. k \in 1 .. n + 1 /\ g[n + 1][i] = P(k)
          BY <3>2, <4>1, <5>1
        <5> QED  BY <5>2
      <4>2. CASE i = Len(g[n]) + 1
        BY <3>2, <4>2
      <4> QED  BY <3>2, <3>3, <4>1, <4>2
    <3>5. ASSUME NEW k \in 1 .. n + 1, G(k)
          PROVE  \E i \in 1 .. Len(g[n + 1]) : g[n + 1][i] = P(k)
      <4>1. CASE k \in 1 .. n
        <5>1. PICK i \in 1 .. Len(g[n]) : g[n][i] = P(k)
          BY <2>1, <3>5, <4>1
        <5>2. i \in 1 .. Len(g[n + 1]) /\ g[n + 1][i] = P(k)
          BY <3>2, <3>3, <5>1
        <5> QED  BY <5>2
      <4>2. CASE k = n + 1
        BY <3>2, <3>3, <4>2
      <4> QED  BY <4>1, <4>2
    <3> QED  BY <3>2, <3>4, <3>5
  <2> QED  BY <2>2, <2>3
<1>3. \A n \in Nat : n \in T
  <2> HIDE DEF Good
  <2>1. 0 \in T /\ \A n \in Nat : n \in T => n + 1 \in T
    BY <1>1, <1>2
  <2> HIDE DEF T
  <2> QED  BY <2>1, SetInduction
<1>4. Good(m)
  <2> HIDE DEF Good
  <2> QED  BY <1>3
<1> QED  BY <1>4 DEF P, G, AreSent

Calls == Pictures \cup {Solid(Black), Solid(ShutdownColor)}

LEMMA CallsAreFrames == Calls \subseteq Frame
  BY HostAssumption, ColorAssumption DEF Calls, Solid, Frame

LEMMA Elements ==
  ASSUME NEW S, NEW q \in Seq(S)
  PROVE  \A i \in 1 .. Len(q) : q[i] \in S
  OBVIOUS

LEMMA AllChunksAreChunks ==
  /\ Len(AllChunks) \in Nat /\ \A i \in 1 .. Len(AllChunks) : AllChunks[i] \in Chunk
  /\ DOMAIN AllChunks = 1 .. Len(AllChunks)
<1>1. AllChunks \in Seq([zone : Zone, start : Nat])
  BY AllChunksCover
<1>2. \A i \in 1 .. Len(AllChunks) : AllChunks[i] \in [zone : Zone, start : Nat]
  BY <1>1, Elements
<1>3. Len(AllChunks) \in Nat /\ DOMAIN AllChunks = 1 .. Len(AllChunks)
  BY <1>1
<1> QED  BY <1>2, <1>3, AllChunksCover DEF Chunk

(* All that goes out between two commits: of every LED whose chunk goes    *)
(* its color, and nothing else.                                            *)
LEMMA ChangedPackets ==
  ASSUME NEW f \in Calls
  PROVE  /\ Changed(f) \in Seq(Packets)
         /\ \A i \in 1 .. Len(Changed(f)) :
               Fits(Changed(f)[i]) /\ Changed(f)[i].cmd = "stream"
         /\ \A l \in Led : \A i \in 1 .. Len(Changed(f)) :
               Writes(Changed(f)[i], l) => ColorOf(Changed(f)[i], l) = f[l]
         /\ \A l \in Led : force \/ prev = <<>> \/ prev[l] # f[l] =>
               \E i \in 1 .. Len(Changed(f)) : Writes(Changed(f)[i], l)
<1> DEFINE m == Len(AllChunks)
           P(k) == StreamOf(AllChunks[k], f)
           r == Changed(f)
<1>1. f \in Frame
  BY CallsAreFrames
<1>2. /\ m \in Nat /\ \A i \in 1 .. m : AllChunks[i] \in Chunk
      /\ \A i \in 1 .. m : P(i) \in Packets
  BY AllChunksAreChunks, PluginAssumption DEF Calls
<1>3. PICK g : IsSent(g, m, f) /\ Changed(f) = g[m]
  BY <1>2, ChangedIsSent
<1>4. /\ r \in Seq(Packets)
      /\ \A i \in 1 .. Len(r) : \E k \in 1 .. m : r[i] = P(k)
      /\ \A k \in 1 .. m : Goes(AllChunks[k], f) => \E i \in 1 .. Len(r) : r[i] = P(k)
  <2>1. \A i \in 1 .. m : StreamOf(AllChunks[i], f) \in Packets
    BY <1>2
  <2>2. AreSent(g[m], m, f, Packets)
    BY <1>2, <1>3, <2>1, SentPackets
  <2> QED  BY <1>3, <2>2 DEF AreSent
<1>5. \A k \in 1 .. m :
        /\ P(k).cmd = "stream" /\ Fits(P(k))
        /\ \A l \in Led : Writes(P(k), l) <=> l \in ChunkLed(AllChunks[k])
        /\ \A l \in Led : Writes(P(k), l) => ColorOf(P(k), l) = f[l]
  BY <1>1, <1>2, StreamOfChunk
<1>6. ASSUME NEW l \in Led, force \/ prev = <<>> \/ prev[l] # f[l]
      PROVE  \E i \in 1 .. Len(r) : Writes(r[i], l)
  <2>1. PICK k \in 1 .. m : l \in ChunkLed(AllChunks[k])
    BY AllChunksCover
  <2>2. Goes(AllChunks[k], f)
    BY <1>6, <2>1 DEF Goes
  <2>3. PICK i \in 1 .. Len(r) : r[i] = P(k)
    BY <1>4, <2>2
  <2>4. Writes(P(k), l)
    BY <1>5, <2>1
  <2> QED  BY <2>3, <2>4
<1> HIDE DEF P, r
<1>7. \A i \in 1 .. Len(r) : Fits(r[i]) /\ r[i].cmd = "stream"
  BY <1>4, <1>5
<1>8. \A l \in Led : \A i \in 1 .. Len(r) : Writes(r[i], l) => ColorOf(r[i], l) = f[l]
  BY <1>4, <1>5
<1> QED  BY <1>4, <1>6, <1>7, <1>8 DEF r

----------------------------------------------------------------------------
(* Types, and the keyboard of the composition as a receiver of its own.    *)

LEMMA SentTyped ==
  ASSUME HostTypeOK, NEW f \in Calls, SendAll(f)
  PROVE  outbox' \in Seq(Packets) /\ prev' = f /\ wanted' = f /\ f \in Frame
<1>1. Changed(f) \in Seq(Packets)
  BY ChangedPackets
<1>2. Info \in Packets /\ Commit \in Packets
  BY PluginAssumption
<1>3. (IF infoRead THEN <<>> ELSE <<Info>>) \in Seq(Packets) /\ <<Commit>> \in Seq(Packets)
  BY <1>2
<1> QED  BY <1>1, <1>3, CallsAreFrames DEF SendAll, HostTypeOK

LEMMA HostTypeStep == HostTypeOK /\ [HostNext]_allVars => HostTypeOK'
<1> SUFFICES ASSUME HostTypeOK, [HostNext]_allVars PROVE HostTypeOK'
  OBVIOUS
<1>0. Info \in Packets /\ Mode(TRUE) \in Packets /\ Mode(FALSE) \in Packets
  BY PluginAssumption
<1>1. CASE Initialize
  <2>1. <<Info, Mode(TRUE)>> \in Seq(Packets)
    BY <1>0 DEF Mode
  <2>2. outbox' \in Seq(Packets)
    BY <1>1, <2>1 DEF Initialize, HostTypeOK, Mode
  <2> QED  BY <1>1, <2>2 DEF Initialize, RequestInfo, HostTypeOK
<1>2. ASSUME NEW f \in Calls, SendAll(f),
             plugin' \in {"off", "on", "color", "hardware"}
      PROVE  HostTypeOK'
  <2>1. infoRead' \in BOOLEAN /\ force' \in BOOLEAN
    BY <1>2 DEF SendAll, RequestInfo, HostTypeOK
  <2> QED  BY <1>2, <2>1, SentTyped DEF HostTypeOK
<1>3. ASSUME NEW f \in Pictures, Render(f) PROVE HostTypeOK'
  BY <1>2, <1>3 DEF Render, HostTypeOK, Calls
<1>4. CASE ShutdownSuspending
  BY <1>2, <1>4 DEF ShutdownSuspending, Calls
<1>5. CASE ShutdownSignalRgb
  BY <1>2, <1>5 DEF ShutdownSignalRgb, Calls
<1>6. CASE ShutdownHardware
  <2>1. outbox' \in Seq(Packets)
    BY <1>0, <1>6 DEF ShutdownHardware, HostTypeOK, Mode
  <2> QED  BY <1>6, <2>1 DEF ShutdownHardware, HostTypeOK
<1>7. CASE HostCrash
  <2>1. PICK n \in 0 .. Len(outbox) : outbox' = SubSeq(outbox, 1, n)
    BY <1>7 DEF HostCrash
  <2>2. outbox' \in Seq(Packets)
    BY <2>1 DEF HostTypeOK
  <2> QED  BY <1>7, <2>2 DEF HostCrash, HostTypeOK
<1>8. CASE Take
  BY <1>8 DEF Take, HostTypeOK
<1>9. CASE Keyboard
  BY <1>9 DEF Keyboard, host, HostTypeOK
<1>10. CASE UNCHANGED allVars
  BY <1>10 DEF allVars, host, HostTypeOK
<1> QED
  BY <1>1, <1>3, <1>4, <1>5, <1>6, <1>7, <1>8, <1>9, <1>10 DEF HostNext

LEMMA HostInitTyped == HostInit => HostTypeOK
<1>1. <<>> \in Seq(Packets)
  OBVIOUS
<1> QED  BY <1>1 DEF HostInit, HostTypeOK

(* Whatever the plugin does, and wherever it dies, what it leaves for the  *)
(* keyboard are packets of the protocol, and its own state keeps its types *)
(* (signalrgb_neon80.js:253-275, 428-460).                                 *)
THEOREM HostTypeCorrect == HostSpec => []HostTypeOK
  BY HostInitTyped, HostTypeStep, PTL DEF HostSpec

LEMMA ReceiverStep == HostTypeOK /\ [HostNext]_allVars => [Next]_vars
<1> SUFFICES ASSUME HostTypeOK, [HostNext]_allVars PROVE [Next]_vars
  OBVIOUS
<1>1. CASE Take
  <2>1. Head(outbox) \in Packets
    BY <1>1 DEF Take, HostTypeOK
  <2> QED  BY <1>1, <2>1 DEF Take, Next
<1>2. CASE Keyboard
  BY <1>2 DEF Keyboard, Next
<1>3. CASE UNCHANGED vars
  BY <1>3
<1>4. ~Take /\ ~Keyboard => UNCHANGED vars
  BY DEF HostNext, Initialize, Render, ShutdownSuspending, ShutdownSignalRgb, SendAll,
         ShutdownHardware, HostCrash, allVars
<1> QED  BY <1>1, <1>2, <1>3, <1>4

(* The keyboard under the plugin is the receiver of SignalRgb, packet for  *)
(* packet: what is proved of the receiver holds for it (usb_main.c:1105).  *)
THEOREM ImplementsReceiver == HostSpec => Spec
  BY HostTypeCorrect, ReceiverStep, PTL DEF HostSpec, Spec

----------------------------------------------------------------------------
(* What the plugin and the keyboard have in common.                        *)

(* A packet starts at its first LED.                                       *)
AtStart == main # "stream" => pos = 0

(* Every packet under way is written whole.                                *)
Clean ==
  /\ \A i \in 1 .. Len(outbox) : Fits(outbox[i])
  /\ main = "stream" => Fits(req)

(* What the handler main is in will have made of an LED of the draft.      *)
Settled(l) ==
  IF main \in {"clear", "indexActive"} THEN Black
  ELSE IF main = "stream" /\ l[1] = req.zone /\ req.start + pos <= l[2]
          /\ l[2] < req.start + Len(req.rgb)
       THEN req.rgb[l[2] - req.start + 1]
  ELSE draft[l]

(* The plugin's cache is the draft as it will be when all is taken.        *)
Cached ==
  prev # <<>> => \A l \in Led : Leaves(outbox, l, Settled(l), prev[l])

Changes(p) == p.cmd = "stream" \/ (p.cmd = "mode" /\ p.on)

(* No packet behind the i-th touches the draft.                            *)
Unchanged(q, i) == \A j \in 1 .. Len(q) : j > i => ~Changes(q[j])

(* A commit is under way, or was the last to touch the draft.              *)
Committing ==
  \/ \E i \in 1 .. Len(outbox) : outbox[i] = Commit /\ Unchanged(outbox, i)
  \/ Unchanged(outbox, 0) /\ main = "flipActive"
  \/ /\ Unchanged(outbox, 0)
     /\ main \notin {"stream", "clear", "indexActive"} /\ committed = draft

Shown == wanted # <<>> => prev = wanted /\ Committing

LinkInv == AtStart /\ Clean /\ Cached /\ Shown

LEMMA LinkInit == Init /\ HostInit => LinkInv
  BY DEF Init, HostInit, LinkInv, AtStart, Clean, Cached, Shown

LEMMA AtStartStep == TypeInv /\ AtStart /\ [Next]_vars => AtStart'
  BY DEF AtStart, Next, Handle, MainStep, ThreadStep, GetInfo, SetMode, StreamZone,
         CommitFrame, Receive, ClearLed, CopyLed, ResetActiveIndex, ResetStagingIndex,
         MarkPacket, ModeReply, StreamLed, StreamOutOfRange, StreamDone, FlipActive,
         FlipStaging, KeyDraw, HeadDraw, SideDraw, Tick, vars, handler

(* Every call of the plugin appends to what it has written before.         *)

LEMMA Short ==
  ASSUME NEW S, NEW a \in S, NEW b \in S
  PROVE  /\ <<>> \in Seq(S) /\ Len(<<>>) = 0
         /\ <<a>> \in Seq(S) /\ Len(<<a>>) = 1 /\ <<a>>[1] = a
         /\ <<a, b>> \in Seq(S) /\ Len(<<a, b>>) = 2 /\ <<a, b>>[1] = a /\ <<a, b>>[2] = b
         /\ \A q \in Seq(S) : Append(q, a) = q \o <<a>>
<1>1. ASSUME NEW q \in Seq(S) PROVE Append(q, a) = q \o <<a>>
  OBVIOUS
<1> QED  BY <1>1

LEMMA Fitting ==
  /\ Info \in Packets /\ Commit \in Packets /\ Mode(TRUE) \in Packets /\ Mode(FALSE) \in Packets
  /\ Fits(Info) /\ Fits(Commit) /\ Fits(Mode(TRUE)) /\ Fits(Mode(FALSE))
  /\ \A l : ~Writes(Info, l) /\ ~Writes(Commit, l) /\ ~Writes(Mode(FALSE), l)
<1>1. Info \in Packets /\ Commit \in Packets /\ Mode(TRUE) \in Packets /\ Mode(FALSE) \in Packets
  BY PluginAssumption
<1> QED  BY <1>1 DEF Fits, Writes, Info, Commit, Mode

LEMMA InitializeWrites ==
  ASSUME HostTypeOK, Initialize
  PROVE  \E e \in Seq(Packets) :
           outbox' = outbox \o e /\ \A i \in 1 .. Len(e) : Fits(e[i])
<1> DEFINE on == Mode(TRUE)
<1>1. on \in Packets /\ Info \in Packets /\ Fits(on) /\ Fits(Info)
  BY Fitting
<1>2. outbox' = outbox \o <<Info, on>>
  BY DEF Initialize
<1> HIDE DEF on
<1>3. /\ <<Info, on>> \in Seq(Packets) /\ Len(<<Info, on>>) = 2
      /\ <<Info, on>>[1] = Info /\ <<Info, on>>[2] = on
  BY <1>1, Short
<1>4. \A i \in 1 .. Len(<<Info, on>>) : Fits(<<Info, on>>[i])
  BY <1>1, <1>3
<1> QED  BY <1>2, <1>3, <1>4

LEMMA ShutdownWrites ==
  ASSUME HostTypeOK, ShutdownHardware
  PROVE  \E e \in Seq(Packets) :
           /\ outbox' = outbox \o e
           /\ \A i \in 1 .. Len(e) :
                Fits(e[i]) /\ ~Changes(e[i]) /\ \A l \in Led : ~Writes(e[i], l)
<1> DEFINE off == Mode(FALSE)
<1>1. off \in Packets /\ Fits(off) /\ (\A l : ~Writes(off, l)) /\ ~Changes(off)
  BY Fitting DEF Mode, Changes
<1>2. outbox' = Append(outbox, off) /\ outbox \in Seq(Packets)
  BY DEF ShutdownHardware, HostTypeOK
<1> HIDE DEF off
<1>3. /\ <<off>> \in Seq(Packets) /\ Len(<<off>>) = 1 /\ <<off>>[1] = off
      /\ Append(outbox, off) = outbox \o <<off>>
  BY <1>1, <1>2, Short
<1>4. \A i \in 1 .. Len(<<off>>) :
        /\ Fits(<<off>>[i]) /\ ~Changes(<<off>>[i])
        /\ \A l \in Led : ~Writes(<<off>>[i], l)
  BY <1>1, <1>3
<1> QED  BY <1>2, <1>3, <1>4

(* A frame: packets that write nothing but f, and of an LED that differs   *)
(* from the cache at least one that does; then the commit.                 *)
LEMMA SendAllWrites ==
  ASSUME HostTypeOK, NEW f \in Calls, SendAll(f)
  PROVE  \E e \in Seq(Packets) :
           /\ outbox' = outbox \o e
           /\ \A i \in 1 .. Len(e) : Fits(e[i])
           /\ Len(e) >= 1 /\ e[Len(e)] = Commit
           /\ \A l \in Led : \A i \in 1 .. Len(e) : Writes(e[i], l) => ColorOf(e[i], l) = f[l]
           /\ \A l \in Led : force \/ prev = <<>> \/ prev[l] # f[l] =>
                \E i \in 1 .. Len(e) : Writes(e[i], l)
<1> DEFINE ask == IF infoRead THEN <<>> ELSE <<Info>>
           r == Changed(f)
           e == ask \o (r \o <<Commit>>)
           Good(q) == \A i \in 1 .. Len(q) :
                        Fits(q[i]) /\ \A l \in Led : Writes(q[i], l) => ColorOf(q[i], l) = f[l]
<1>1. /\ r \in Seq(Packets) /\ Good(r)
      /\ \A l \in Led : force \/ prev = <<>> \/ prev[l] # f[l] =>
           \E i \in 1 .. Len(r) : Writes(r[i], l)
  BY ChangedPackets
<1>2. /\ <<Commit>> \in Seq(Packets) /\ Len(<<Commit>>) = 1 /\ <<Commit>>[1] = Commit
      /\ ask \in Seq(Packets) /\ (\A i \in 1 .. Len(ask) : ask[i] = Info)
  BY Fitting, Short
<1>3. Good(<<Commit>>) /\ Good(ask)
  <2>1. \A i \in 1 .. Len(<<Commit>>) : <<Commit>>[i] = Commit
    BY <1>2
  <2> HIDE DEF ask
  <2> QED  BY <1>2, <2>1, Fitting
<1>4. outbox' = ((outbox \o ask) \o r) \o <<Commit>> /\ outbox \in Seq(Packets)
  BY DEF SendAll, HostTypeOK
<1> HIDE DEF ask, r
<1>5. outbox' = outbox \o e
  BY <1>1, <1>2, <1>4
<1>6. ASSUME NEW a \in Seq(Packets), NEW b \in Seq(Packets), Good(a), Good(b)
      PROVE  Good(a \o b)
  <2>1. \A i \in 1 .. Len(a \o b) :
           \/ i \in 1 .. Len(a) /\ (a \o b)[i] = a[i]
           \/ i - Len(a) \in 1 .. Len(b) /\ (a \o b)[i] = b[i - Len(a)]
    BY Joined
  <2> QED  BY <1>6, <2>1
<1> DEFINE t == r \o <<Commit>>
<1>7. /\ t \in Seq(Packets) /\ Len(t) = Len(r) + 1 /\ t[Len(r) + 1] = Commit
      /\ \A i \in 1 .. Len(r) : t[i] = r[i]
  <2>1. \A i \in 1 .. Len(<<Commit>>) : t[Len(r) + i] = <<Commit>>[i]
    BY <1>1, <1>2, Joined
  <2>2. t[Len(r) + 1] = Commit
    BY <1>2, <2>1
  <2> QED  BY <1>1, <1>2, <2>2, Joined
<1>8. Good(t)
  <2> HIDE DEF Good
  <2> QED  BY <1>1, <1>2, <1>3, <1>6
<1>9. e = ask \o t
  OBVIOUS
<1> HIDE DEF e, t
<1>10. /\ e \in Seq(Packets) /\ Len(e) = Len(ask) + Len(t)
       /\ \A i \in 1 .. Len(t) : e[Len(ask) + i] = t[i]
  <2>1. /\ ask \o t \in Seq(Packets) /\ Len(ask \o t) = Len(ask) + Len(t)
        /\ \A i \in 1 .. Len(t) : (ask \o t)[Len(ask) + i] = t[i]
    <3>1. ask \in Seq(Packets) /\ t \in Seq(Packets)
      BY <1>2, <1>7
    <3> QED  BY <3>1, Joined
  <2> QED  BY <1>9, <2>1
<1>11. Good(e)
  <2> HIDE DEF Good
  <2> QED  BY <1>2, <1>3, <1>6, <1>7, <1>8, <1>9
<1>12. Len(ask) \in Nat /\ Len(r) \in Nat
  BY <1>1, <1>2
<1>13. Len(e) >= 1 /\ e[Len(e)] = Commit
  <2>1. Len(e) = Len(ask) + (Len(r) + 1) /\ Len(r) + 1 \in 1 .. Len(t)
    BY <1>7, <1>10, <1>12
  <2>2. e[Len(ask) + (Len(r) + 1)] = t[Len(r) + 1]
    BY <1>10, <2>1
  <2> QED  BY <1>7, <1>12, <2>1, <2>2
<1>14. ASSUME NEW l \in Led, force \/ prev = <<>> \/ prev[l] # f[l]
       PROVE  \E i \in 1 .. Len(e) : Writes(e[i], l)
  <2>1. PICK i \in 1 .. Len(r) : Writes(r[i], l)
    BY <1>1, <1>14
  <2>2. i \in 1 .. Len(t) /\ t[i] = r[i]
    BY <1>7, <1>12
  <2>3. Len(ask) + i \in 1 .. Len(e) /\ e[Len(ask) + i] = t[i]
    BY <1>10, <1>12, <2>2
  <2> QED  BY <2>1, <2>2, <2>3
<1> QED  BY <1>5, <1>10, <1>11, <1>13, <1>14

LEMMA CleanStep ==
  HostTypeOK /\ TypeInv /\ Clean /\ [HostNext]_allVars => Clean'
<1> SUFFICES ASSUME HostTypeOK, TypeInv, Clean, [HostNext]_allVars PROVE Clean'
  OBVIOUS
<1>1. outbox \in Seq(Packets)
  BY DEF HostTypeOK
<1>2. ASSUME NEW e \in Seq(Packets), \A i \in 1 .. Len(e) : Fits(e[i]),
             outbox' = outbox \o e, UNCHANGED vars
      PROVE  Clean'
  <2>1. \A i \in 1 .. Len(outbox') :
           \/ i \in 1 .. Len(outbox) /\ outbox'[i] = outbox[i]
           \/ i - Len(outbox) \in 1 .. Len(e) /\ outbox'[i] = e[i - Len(outbox)]
    BY <1>1, <1>2, Joined
  <2>2. \A i \in 1 .. Len(outbox') : Fits(outbox'[i])
    BY <1>2, <2>1 DEF Clean
  <2>3. main' = main /\ req' = req
    BY <1>2 DEF vars, handler
  <2> QED  BY <2>2, <2>3 DEF Clean
<1>3. CASE Initialize
  BY <1>2, <1>3, InitializeWrites DEF Initialize
<1>4. ASSUME NEW f \in Calls, SendAll(f) PROVE Clean'
  <2>1. PICK e \in Seq(Packets) : outbox' = outbox \o e /\ \A i \in 1 .. Len(e) : Fits(e[i])
    BY <1>4, SendAllWrites
  <2> QED  BY <1>2, <1>4, <2>1 DEF SendAll
<1>5. ASSUME NEW f \in Pictures, Render(f) PROVE Clean'
  BY <1>4, <1>5 DEF Render, Calls
<1>6. CASE ShutdownSuspending \/ ShutdownSignalRgb
  BY <1>4, <1>6 DEF ShutdownSuspending, ShutdownSignalRgb, Calls
<1>7. CASE ShutdownHardware
  <2>1. PICK e \in Seq(Packets) : outbox' = outbox \o e /\ \A i \in 1 .. Len(e) : Fits(e[i])
    BY <1>7, ShutdownWrites
  <2> QED  BY <1>2, <1>7, <2>1 DEF ShutdownHardware
<1>8. CASE HostCrash
  <2>1. PICK n \in 0 .. Len(outbox) : outbox' = SubSeq(outbox, 1, n)
    BY <1>8 DEF HostCrash
  <2>2. Len(outbox') = n /\ \A i \in 1 .. n : outbox'[i] = outbox[i] /\ i \in 1 .. Len(outbox)
    BY <1>1, <2>1
  <2>3. main' = main /\ req' = req
    BY <1>8 DEF HostCrash, vars, handler
  <2> QED  BY <2>2, <2>3 DEF Clean
<1>9. CASE Take
  <2>1. Len(outbox') = Len(outbox) - 1 /\ \A i \in 1 .. Len(outbox') : outbox'[i] = outbox[i + 1]
    BY <1>1, <1>9 DEF Take
  <2>2. \A i \in 1 .. Len(outbox') : Fits(outbox'[i])
    <3> SUFFICES ASSUME NEW i \in 1 .. Len(outbox') PROVE Fits(outbox'[i])
      OBVIOUS
    <3>1. i + 1 \in 1 .. Len(outbox)
      BY <1>1, <2>1
    <3> QED  BY <2>1, <3>1 DEF Clean
  <2>3. Head(outbox) = outbox[1] /\ 1 \in 1 .. Len(outbox)
    BY <1>1, <1>9 DEF Take
  <2>4. main' = "stream" => req' = Head(outbox)
    BY <1>9 DEF Take, Handle, GetInfo, SetMode, StreamZone, CommitFrame, Receive, handler
  <2> QED  BY <2>2, <2>3, <2>4 DEF Clean
<1>10. CASE Keyboard \/ UNCHANGED allVars
  <2>1. outbox' = outbox
    BY <1>10 DEF Keyboard, host, allVars
  <2>2. main' = "stream" => main = "stream" /\ req' = req
    BY <1>10 DEF Keyboard, MainStep, ThreadStep, ClearLed, CopyLed, ResetActiveIndex,
       ResetStagingIndex, MarkPacket, ModeReply, StreamLed, StreamOutOfRange, StreamDone,
       FlipActive, FlipStaging, KeyDraw, HeadDraw, SideDraw, Tick, vars, handler, allVars
  <2> QED  BY <2>1, <2>2 DEF Clean
<1> QED
  BY <1>3, <1>5, <1>6, <1>7, <1>8, <1>9, <1>10 DEF HostNext

(* Main's own steps carry out what was settled when the packet was taken.  *)
LEMMA SettledStep ==
  ASSUME TypeInv, AtStart, Clean, MainStep \/ ThreadStep \/ Tick \/ UNCHANGED vars,
         NEW k \in Led
  PROVE  Settled(k)' = Settled(k)
<1> DEFINE Same == Settled(k)' = Settled(k)
<1>1. ASSUME NEW l \in todo, ClearLed(l) PROVE Same
  BY <1>1 DEF ClearLed, Settled, hist
<1>2. ASSUME NEW l \in todo, CopyLed(l) PROVE Same
  BY <1>2 DEF CopyLed, Settled, hist
<1>3. CASE ResetActiveIndex
  BY <1>3 DEF ResetActiveIndex, Settled, Dark
<1>4. CASE ResetStagingIndex \/ MarkPacket \/ ModeReply \/ FlipActive \/ FlipStaging
  BY <1>4 DEF ResetStagingIndex, MarkPacket, ModeReply, FlipActive, FlipStaging, Settled, hist
<1>5. CASE StreamLed
  <2> DEFINE l == <<req.zone, req.start + pos>>
             c == req.rgb[pos + 1]
  <2>1. /\ main = "stream" /\ main' = main /\ req' = req /\ pos' = pos + 1
        /\ draft' = [draft EXCEPT ![l] = c]
    BY <1>5 DEF StreamLed
  <2>2. l \in Led /\ draft \in Frame /\ pos \in Nat
    BY <1>5, StreamedIsLed DEF StreamLed, TypeInv, TypeOK
  <2>3. req.start \in Nat /\ pos < Len(req.rgb) /\ Len(req.rgb) \in Nat
    <3>1. req \in [cmd : {"stream"}, zone : Zone \cup {"other"}, start : Nat, rgb : Seq(Colors)]
      BY <2>1, PacketAssumption DEF TypeInv, InStream, Packet
    <3> QED  BY <1>5, <3>1 DEF StreamLed
  <2>4. k = <<k[1], k[2]>> /\ k[2] \in Nat
    BY CountIsNat DEF Led, Leds
  <2>5. CASE k = l
    <3>1. k[1] = req.zone /\ k[2] = req.start + pos
      BY <2>5
    <3>2. k[2] - req.start + 1 = pos + 1
      BY <2>2, <2>3, <3>1
    <3>3. Settled(k) = c
      BY <2>1, <2>2, <2>3, <3>1, <3>2 DEF Settled
    <3>4. Settled(k)' = draft'[k]
      BY <2>1, <2>2, <2>3, <3>1 DEF Settled
    <3>5. draft'[k] = c
      BY <2>1, <2>2, <2>5 DEF Frame
    <3> QED  BY <3>3, <3>4, <3>5
  <2>6. CASE k # l
    <3>1. draft'[k] = draft[k]
      BY <2>1, <2>2, <2>6 DEF Frame
    <3>2. k[1] = req.zone => k[2] # req.start + pos
      BY <2>4, <2>6
    <3>3. (k[1] = req.zone /\ req.start + pos <= k[2]) <=>
          (k[1] = req.zone /\ req.start + (pos + 1) <= k[2])
      BY <2>2, <2>3, <2>4, <3>2
    <3> HIDE DEF l, c
    <3> QED  BY <2>1, <3>1, <3>3 DEF Settled
  <2> QED  BY <2>5, <2>6
<1>6. CASE StreamOutOfRange
  <2>1. /\ main = "stream" /\ pos < Len(req.rgb) /\ ~InRange
    BY <1>6 DEF StreamOutOfRange
  <2>2. req \in [cmd : {"stream"}, zone : Zone \cup {"other"}, start : Nat, rgb : Seq(Colors)]
    BY <2>1, PacketAssumption DEF TypeInv, InStream, Packet
  <2>3. req.zone \in Zone /\ req.start + Len(req.rgb) <= Count[req.zone]
    BY <2>1, <2>2 DEF Clean, Fits
  <2>4. Count[req.zone] \in Nat /\ Len(req.rgb) \in Nat /\ pos \in Nat
    BY <2>2, <2>3, CountIsNat DEF TypeInv, TypeOK
  <2> QED  BY <2>1, <2>2, <2>3, <2>4 DEF InRange
<1>7. CASE StreamDone
  <2>1. /\ main = "stream" /\ pos = Len(req.rgb) /\ main' = "mark" /\ draft' = draft
    BY <1>7 DEF StreamDone
  <2>2. ~(req.start + pos <= k[2] /\ k[2] < req.start + Len(req.rgb))
    <3>1. req \in [cmd : {"stream"}, zone : Zone \cup {"other"}, start : Nat, rgb : Seq(Colors)]
      BY <2>1, PacketAssumption DEF TypeInv, InStream, Packet
    <3>2. k[2] \in Nat
      BY CountIsNat DEF Led, Leds
    <3> QED  BY <2>1, <3>1, <3>2
  <2> QED  BY <2>1, <2>2 DEF Settled
<1>8. CASE ThreadStep \/ Tick \/ UNCHANGED vars
  BY <1>8 DEF ThreadStep, KeyDraw, HeadDraw, SideDraw, Tick, vars, handler, hist, Settled
<1> QED
  BY <1>1, <1>2, <1>3, <1>4, <1>5, <1>6, <1>7, <1>8 DEF MainStep

(* A packet taken settles the LEDs it writes, and no others.               *)
LEMMA SettledTake ==
  ASSUME HostTypeOK, TypeInv, AtStart, Clean, Take, NEW l \in Led
  PROVE  /\ Writes(Head(outbox), l) => Settled(l)' = ColorOf(Head(outbox), l)
         /\ ~Writes(Head(outbox), l) => Settled(l)' = Settled(l)
<1> DEFINE p == Head(outbox)
<1>1. p \in Packets /\ Fits(p) /\ main = "idle"
  <2>1. outbox \in Seq(Packets) /\ outbox # <<>>
    BY DEF HostTypeOK, Take
  <2>2. p = outbox[1] /\ 1 \in 1 .. Len(outbox) /\ p \in Packets
    BY <2>1
  <2>3. main = "idle"
    BY DEF Take, Handle, GetInfo, SetMode, StreamZone, CommitFrame, Receive
  <2> QED  BY <2>2, <2>3 DEF Clean
<1>2. GetInfo(p) \/ SetMode(p) \/ StreamZone(p) \/ CommitFrame(p)
  BY DEF Take, Handle
<1>3. Settled(l) = draft[l] /\ pos = 0
  BY <1>1 DEF Settled, AtStart
<1> HIDE DEF p
<1>4. CASE GetInfo(p)
  BY <1>1, <1>3, <1>4 DEF GetInfo, Receive, Writes, Settled, handler, p
<1>5. CASE SetMode(p)
  BY <1>1, <1>3, <1>5 DEF SetMode, Receive, Writes, ColorOf, Settled, p
<1>6. CASE StreamZone(p)
  <2>1. p \in [cmd : {"stream"}, zone : Zone \cup {"other"}, start : Nat, rgb : Seq(Colors)]
    BY <1>1, <1>6, PacketAssumption DEF StreamZone, Packet
  <2>2. main' = "stream" /\ req' = p /\ pos' = 0 /\ draft' = draft
    BY <1>1, <1>3, <1>6, <2>1 DEF StreamZone, Receive, Fits
  <2>3. Writes(p, l) <=> l[1] = p.zone /\ p.start <= l[2] /\ l[2] < p.start + Len(p.rgb)
    BY <2>1 DEF Writes
  <2>4. p.start + 0 = p.start
    BY <2>1
  <2> QED  BY <1>3, <2>1, <2>2, <2>3, <2>4 DEF Settled, ColorOf, p
<1>7. CASE CommitFrame(p)
  BY <1>1, <1>3, <1>7 DEF CommitFrame, Receive, Writes, Settled, p
<1> QED  BY <1>2, <1>4, <1>5, <1>6, <1>7

LEMMA CachedStep ==
  HostTypeOK /\ TypeInv /\ AtStart /\ Clean /\ Cached /\ [HostNext]_allVars => Cached'
<1> SUFFICES ASSUME HostTypeOK, TypeInv, AtStart, Clean, Cached, [HostNext]_allVars
             PROVE  Cached'
  OBVIOUS
<1>1. outbox \in Seq(Packets)
  BY DEF HostTypeOK
<1>2. ASSUME UNCHANGED vars, NEW l \in Led
      PROVE  Settled(l)' = Settled(l)
  BY <1>2 DEF Settled, vars, handler, hist
<1>3. CASE Initialize \/ HostCrash
  BY <1>3 DEF Initialize, HostCrash, Cached
<1>4. ASSUME NEW f \in Calls, SendAll(f) PROVE Cached'
  <2>1. PICK e \in Seq(Packets) :
           /\ outbox' = outbox \o e
           /\ \A l \in Led : \A i \in 1 .. Len(e) : Writes(e[i], l) => ColorOf(e[i], l) = f[l]
           /\ \A l \in Led : force \/ prev = <<>> \/ prev[l] # f[l] =>
                \E i \in 1 .. Len(e) : Writes(e[i], l)
    BY <1>4, SendAllWrites
  <2>2. prev' = f /\ UNCHANGED vars
    BY <1>4 DEF SendAll
  <2>3. ASSUME NEW l \in Led
        PROVE  Leaves(outbox \o e, l, Settled(l), f[l])
    <3>1. CASE \E k \in 1 .. Len(e) : Writes(e[k], l)
      BY <1>1, <2>1, <3>1, LeavesNew
    <3>2. CASE \A k \in 1 .. Len(e) : ~Writes(e[k], l)
      <4>1. prev # <<>> /\ prev[l] = f[l]
        BY <2>1, <3>2
      <4>2. Leaves(outbox, l, Settled(l), f[l])
        BY <4>1 DEF Cached
      <4> QED  BY <1>1, <3>2, <4>2, LeavesMore
    <3> QED  BY <3>1, <3>2
  <2>4. \A l \in Led : Leaves(outbox', l, Settled(l)', prev'[l])
    BY <1>2, <2>1, <2>2, <2>3
  <2> QED  BY <2>4 DEF Cached
<1>5. ASSUME NEW f \in Pictures, Render(f) PROVE Cached'
  BY <1>4, <1>5 DEF Render, Calls
<1>6. CASE ShutdownSuspending \/ ShutdownSignalRgb
  BY <1>4, <1>6 DEF ShutdownSuspending, ShutdownSignalRgb, Calls
<1>7. CASE ShutdownHardware
  <2>1. PICK e \in Seq(Packets) :
           outbox' = outbox \o e /\ \A l \in Led : \A i \in 1 .. Len(e) : ~Writes(e[i], l)
    BY <1>7, ShutdownWrites
  <2>2. prev' = prev /\ UNCHANGED vars
    BY <1>7 DEF ShutdownHardware
  <2>3. ASSUME prev # <<>>, NEW l \in Led
        PROVE  Leaves(outbox', l, Settled(l)', prev'[l])
    <3>1. Leaves(outbox, l, Settled(l), prev[l])
      BY <2>3 DEF Cached
    <3>2. Leaves(outbox \o e, l, Settled(l), prev[l])
      BY <1>1, <2>1, <3>1, LeavesMore
    <3> QED  BY <1>2, <2>1, <2>2, <3>2
  <2> QED  BY <2>2, <2>3 DEF Cached
<1>8. CASE Take
  <2>1. prev' = prev /\ outbox # <<>> /\ outbox' = Tail(outbox)
    BY <1>8 DEF Take
  <2>2. ASSUME prev # <<>>, NEW l \in Led
        PROVE  Leaves(outbox', l, Settled(l)', prev'[l])
    <3>1. Leaves(outbox, l, Settled(l), prev[l])
      BY <2>2 DEF Cached
    <3>2. PICK v : v = Settled(l)'
      OBVIOUS
    <3>3. Leaves(Tail(outbox), l, v, prev[l])
      BY <1>1, <1>8, <2>1, <3>1, <3>2, SettledTake, LeavesTail
    <3> QED  BY <2>1, <3>2, <3>3
  <2> QED  BY <2>1, <2>2 DEF Cached
<1>9. CASE Keyboard \/ UNCHANGED allVars
  <2>1. prev' = prev /\ outbox' = outbox
    BY <1>9 DEF Keyboard, host, allVars
  <2>2. MainStep \/ ThreadStep \/ Tick \/ UNCHANGED vars
    BY <1>9 DEF Keyboard, allVars
  <2>3. \A l \in Led : Settled(l)' = Settled(l)
    BY <2>2, SettledStep
  <2>4. ASSUME prev # <<>>, NEW l \in Led
        PROVE  Leaves(outbox', l, Settled(l)', prev'[l])
    BY <2>1, <2>3, <2>4 DEF Cached
  <2> QED  BY <2>1, <2>4 DEF Cached
<1> QED
  BY <1>3, <1>5, <1>6, <1>7, <1>8, <1>9 DEF HostNext

LEMMA ShownStep ==
  HostTypeOK /\ TypeInv /\ Shown /\ [HostNext]_allVars => Shown'
<1> SUFFICES ASSUME HostTypeOK, TypeInv, Shown, [HostNext]_allVars, wanted' # <<>>
             PROVE  prev' = wanted' /\ Committing'
  BY DEF Shown
<1>1. outbox \in Seq(Packets) /\ Len(outbox) \in Nat
  BY DEF HostTypeOK
<1>2. CASE Initialize \/ HostCrash
  BY <1>2 DEF Initialize, HostCrash
<1>3. ASSUME NEW f \in Calls, SendAll(f) PROVE prev' = wanted' /\ Committing'
  <2>1. PICK e \in Seq(Packets) :
           outbox' = outbox \o e /\ Len(e) >= 1 /\ e[Len(e)] = Commit
    BY <1>3, SendAllWrites
  <2> DEFINE n == Len(outbox) + Len(e)
  <2>2. /\ n \in 1 .. Len(outbox') /\ n = Len(outbox') /\ outbox'[n] = Commit
    <3>1. Len(e) \in 1 .. Len(e) /\ Len(e) \in Nat
      BY <2>1
    <3>2. /\ Len(outbox \o e) = Len(outbox) + Len(e)
          /\ (outbox \o e)[Len(outbox) + Len(e)] = e[Len(e)]
      BY <1>1, <3>1, Joined
    <3> QED  BY <1>1, <2>1, <3>1, <3>2
  <2> HIDE DEF n
  <2>3. Unchanged(outbox', n)
    BY <2>2 DEF Unchanged
  <2>4. prev' = f /\ wanted' = f
    BY <1>3 DEF SendAll
  <2> QED  BY <2>2, <2>3, <2>4 DEF Committing
<1>4. ASSUME NEW f \in Pictures, Render(f) PROVE prev' = wanted' /\ Committing'
  BY <1>3, <1>4 DEF Render, Calls
<1>5. CASE ShutdownSuspending \/ ShutdownSignalRgb
  BY <1>3, <1>5 DEF ShutdownSuspending, ShutdownSignalRgb, Calls
<1>6. CASE ShutdownHardware
  <2>1. PICK e \in Seq(Packets) : outbox' = outbox \o e /\ \A i \in 1 .. Len(e) : ~Changes(e[i])
    BY <1>6, ShutdownWrites
  <2>2. prev' = prev /\ wanted' = wanted /\ main' = main /\ committed' = committed /\ draft' = draft
    BY <1>6 DEF ShutdownHardware, vars, handler, hist
  <2>3. /\ Len(outbox') = Len(outbox) + Len(e) /\ Len(e) \in Nat
        /\ \A i \in 1 .. Len(outbox) : outbox'[i] = outbox[i]
        /\ \A i \in 1 .. Len(outbox') :
             \/ i \in 1 .. Len(outbox)
             \/ i - Len(outbox) \in 1 .. Len(e) /\ outbox'[i] = e[i - Len(outbox)]
    BY <1>1, <2>1, Joined
  <2>4. ASSUME NEW i \in 0 .. Len(outbox), Unchanged(outbox, i)
        PROVE  Unchanged(outbox', i)
    BY <2>1, <2>3, <2>4 DEF Unchanged
  <2>5. 0 \in 0 .. Len(outbox) /\ \A i \in 1 .. Len(outbox) : i \in 0 .. Len(outbox) /\ i \in 1 .. Len(outbox')
    BY <1>1, <2>3
  <2>6. Committing /\ prev' = wanted'
    BY <2>2 DEF Shown
  <2>7. CASE \E i \in 1 .. Len(outbox) : outbox[i] = Commit /\ Unchanged(outbox, i)
    BY <2>3, <2>4, <2>5, <2>6, <2>7 DEF Committing
  <2>8. CASE Unchanged(outbox, 0) /\ main = "flipActive"
    BY <2>2, <2>4, <2>5, <2>6, <2>8 DEF Committing
  <2>9. CASE /\ Unchanged(outbox, 0)
             /\ main \notin {"stream", "clear", "indexActive"} /\ committed = draft
    BY <2>2, <2>4, <2>5, <2>6, <2>9 DEF Committing
  <2> QED  BY <2>6, <2>7, <2>8, <2>9 DEF Committing
<1>7. CASE Take
  <2> DEFINE p == Head(outbox)
             t == Tail(outbox)
  <2>1. prev' = prev /\ wanted' = wanted /\ outbox # <<>> /\ outbox' = t
    BY <1>7 DEF Take
  <2>2. /\ p = outbox[1] /\ 1 \in 1 .. Len(outbox) /\ p \in Packets
        /\ Len(t) = Len(outbox) - 1 /\ \A i \in 1 .. Len(t) : t[i] = outbox[i + 1]
    BY <1>1, <2>1
  <2>3. /\ main = "idle" /\ committed' = committed /\ draft' = draft
        /\ GetInfo(p) \/ SetMode(p) \/ StreamZone(p) \/ CommitFrame(p)
    BY <1>7 DEF Take, Handle, GetInfo, SetMode, StreamZone, CommitFrame, Receive
  <2> HIDE DEF p, t
  <2>4. ASSUME NEW i \in 1 .. Len(outbox), Unchanged(outbox, i)
        PROVE  Unchanged(t, i - 1)
    <3> SUFFICES ASSUME NEW j \in 1 .. Len(t), j > i - 1
                 PROVE  ~Changes(t[j])
      BY DEF Unchanged
    <3>1. j + 1 \in 1 .. Len(outbox) /\ j + 1 > i /\ t[j] = outbox[j + 1]
      BY <1>1, <2>2
    <3> QED  BY <2>4, <3>1 DEF Unchanged
  <2>5. Unchanged(outbox, 0) => Unchanged(outbox, 1) /\ ~Changes(p)
    BY <1>1, <2>2 DEF Unchanged
  <2>6. Committing /\ prev' = wanted'
    BY <2>1 DEF Shown
  <2>7. CASE \E i \in 1 .. Len(outbox) : outbox[i] = Commit /\ Unchanged(outbox, i)
    <3>1. PICK i \in 1 .. Len(outbox) : outbox[i] = Commit /\ Unchanged(outbox, i)
      BY <2>7
    <3>2. CASE i = 1
      <4>1. main' = "flipActive"
        BY <2>2, <2>3, <3>1, <3>2 DEF GetInfo, SetMode, StreamZone, CommitFrame, Commit
      <4>2. Unchanged(t, 0)
        BY <2>4, <3>1, <3>2
      <4> QED  BY <2>1, <2>6, <4>1, <4>2 DEF Committing
    <3>3. CASE i > 1
      <4>1. i - 1 \in 1 .. Len(t) /\ t[i - 1] = Commit
        BY <1>1, <2>2, <3>1, <3>3
      <4>2. Unchanged(t, i - 1)
        BY <2>4, <3>1
      <4> QED  BY <2>1, <2>6, <4>1, <4>2 DEF Committing
    <3> QED  BY <3>2, <3>3
  <2>8. CASE Unchanged(outbox, 0) /\ main = "flipActive"
    BY <2>3, <2>8
  <2>9. CASE /\ Unchanged(outbox, 0)
             /\ main \notin {"stream", "clear", "indexActive"} /\ committed = draft
    <3>1. Unchanged(t, 0)
      BY <2>2, <2>4, <2>5, <2>9
    <3>2. main' \notin {"stream", "clear", "indexActive"}
      BY <2>3, <2>5, <2>9
      DEF GetInfo, SetMode, StreamZone, CommitFrame, Receive, Changes, handler
    <3> QED  BY <2>1, <2>3, <2>6, <2>9, <3>1, <3>2 DEF Committing
  <2> QED  BY <2>6, <2>7, <2>8, <2>9 DEF Committing
<1>8. CASE Keyboard \/ UNCHANGED allVars
  <2>1. prev' = prev /\ outbox' = outbox /\ wanted' = wanted
    BY <1>8 DEF Keyboard, host, allVars
  <2>2. MainStep \/ ThreadStep \/ Tick \/ UNCHANGED vars
    BY <1>8 DEF Keyboard, allVars
  <2>3. main = "flipActive" =>
          \/ main' = main
          \/ main' \notin {"stream", "clear", "indexActive"} /\ committed' = draft'
    BY <2>2 DEF MainStep, ThreadStep, ClearLed, CopyLed, ResetActiveIndex, ResetStagingIndex,
       MarkPacket, ModeReply, StreamLed, StreamOutOfRange, StreamDone, FlipActive,
       FlipStaging, KeyDraw, HeadDraw, SideDraw, Tick, vars, handler, hist
  <2>4. main \notin {"stream", "clear", "indexActive", "flipActive"} =>
          /\ main' \notin {"stream", "clear", "indexActive"}
          /\ committed' = committed /\ draft' = draft
    BY <2>2 DEF MainStep, ThreadStep, ClearLed, CopyLed, ResetActiveIndex, ResetStagingIndex,
       MarkPacket, ModeReply, StreamLed, StreamOutOfRange, StreamDone, FlipActive,
       FlipStaging, KeyDraw, HeadDraw, SideDraw, Tick, vars, handler, hist
  <2>5. prev = wanted /\ Committing
    BY <2>1 DEF Shown
  <2> QED  BY <2>1, <2>3, <2>4, <2>5 DEF Committing
<1> QED
  BY <1>2, <1>4, <1>5, <1>6, <1>7, <1>8 DEF HostNext

LEMMA LinkHolds == HostSpec => [](HostTypeOK /\ TypeInv /\ FrameInv /\ LinkInv)
<1> DEFINE Base == HostTypeOK /\ TypeInv /\ FrameInv
<1>1. HostSpec => []Base
  BY HostTypeCorrect, ImplementsReceiver, InvariantHolds, PTL
<1>2. Base /\ LinkInv /\ [HostNext]_allVars => LinkInv'
  BY ReceiverStep, AtStartStep, CleanStep, CachedStep, ShownStep DEF LinkInv
<1>3. Init /\ HostInit => LinkInv
  BY LinkInit
<1> HIDE DEF Base
<1>4. HostSpec => []LinkInv
  BY <1>1, <1>2, <1>3, PTL DEF HostSpec
<1> QED  BY <1>1, <1>4, PTL DEF Base

(* Whatever was on the keyboard before, and however often the host died or *)
(* began a new session: once all that was sent is worked off, the frame on *)
(* show is the one rendered last, of which the plugin sent only the chunks *)
(* that changed (signalrgb_neon80.js:441-489, led.c:819-831).              *)
THEOREM DeltasAreFaithful == HostSpec => []Faithful
<1>1. ASSUME HostTypeOK, TypeInv, FrameInv, LinkInv,
             outbox = <<>>, main = "idle", wanted # <<>>
      PROVE  frames[activeIdx] = wanted
  <2>1. prev = wanted /\ Committing /\ Cached
    BY <1>1 DEF LinkInv, Shown
  <2>2. Len(outbox) = 0
    BY <1>1
  <2>3. committed = draft
    BY <1>1, <2>1, <2>2 DEF Committing
  <2>4. \A l \in Led : draft[l] = prev[l]
    <3> SUFFICES ASSUME NEW l \in Led PROVE draft[l] = prev[l]
      OBVIOUS
    <3>1. Leaves(outbox, l, Settled(l), prev[l])
      BY <1>1, <2>1 DEF Cached
    <3>2. Settled(l) = prev[l]
      BY <2>2, <3>1 DEF Leaves
    <3> QED  BY <1>1, <3>2 DEF Settled
  <2>5. draft \in Frame /\ prev \in Frame
    BY <1>1, <2>1 DEF TypeInv, TypeOK, HostTypeOK
  <2>6. draft = prev
    BY <2>4, <2>5 DEF Frame
  <2>7. frames[activeIdx] = committed
    BY <1>1 DEF FrameInv, ActiveIsCommitted
  <2> QED  BY <2>1, <2>3, <2>6, <2>7
<1>2. HostTypeOK /\ TypeInv /\ FrameInv /\ LinkInv => Faithful
  BY <1>1 DEF Faithful
<1> QED  BY <1>2, LinkHolds, PTL

(* Every chunk is cut so that the keyboard writes it to its last LED, for  *)
(* any zones and any size of the chunks it takes (signalrgb_neon80.js:447, *)
(* led.c:767-813).                                                         *)
THEOREM ChunksAreTaken == HostSpec => []NothingRefused
<1>1. ASSUME TypeInv, Clean, main = "stream", pos < Len(req.rgb)
      PROVE  InRange
  <2>1. req \in [cmd : {"stream"}, zone : Zone \cup {"other"}, start : Nat, rgb : Seq(Colors)]
    BY <1>1, PacketAssumption DEF TypeInv, InStream, Packet
  <2>2. req.zone \in Zone /\ req.start + Len(req.rgb) <= Count[req.zone]
    BY <1>1, <2>1 DEF Clean, Fits
  <2>3. Count[req.zone] \in Nat /\ Len(req.rgb) \in Nat /\ pos \in Nat
    BY <1>1, <2>1, <2>2, CountIsNat DEF TypeInv, TypeOK
  <2> QED  BY <1>1, <2>1, <2>2, <2>3 DEF InRange
<1>2. TypeInv /\ LinkInv => NothingRefused
  BY <1>1 DEF NothingRefused, LinkInv
<1> QED  BY <1>2, LinkHolds, PTL
============================================================================
