-------------------------- MODULE AnimStore_proofs --------------------------
(***************************************************************************)
(* Proofs about the animation store, for any number of modes, any page and *)
(* sector sizes that fit the layout, any set of animations and any of the  *)
(* commands they are uploaded to.                                          *)
(***************************************************************************)
EXTENDS AnimStore, TLAPS

----------------------------------------------------------------------------
(* Arithmetic.                                                             *)

LEMMA TimesMonotone ==
  ASSUME NEW s \in Nat, NEW a \in Int, NEW b \in Int, a <= b
  PROVE  a * s <= b * s
OBVIOUS

LEMMA QuotientIs ==
  ASSUME NEW s \in Nat \ {0}, NEW q \in Nat, NEW x \in Int, q * s <= x, x < (q + 1) * s
  PROVE  x \div s = q
OBVIOUS

LEMMA QuotientBounds ==
  ASSUME NEW s \in Nat \ {0}, NEW x \in Nat
  PROVE  /\ x \div s \in Nat
         /\ (x \div s) * s <= x
         /\ x < ((x \div s) + 1) * s
OBVIOUS

(* A pack of a page stays inside the region of n pages.                    *)
LEMMA InsidePages ==
  ASSUME NEW size \in Nat, NEW n \in Nat, NEW p \in 0 .. n - 1, NEW k \in 0 .. size - 1
  PROVE  p * size + k \in 0 .. size * n - 1
<1>1. p * size >= 0
  OBVIOUS
<1>2. (p + 1) * size <= n * size
  BY TimesMonotone
<1>3. (p + 1) * size = p * size + size /\ size * n = n * size
  OBVIOUS
<1> QED
  BY <1>1, <1>2, <1>3

(* Two packs at the same offset are the same pack of the same page.        *)
LEMMA PagesApart ==
  ASSUME NEW size \in Nat, NEW p \in Nat, NEW q \in Nat,
         NEW k \in 0 .. size - 1, NEW l \in 0 .. size - 1,
         p * size + k = q * size + l
  PROVE  p = q /\ k = l
<1>1. CASE p < q
  <2>1. (p + 1) * size <= q * size
    BY <1>1, TimesMonotone
  <2>2. (p + 1) * size = p * size + size
    OBVIOUS
  <2> QED
    BY <2>1, <2>2
<1>2. CASE q < p
  <2>1. (q + 1) * size <= p * size
    BY <1>2, TimesMonotone
  <2>2. (q + 1) * size = q * size + size
    OBVIOUS
  <2> QED
    BY <2>1, <2>2
<1> QED
  BY <1>1, <1>2

----------------------------------------------------------------------------
(* The layout, counted in sectors.                                         *)

SectorsOf(z) == RegionSize(z) \div Sector

FirstSector(c) ==
  1 + (c[2] - 1) * SectorsOf(c[1])
    + CASE c[1] = "key"  -> 0
        [] c[1] = "head" -> ModeMax * SectorsOf("key")
        [] c[1] = "side" -> ModeMax * SectorsOf("key") + ModeMax * SectorsOf("head")

LEMMA RegionFacts ==
  ASSUME NEW z \in Zones
  PROVE  /\ PageSize[z] \in Nat /\ LastPack[z] \in 1 .. PageSize[z] - 1
         /\ RegionSize(z) \in Nat /\ SectorsOf(z) \in Nat
         /\ RegionSize(z) = SectorsOf(z) * Sector
<1>1. PageSize[z] \in Nat /\ LastPack[z] \in 1 .. PageSize[z] - 1
  BY AnimStoreAssumption
<1>2. RegionSize(z) \in Nat /\ RegionSize(z) % Sector = 0
  BY <1>1, AnimStoreAssumption DEF RegionSize
<1>3. Sector \in Nat \ {0}
  BY AnimStoreAssumption
<1> DEFINE r == RegionSize(z)
<1>4. \A x \in Nat : x % Sector = 0 => x = (x \div Sector) * Sector /\ x \div Sector \in Nat
  BY <1>3
<1> QED
  BY <1>1, <1>2, <1>4 DEF SectorsOf

LEMMA StartIsFirstSector ==
  ASSUME NEW c \in Cmds
  PROVE  FirstSector(c) \in Nat /\ Start(c) = FirstSector(c) * Sector
<1>1. PICK z \in Zones, m \in Modes : c = <<z, m>>
  BY DEF Cmds
<1>2. Sector \in Nat /\ ModeMax \in Nat /\ m \in Nat /\ m >= 1
  BY AnimStoreAssumption DEF Modes
<1>3. \A y \in Zones : SectorsOf(y) \in Nat /\ RegionSize(y) = SectorsOf(y) * Sector
  BY RegionFacts
<1>4. \A a, b \in Nat : (m - 1) * (a * b) = ((m - 1) * a) * b /\ ModeMax * (a * b) = (ModeMax * a) * b
  BY <1>2
<1> DEFINE k == SectorsOf("key")
           h == SectorsOf("head")
           w == SectorsOf(z)
<1>5. k \in Nat /\ h \in Nat /\ w \in Nat
      /\ RegionSize("key") = k * Sector /\ RegionSize("head") = h * Sector
      /\ RegionSize(z) = w * Sector
  BY <1>3 DEF Zones
<1>6. (m - 1) * w \in Nat /\ ModeMax * k \in Nat /\ ModeMax * h \in Nat
  BY <1>2, <1>5
<1> HIDE DEF k, h, w
<1>7. (m - 1) * (w * Sector) = ((m - 1) * w) * Sector
      /\ ModeMax * (k * Sector) = (ModeMax * k) * Sector
      /\ ModeMax * (k * Sector + h * Sector) = (ModeMax * k) * Sector + (ModeMax * h) * Sector
  BY <1>2, <1>5
<1>8. \A a, b \in Nat : (1 + a + b) * Sector = Sector + a * Sector + b * Sector
  BY <1>2
<1>8a. \A a, b \in Nat : (a + b) * Sector = a * Sector + b * Sector
  BY <1>2
<1>9. CASE z = "key"
  <2>1. FirstSector(c) = 1 + (m - 1) * w
    BY <1>1, <1>9, <1>5, <1>6 DEF FirstSector, w
  <2>2. Start(c) = Sector + (m - 1) * (w * Sector)
    <3>1. (m - 1) * (w * Sector) \in Int
      BY <1>2, <1>5
    <3> QED
      BY <1>1, <1>9, <1>5, <1>2, <3>1 DEF Start
  <2>3. (1 + (m - 1) * w) * Sector = Sector + ((m - 1) * w) * Sector
    BY <1>2, <1>6
  <2>4. FirstSector(c) \in Nat
    BY <2>1, <1>6
  <2> QED
    BY <2>1, <2>2, <2>3, <2>4, <1>7
<1>10. CASE z = "head"
  <2>1. FirstSector(c) = 1 + (m - 1) * w + ModeMax * k
    BY <1>1, <1>10, <1>5, <1>6 DEF FirstSector, w, k
  <2>2. Start(c) = Sector + (m - 1) * (w * Sector) + ModeMax * (k * Sector)
    BY <1>1, <1>10, <1>5 DEF Start
  <2>3. (1 + (m - 1) * w + ModeMax * k) * Sector
          = Sector + ((m - 1) * w) * Sector + (ModeMax * k) * Sector
    BY <1>6, <1>8
  <2>4. FirstSector(c) \in Nat
    BY <2>1, <1>6
  <2> QED
    BY <2>1, <2>2, <2>3, <2>4, <1>7
<1>11. CASE z = "side"
  <2>1. FirstSector(c) = 1 + (m - 1) * w + (ModeMax * k + ModeMax * h)
    BY <1>1, <1>11, <1>5, <1>6 DEF FirstSector, w, k, h
  <2>2. Start(c) = Sector + (m - 1) * (w * Sector) + ModeMax * (k * Sector + h * Sector)
    BY <1>1, <1>11, <1>5 DEF Start
  <2>3. ModeMax * k + ModeMax * h \in Nat
    BY <1>6
  <2>4. (1 + (m - 1) * w + (ModeMax * k + ModeMax * h)) * Sector
          = Sector + ((m - 1) * w) * Sector + (ModeMax * k + ModeMax * h) * Sector
    BY <2>3, <1>6, <1>8
  <2>5. (ModeMax * k + ModeMax * h) * Sector = (ModeMax * k) * Sector + (ModeMax * h) * Sector
    BY <1>6, <1>8a
  <2>6. FirstSector(c) \in Nat
    BY <2>1, <2>3, <1>6
  <2>7. /\ (m - 1) * (w * Sector) \in Int
        /\ (ModeMax * k) * Sector \in Int /\ (ModeMax * h) * Sector \in Int
    BY <1>2, <1>5, <1>6
  <2> QED
    BY <2>1, <2>2, <2>4, <2>5, <2>6, <2>7, <1>7
<1> QED
  BY <1>9, <1>10, <1>11 DEF Zones

(* Regions of two commands share no sector, and the last ends the flash.   *)
LEMMA RegionsApart ==
  ASSUME NEW c \in Cmds, NEW d \in Cmds, c # d
  PROVE  \/ FirstSector(c) + SectorsOf(c[1]) <= FirstSector(d)
         \/ FirstSector(d) + SectorsOf(d[1]) <= FirstSector(c)
<1>1. PICK z \in Zones, m \in Modes : c = <<z, m>>
  BY DEF Cmds
<1>2. PICK y \in Zones, n \in Modes : d = <<y, n>>
  BY DEF Cmds
<1> DEFINE k == SectorsOf("key")
           h == SectorsOf("head")
           w == SectorsOf("side")
<1>3. k \in Nat /\ h \in Nat /\ w \in Nat
  BY RegionFacts DEF Zones
<1> HIDE DEF k, h, w
<1>4. /\ ModeMax \in Nat /\ m \in 1 .. ModeMax /\ n \in 1 .. ModeMax
  BY AnimStoreAssumption DEF Modes
<1> DEFINE Spans(s) == /\ (m - 1) * s \in Nat /\ (n - 1) * s \in Nat /\ ModeMax * s \in Nat
                       /\ (m - 1) * s + s <= ModeMax * s
                       /\ (n - 1) * s + s <= ModeMax * s
                       /\ m < n => (m - 1) * s + s <= (n - 1) * s
                       /\ n < m => (n - 1) * s + s <= (m - 1) * s
<1>5. ASSUME NEW s \in Nat PROVE Spans(s)
  <2>1. m * s = (m - 1) * s + s /\ n * s = (n - 1) * s + s
    BY <1>4
  <2>2. m * s <= ModeMax * s /\ n * s <= ModeMax * s
    BY <1>4, TimesMonotone
  <2>3. m < n => m * s <= (n - 1) * s
    BY <1>4, TimesMonotone
  <2>4. n < m => n * s <= (m - 1) * s
    BY <1>4, TimesMonotone
  <2>5. (m - 1) * s \in Nat /\ (n - 1) * s \in Nat /\ ModeMax * s \in Nat
    BY <1>4
  <2> QED
    BY <2>1, <2>2, <2>3, <2>4, <2>5
<1> HIDE DEF Spans
<1>6. /\ z = "key"  => FirstSector(c) = 1 + (m - 1) * k + 0
      /\ z = "head" => FirstSector(c) = 1 + (m - 1) * h + ModeMax * k
      /\ z = "side" => FirstSector(c) = 1 + (m - 1) * w + (ModeMax * k + ModeMax * h)
      /\ y = "key"  => FirstSector(d) = 1 + (n - 1) * k + 0
      /\ y = "head" => FirstSector(d) = 1 + (n - 1) * h + ModeMax * k
      /\ y = "side" => FirstSector(d) = 1 + (n - 1) * w + (ModeMax * k + ModeMax * h)
  BY <1>1, <1>2 DEF FirstSector, k, h, w
<1>7. /\ z = "key"  => SectorsOf(c[1]) = k
      /\ z = "head" => SectorsOf(c[1]) = h
      /\ z = "side" => SectorsOf(c[1]) = w
      /\ y = "key"  => SectorsOf(d[1]) = k
      /\ y = "head" => SectorsOf(d[1]) = h
      /\ y = "side" => SectorsOf(d[1]) = w
  BY <1>1, <1>2 DEF k, h, w
<1>8. z \in {"key", "head", "side"} /\ y \in {"key", "head", "side"} /\ (z = y => m < n \/ n < m)
  BY <1>1, <1>2, <1>4 DEF Zones
<1>9. Spans(k) /\ Spans(h) /\ Spans(w)
  BY <1>3, <1>5
<1>10. CASE z = y
  BY <1>3, <1>6, <1>7, <1>8, <1>9, <1>10 DEF Spans
<1>11. CASE z # y
  BY <1>3, <1>6, <1>7, <1>8, <1>9, <1>11 DEF Spans
<1> QED
  BY <1>10, <1>11

LEMMA RegionInFlash ==
  ASSUME NEW c \in Cmds
  PROVE  Start(c) \in Nat /\ Start(c) + RegionSize(c[1]) <= FlashSize
<1>1. PICK z \in Zones, m \in Modes : c = <<z, m>>
  BY DEF Cmds
<1> DEFINE k == RegionSize("key")
           h == RegionSize("head")
           w == RegionSize("side")
<1>2. k \in Nat /\ h \in Nat /\ w \in Nat /\ Sector \in Nat /\ ModeMax \in Nat /\ m \in 1 .. ModeMax
  BY RegionFacts, AnimStoreAssumption DEF Zones, Modes
<1> HIDE DEF k, h, w
<1>3. \A s \in Nat : (m - 1) * s \in Nat /\ ModeMax * s \in Nat /\ (m - 1) * s + s <= ModeMax * s
  <2> TAKE s \in Nat
  <2>1. m * s = (m - 1) * s + s /\ m * s <= ModeMax * s
    BY <1>2, TimesMonotone
  <2> QED
    BY <2>1, <1>2
<1>4. FlashSize = Sector + (ModeMax * k + ModeMax * h + ModeMax * w)
  BY <1>2 DEF FlashSize, k, h, w
<1>5. /\ z = "key"  => Start(c) = Sector + (m - 1) * k + 0 /\ RegionSize(c[1]) = k
      /\ z = "head" => Start(c) = Sector + (m - 1) * h + ModeMax * k /\ RegionSize(c[1]) = h
      /\ z = "side" => Start(c) = Sector + (m - 1) * w + ModeMax * (k + h) /\ RegionSize(c[1]) = w
  BY <1>1 DEF Start, k, h, w
<1>6. ModeMax * (k + h) = ModeMax * k + ModeMax * h
  BY <1>2
<1>7. /\ (m - 1) * k \in Nat /\ ModeMax * k \in Nat /\ (m - 1) * k + k <= ModeMax * k
      /\ (m - 1) * h \in Nat /\ ModeMax * h \in Nat /\ (m - 1) * h + h <= ModeMax * h
      /\ (m - 1) * w \in Nat /\ ModeMax * w \in Nat /\ (m - 1) * w + w <= ModeMax * w
  BY <1>2, <1>3
<1> QED
  BY <1>2, <1>4, <1>5, <1>6, <1>7 DEF Zones

Pages == 0 .. FrameMax - 1

(* Every pack has an address inside the region of its command.             *)
LEMMA AddrInside ==
  ASSUME NEW c \in Cmds, NEW p \in Pages, NEW k \in Packs(c)
  PROVE  /\ Addr(c, p, k) \in Start(c) .. Start(c) + RegionSize(c[1]) - 1
         /\ Addr(c, p, k) \in 0 .. FlashSize - 1
         /\ k \in 0 .. FlashSize
<1>1. c[1] \in Zones
  BY DEF Cmds
<1>2. PageSize[c[1]] \in Nat /\ k \in 0 .. PageSize[c[1]] - 1 /\ FrameMax \in Nat
  BY <1>1, RegionFacts, AnimStoreAssumption DEF Packs
<1>3. p * PageSize[c[1]] + k \in 0 .. RegionSize(c[1]) - 1
  BY <1>2, InsidePages DEF Pages, RegionSize
<1>4. p * PageSize[c[1]] \in Nat /\ RegionSize(c[1]) \in Nat
  BY <1>1, <1>2, RegionFacts DEF Pages
<1>5. Start(c) \in Nat /\ Start(c) + RegionSize(c[1]) <= FlashSize
  BY RegionInFlash
<1>6. FlashSize \in Int
  BY AnimStoreAssumption DEF FlashSize, RegionSize, Zones
<1> HIDE DEF RegionSize, FlashSize
<1> QED
  BY <1>2, <1>3, <1>4, <1>5, <1>6 DEF Addr

(* No two packs share an address.                                          *)
LEMMA AddrApart ==
  ASSUME NEW c \in Cmds, NEW p \in Pages, NEW k \in Packs(c),
         NEW d \in Cmds, NEW q \in Pages, NEW l \in Packs(d),
         Addr(c, p, k) = Addr(d, q, l)
  PROVE  c = d /\ p = q /\ k = l
<1>1. c[1] \in Zones /\ d[1] \in Zones
  BY DEF Cmds
<1>2. CASE c = d
  <2>1. PageSize[c[1]] \in Nat /\ k \in 0 .. PageSize[c[1]] - 1 /\ l \in 0 .. PageSize[c[1]] - 1
    BY <1>1, <1>2, RegionFacts DEF Packs
  <2>2. p * PageSize[c[1]] \in Nat /\ q * PageSize[c[1]] \in Nat /\ p \in Nat /\ q \in Nat
    BY <2>1 DEF Pages
  <2>3. Start(c) \in Nat
    BY RegionInFlash
  <2>4. p * PageSize[c[1]] + k = q * PageSize[c[1]] + l
    <3>1. Start(c) + p * PageSize[c[1]] + k = Start(c) + q * PageSize[c[1]] + l
      BY <1>2 DEF Addr
    <3>2. k \in Nat /\ l \in Nat
      BY <2>1
    <3> DEFINE a == Start(c)
               b == p * PageSize[c[1]]
               e == q * PageSize[c[1]]
    <3>3. a + b + k = a + e + l /\ a \in Nat /\ b \in Nat /\ e \in Nat
      BY <3>1, <2>2, <2>3
    <3> HIDE DEF a, b, e
    <3>4. b + k = e + l
      BY <3>2, <3>3
    <3> QED
      BY <3>4 DEF b, e
  <2> QED
    BY <1>2, <2>1, <2>2, <2>4, PagesApart
<1>3. CASE c # d
  <2>1. \/ FirstSector(c) + SectorsOf(c[1]) <= FirstSector(d)
        \/ FirstSector(d) + SectorsOf(d[1]) <= FirstSector(c)
    BY <1>3, RegionsApart
  <2>2. \/ (FirstSector(c) + SectorsOf(c[1])) * Sector <= FirstSector(d) * Sector
        \/ (FirstSector(d) + SectorsOf(d[1])) * Sector <= FirstSector(c) * Sector
    <3>1. /\ FirstSector(c) \in Int /\ FirstSector(c) + SectorsOf(c[1]) \in Int
          /\ FirstSector(d) \in Int /\ FirstSector(d) + SectorsOf(d[1]) \in Int
          /\ Sector \in Nat
      BY <1>1, RegionFacts, StartIsFirstSector, AnimStoreAssumption
    <3> HIDE DEF SectorsOf
    <3> QED
      BY <2>1, <3>1, TimesMonotone
  <2>3. /\ (FirstSector(c) + SectorsOf(c[1])) * Sector = Start(c) + RegionSize(c[1])
        /\ (FirstSector(d) + SectorsOf(d[1])) * Sector = Start(d) + RegionSize(d[1])
    BY <1>1, RegionFacts, StartIsFirstSector, AnimStoreAssumption
  <2>4. Start(c) + RegionSize(c[1]) <= Start(d) \/ Start(d) + RegionSize(d[1]) <= Start(c)
    BY <2>2, <2>3, StartIsFirstSector
  <2>5. /\ Addr(c, p, k) \in Start(c) .. Start(c) + RegionSize(c[1]) - 1
        /\ Addr(d, q, l) \in Start(d) .. Start(d) + RegionSize(d[1]) - 1
        /\ Start(c) \in Nat /\ Start(d) \in Nat
    BY AddrInside, RegionInFlash
  <2>6. RegionSize(c[1]) \in Nat /\ RegionSize(d[1]) \in Nat
    BY <1>1, RegionFacts
  <2> HIDE DEF RegionSize
  <2> QED
    BY <2>4, <2>5, <2>6
<1> QED
  BY <1>2, <1>3

(* Round i of the erase loop erases sector i of the region.                *)
LEMMA RoundHits ==
  ASSUME NEW c \in Cmds, NEW i \in 0 .. SectorsOf(c[1]) - 1, NEW x \in Nat
  PROVE  x \div Sector = (Addr(c, 0, 0) + i * Sector) \div Sector
           <=> Start(c) + i * Sector <= x /\ x < Start(c) + (i + 1) * Sector
<1> DEFINE f == FirstSector(c) + i
<1>1. Sector \in Nat \ {0} /\ i \in Nat /\ FirstSector(c) \in Nat /\ Start(c) = FirstSector(c) * Sector
  BY AnimStoreAssumption, StartIsFirstSector
<1>2. f \in Nat /\ f * Sector = Start(c) + i * Sector /\ (f + 1) * Sector = Start(c) + (i + 1) * Sector
  BY <1>1
<1>3. c[1] \in Zones /\ PageSize[c[1]] \in Nat
  BY AnimStoreAssumption DEF Cmds
<1>3a. 0 * PageSize[c[1]] = 0
  BY <1>3
<1>4. Addr(c, 0, 0) + i * Sector = f * Sector
  BY <1>1, <1>2, <1>3a DEF Addr
<1> HIDE DEF f
<1>5. f * Sector < (f + 1) * Sector /\ f * Sector \in Nat
  BY <1>1, <1>2
<1>6. (Addr(c, 0, 0) + i * Sector) \div Sector = f
  BY <1>1, <1>2, <1>4, <1>5, QuotientIs
<1>7. ASSUME f * Sector <= x, x < (f + 1) * Sector PROVE x \div Sector = f
  <2>1. x \in Int /\ f \in Nat
    BY <1>2
  <2> QED
    BY <1>1, <1>7, <2>1, QuotientIs
<1>8. x \div Sector = f => f * Sector <= x /\ x < (f + 1) * Sector
  BY <1>1, QuotientBounds
<1> QED
  BY <1>2, <1>6, <1>7, <1>8

(* ... and none of another region.                                         *)
LEMMA RoundMisses ==
  ASSUME NEW c \in Cmds, NEW i \in 0 .. SectorsOf(c[1]) - 1,
         NEW d \in Cmds, NEW q \in Pages, NEW l \in Packs(d), c # d
  PROVE  Addr(d, q, l) \div Sector # (Addr(c, 0, 0) + i * Sector) \div Sector
<1>1. c[1] \in Zones /\ d[1] \in Zones
  BY DEF Cmds
<1>2. \/ FirstSector(c) + SectorsOf(c[1]) <= FirstSector(d)
      \/ FirstSector(d) + SectorsOf(d[1]) <= FirstSector(c)
  BY RegionsApart
<1>3. /\ Sector \in Nat \ {0} /\ SectorsOf(c[1]) \in Nat /\ SectorsOf(d[1]) \in Nat
      /\ FirstSector(c) \in Nat /\ FirstSector(d) \in Nat
      /\ Start(c) = FirstSector(c) * Sector /\ Start(d) = FirstSector(d) * Sector
      /\ RegionSize(d[1]) = SectorsOf(d[1]) * Sector /\ RegionSize(d[1]) \in Nat
  BY <1>1, AnimStoreAssumption, StartIsFirstSector, RegionFacts
<1>4. Addr(d, q, l) \in Start(d) .. Start(d) + RegionSize(d[1]) - 1
  BY AddrInside
<1>5. Addr(d, q, l) \in Nat
  BY AddrInside, <1>3, <1>4
<1>6. (FirstSector(d) + SectorsOf(d[1])) * Sector = Start(d) + RegionSize(d[1])
  BY <1>3
<1>7. (FirstSector(c) + i) * Sector = Start(c) + i * Sector
      /\ (FirstSector(c) + (i + 1)) * Sector = Start(c) + (i + 1) * Sector
  BY <1>3
<1>8. CASE FirstSector(c) + SectorsOf(c[1]) <= FirstSector(d)
  <2>1. (FirstSector(c) + (i + 1)) * Sector <= FirstSector(d) * Sector
    BY <1>3, <1>8, TimesMonotone
  <2>2. ~(Addr(d, q, l) < Start(c) + (i + 1) * Sector)
    BY <2>1, <1>3, <1>4, <1>5, <1>7
  <2> QED
    BY <2>2, <1>5, RoundHits
<1>9. CASE FirstSector(d) + SectorsOf(d[1]) <= FirstSector(c)
  <2>1. (FirstSector(d) + SectorsOf(d[1])) * Sector <= (FirstSector(c) + i) * Sector
    BY <1>3, <1>9, TimesMonotone
  <2>2. ~(Start(c) + i * Sector <= Addr(d, q, l))
    BY <2>1, <1>3, <1>4, <1>5, <1>6, <1>7
  <2> QED
    BY <2>2, <1>5, RoundHits
<1> QED
  BY <1>2, <1>8, <1>9

----------------------------------------------------------------------------
(* The invariant.                                                          *)

Upload == [cmd : Uploads, anim : Anims, n : 1 .. MaxFrames, page : Pages, pack : Nat]

(* The host is at a pack of a frame of its animation.                      *)
Sending == up # Nothing => up.page < up.n /\ up.pack \in Packs(up.cmd)

(* What is known of the packet being handled: the last one has set the     *)
(* length and ended the upload, any other has its successor come next.     *)
Handling ==
  /\ pc # "erase" => sectors = 0
  /\ pc # "idle" =>
       /\ pack \in Packet /\ pack.pack \in Packs(pack.cmd)
       /\ done[pack.cmd] = Nothing
  /\ pc # "idle" /\ pack.last =>
       /\ pack.pack = LastPack[pack.cmd[1]] /\ pack.page < MaxFrames
       /\ frame_num[pack.cmd] = FrameCount(pack.page)
       /\ up = Nothing
       /\ pc = "write" => saved[pack.cmd] = frame_num[pack.cmd]
  /\ pc # "idle" /\ ~pack.last =>
       /\ up \in Upload /\ up.cmd = pack.cmd /\ up.anim = pack.anim
       /\ \/ up.page = pack.page /\ up.pack = pack.pack + 1
          \/ up.page = pack.page + 1 /\ up.pack = 0 /\ pack.pack = LastPack[pack.cmd[1]]
  /\ pc = "save" => pack.last
  /\ pc = "erase" => ~pack.last /\ pack.page = 0 /\ pack.pack = 0
                     /\ sectors <= SectorsOf(pack.cmd[1])

(* The region of c holds the packs of a before (page, k) and nothing more. *)
Filled(c, a, page, k) ==
  \A p \in Pages, l \in Packs(c) :
    flash[Addr(c, p, l)] = IF p < page \/ (p = page /\ l < k) THEN {<<a, c, p, l>>} ELSE {}

(* Its first i sectors are erased.                                         *)
Erased(c, i) ==
  \A p \in Pages, l \in Packs(c) :
    Addr(c, p, l) < Start(c) + i * Sector => flash[Addr(c, p, l)] = {}

(* An upload under way has left exactly what it sent in its region.        *)
Progress ==
  /\ pc = "idle" /\ up # Nothing /\ ~(up.page = 0 /\ up.pack = 0) =>
       Filled(up.cmd, up.anim, up.page, up.pack) /\ done[up.cmd] = Nothing
  /\ pc \in {"save", "write"} => Filled(pack.cmd, pack.anim, pack.page, pack.pack)
  /\ pc = "erase" => Erased(pack.cmd, sectors)

StoreInv == TypeOK /\ Sending /\ Handling /\ Progress /\ Uploaded

LEMMA Bounds ==
  /\ MaxFrames \in 1 .. FrameMax /\ FrameMax \in Nat \ {0} /\ ModeMax \in Nat \ {0}
  /\ \A page \in Pages : FrameCount(page) \in Pages
  /\ \A page \in Pages, n \in Pages : Advance(page, n) \in Pages
  /\ \A c \in Cmds : 0 \in Packs(c) /\ LastPack[c[1]] \in Packs(c) /\ LastPack[c[1]] \in Nat \ {0}
  /\ Uploads \subseteq Cmds
<1>1. MaxFrames \in 1 .. FrameMax /\ FrameMax \in Nat \ {0} /\ ModeMax \in Nat \ {0} /\ Uploads \subseteq Cmds
  BY AnimStoreAssumption
<1>2. \A page \in Pages : (page + 1) % FrameMax \in Pages
  BY <1>1 DEF Pages
<1>3. \A c \in Cmds : c[1] \in Zones
  BY DEF Cmds
<1>4. \A z \in Zones : LastPack[z] \in Nat \ {0}
  BY RegionFacts
<1>5. 0 \in Pages
  BY <1>1 DEF Pages
<1> QED
  BY <1>1, <1>2, <1>3, <1>4, <1>5 DEF Packs, FrameCount, Advance

LEMMA StoreInit == Init => StoreInv
<1> SUFFICES ASSUME Init PROVE StoreInv
  OBVIOUS
<1>1. TypeOK
  <2>1. 0 \in Pages /\ 0 \in 0 .. ModeMax
    BY Bounds DEF Pages
  <2> QED
    BY <2>1 DEF Init, TypeOK, Pages
<1>2. Sending /\ Handling /\ Progress /\ Uploaded
  BY DEF Init, Sending, Handling, Progress, Uploaded
<1> QED
  BY <1>1, <1>2 DEF StoreInv

(* What leaves the flash, the packet and the upload alone keeps it all.    *)
LEMMA StorePlayers ==
  ASSUME StoreInv, UNCHANGED <<flashVars, mainVars, hostVars>>
  PROVE  Sending' /\ Handling' /\ Progress' /\ Uploaded'
<1>1. /\ flash' = flash /\ frame_num' = frame_num /\ saved' = saved
      /\ pc' = pc /\ pack' = pack /\ sectors' = sectors /\ up' = up /\ done' = done
  BY DEF flashVars, mainVars, hostVars
<1>2. Sending' = Sending /\ Handling' = Handling /\ Uploaded' = Uploaded
  BY <1>1 DEF Sending, Handling, Uploaded
<1>3. Progress' = Progress
  BY <1>1 DEF Progress, Filled, Erased
<1> QED
  BY <1>2, <1>3 DEF StoreInv

LEMMA StoreStart == StoreInv /\ StartUpload => StoreInv'
<1> SUFFICES ASSUME StoreInv, StartUpload PROVE StoreInv'
  OBVIOUS
<1> USE DEF StoreInv, StartUpload, flashVars, mainVars, ledVars
<1>1. PICK c \in Uploads, a \in Anims, n \in 1 .. MaxFrames :
        up' = [cmd |-> c, anim |-> a, n |-> n, page |-> 0, pack |-> 0]
  OBVIOUS
<1>2. up' \in Upload /\ up'.page = 0 /\ up'.pack = 0 /\ up'.cmd = c /\ up'.n = n /\ c \in Cmds
  BY <1>1, Bounds DEF Upload, Pages
<1>3. TypeOK'
  BY <1>2 DEF TypeOK, Upload, Pages
<1>4. Sending'
  BY <1>2, Bounds DEF Sending
<1>5. Handling'
  BY DEF Handling
<1>6. Progress'
  BY <1>2 DEF Progress
<1>7. Uploaded'
  BY DEF Uploaded
<1> QED
  BY <1>3, <1>4, <1>5, <1>6, <1>7

LEMMA StoreReceive == StoreInv /\ Receive => StoreInv'
<1> SUFFICES ASSUME StoreInv, Receive PROVE StoreInv'
  OBVIOUS
<1> USE DEF StoreInv
<1> DEFINE c == up.cmd
<1>1. /\ pc = "idle" /\ up # Nothing /\ up \in Upload /\ c \in Cmds
      /\ up.page < up.n /\ up.pack \in Packs(c) /\ up.page \in Pages /\ up.n \in 1 .. MaxFrames
      /\ sectors = 0
  BY Bounds DEF Receive, TypeOK, Upload, Pages, Sending, Handling
<1>2. /\ flash' = flash /\ saved' = saved /\ sectors' = sectors
      /\ play' = play /\ page_num' = page_num /\ at' = at /\ shown' = shown
      /\ done' = [done EXCEPT ![c] = Nothing] /\ up' = Following(up)
  BY DEF Receive
<1>3. /\ pack' = [cmd |-> c, page |-> up.page, anim |-> up.anim, last |-> IsLast(up),
                  pack |-> IF IsLast(up) THEN LastPack[c[1]] ELSE up.pack]
      /\ pc' = IF IsLast(up) THEN "save"
               ELSE IF up.page = 0 /\ up.pack = 0 THEN "erase" ELSE "write"
      /\ IF IsLast(up)
         THEN /\ frame_num' = [frame_num EXCEPT ![c] = FrameCount(up.page)]
              /\ settled' = [z \in Players |-> settled[z] /\ c # <<z, play[z]>>]
         ELSE UNCHANGED <<frame_num, settled>>
  BY DEF Receive
<1>4. LastPack[c[1]] \in Nat \ {0} /\ LastPack[c[1]] \in Packs(c) /\ 0 \in Packs(c)
  BY <1>1, Bounds
<1>5. IsLast(up) => up.pack = LastPack[c[1]] /\ up.page = up.n - 1
  BY DEF IsLast
<1>6. pack' \in Packet /\ pack'.cmd = c /\ pack'.page = up.page /\ pack'.pack = up.pack
      /\ pack'.anim = up.anim /\ (pack'.last <=> IsLast(up)) /\ pack'.last \in BOOLEAN
  BY <1>1, <1>3, <1>4, <1>5 DEF Packet, Upload, Pages, Packs, IsLast
<1>7. \/ IsLast(up) /\ up' = Nothing
      \/ /\ ~IsLast(up) /\ up' \in Upload /\ up'.cmd = c /\ up'.anim = up.anim
         /\ up'.page < up'.n /\ up'.pack \in Packs(c)
         /\ \/ up'.page = up.page /\ up'.pack = up.pack + 1
            \/ up'.page = up.page + 1 /\ up'.pack = 0 /\ up.pack = LastPack[c[1]]
  <2>1. CASE IsLast(up)
    BY <2>1, <1>2 DEF Following
  <2>2. CASE ~IsLast(up) /\ up.pack = LastPack[c[1]]
    <3>1. up' = [up EXCEPT !.page = @ + 1, !.pack = 0]
      BY <2>2, <1>2 DEF Following
    <3>2. up.page + 1 < up.n /\ up.page + 1 \in Pages
      BY <2>2, <1>1, Bounds DEF IsLast, Pages
    <3> QED
      BY <2>2, <3>1, <3>2, <1>1, <1>4 DEF Upload
  <2>3. CASE ~IsLast(up) /\ up.pack # LastPack[c[1]]
    <3>1. up' = [up EXCEPT !.pack = @ + 1]
      BY <2>3, <1>2 DEF Following
    <3>2. up.pack + 1 \in Packs(c) /\ up.pack + 1 \in Nat
      BY <2>3, <1>1, <1>4 DEF Packs
    <3> QED
      BY <2>3, <3>1, <3>2, <1>1 DEF Upload
  <2> QED
    BY <2>1, <2>2, <2>3
<1>8. FrameCount(up.page) \in Pages
  BY <1>1, Bounds
<1> HIDE DEF c
<1>9. TypeOK'
  <2>1. frame_num' \in [Cmds -> Pages] /\ settled' \in [Players -> BOOLEAN]
    <3>1. CASE IsLast(up)
      BY <3>1, <1>1, <1>3, <1>8 DEF TypeOK, Pages
    <3>2. CASE ~IsLast(up)
      BY <3>2, <1>3 DEF TypeOK, Pages
    <3> QED
      BY <3>1, <3>2
  <2>2. pack' \in Packet \cup {Nothing} /\ pc' \in {"idle", "save", "erase", "write"}
    BY <1>3, <1>6
  <2>3. up' \in Upload \cup {Nothing}
    BY <1>7
  <2>4. done' \in [Cmds -> [anim : Anims, n : 1 .. MaxFrames] \cup {Nothing}]
    BY <1>1, <1>2 DEF TypeOK
  <2> QED
    BY <2>1, <2>2, <2>3, <2>4, <1>2 DEF TypeOK, Pages, Upload
<1>10. Sending'
  BY <1>7 DEF Sending
<1>11. done'[c] = Nothing /\ \A d \in Cmds : d # c => done'[d] = done[d]
  BY <1>1, <1>2 DEF TypeOK
<1>12. Handling'
  <2>1. (pc # "erase" => sectors = 0)' /\ sectors' = 0
    BY <1>1, <1>2
  <2>2. pack' \in Packet /\ pack'.pack \in Packs(pack'.cmd) /\ done'[pack'.cmd] = Nothing
    BY <1>1, <1>6, <1>11
  <2>3. ASSUME pack'.last
        PROVE  /\ pack'.pack = LastPack[pack'.cmd[1]] /\ pack'.page < MaxFrames
               /\ frame_num'[pack'.cmd] = FrameCount(pack'.page)
               /\ up' = Nothing /\ pc' = "save"
    <3>1. IsLast(up)
      BY <2>3, <1>6
    <3>2. frame_num'[c] = FrameCount(up.page)
      BY <3>1, <1>1, <1>3 DEF TypeOK
    <3> QED
      BY <3>1, <3>2, <1>1, <1>3, <1>5, <1>6, <1>7, Bounds DEF Pages
  <2>4. ASSUME ~pack'.last
        PROVE  /\ up' \in Upload /\ up'.cmd = pack'.cmd /\ up'.anim = pack'.anim
               /\ \/ up'.page = pack'.page /\ up'.pack = pack'.pack + 1
                  \/ up'.page = pack'.page + 1 /\ up'.pack = 0 /\ pack'.pack = LastPack[pack'.cmd[1]]
               /\ pc' # "save"
               /\ pc' = "erase" => pack'.page = 0 /\ pack'.pack = 0
    BY <2>4, <1>3, <1>6, <1>7
  <2>5. 0 <= SectorsOf(pack'.cmd[1])
    BY <1>1, <1>6, RegionFacts DEF Cmds
  <2> HIDE DEF SectorsOf
  <2> QED
    BY <2>1, <2>2, <2>3, <2>4, <2>5 DEF Handling
<1>13. Progress'
  <2>1. pc' # "idle"
    BY <1>3
  <2>2. ASSUME pc' \in {"save", "write"}
        PROVE  Filled(pack.cmd, pack.anim, pack.page, pack.pack)'
    <3>1. ~(up.page = 0 /\ up.pack = 0)
      BY <2>2, <1>3, <1>4, <1>5
    <3>2. Filled(c, up.anim, up.page, up.pack)
      BY <3>1, <1>1 DEF Progress, c
    <3> QED
      BY <3>2, <1>2, <1>6 DEF Filled
  <2>3. ASSUME pc' = "erase"
        PROVE  Erased(pack.cmd, sectors)'
    <3>1. sectors' = 0 /\ pack'.cmd = c
      BY <1>1, <1>2, <1>6
    <3>2. \A p \in Pages, l \in Packs(c) : ~(Addr(c, p, l) < Start(c) + 0 * Sector)
      BY <1>1, AddrInside, RegionInFlash, AnimStoreAssumption
    <3> QED
      BY <3>1, <3>2 DEF Erased
  <2> QED
    BY <2>1, <2>2, <2>3 DEF Progress
<1>14. Uploaded'
  <2>1. \A d \in Cmds : d # c => frame_num'[d] = frame_num[d]
    <3>1. CASE IsLast(up)
      BY <3>1, <1>1, <1>3 DEF TypeOK
    <3>2. CASE ~IsLast(up)
      BY <3>2, <1>3
    <3> QED
      BY <3>1, <3>2
  <2> SUFFICES ASSUME NEW d \in Cmds, done'[d] # Nothing
               PROVE  /\ \A p \in 0 .. done'[d].n - 1, k \in Packs(d) :
                            flash'[Addr(d, p, k)] = {<<done'[d].anim, d, p, k>>}
                      /\ frame_num'[d] = done'[d].n % FrameMax
                      /\ saved'[d] = frame_num'[d]
    BY DEF Uploaded
  <2>2. d # c
    BY <1>11
  <2>3. done'[d] = done[d] /\ done[d] # Nothing
    BY <2>2, <1>11
  <2> QED
    BY <2>1, <2>2, <2>3, <1>2 DEF Uploaded
<1> QED
  BY <1>9, <1>10, <1>12, <1>13, <1>14

LEMMA StoreSave == StoreInv /\ Save => StoreInv'
<1> SUFFICES ASSUME StoreInv, Save PROVE StoreInv'
  OBVIOUS
<1> USE DEF StoreInv
<1>1. /\ pc = "save" /\ pc' = "write" /\ saved' = frame_num
      /\ flash' = flash /\ frame_num' = frame_num /\ pack' = pack /\ sectors' = sectors
      /\ up' = up /\ done' = done
      /\ play' = play /\ page_num' = page_num /\ at' = at /\ shown' = shown /\ settled' = settled
  BY DEF Save, hostVars, ledVars
<1>2. TypeOK'
  BY <1>1 DEF TypeOK
<1>3. Sending'
  BY <1>1 DEF Sending
<1>4. Handling'
  BY <1>1 DEF Handling
<1>5. Progress'
  BY <1>1 DEF Progress, Filled
<1>6. Uploaded'
  BY <1>1 DEF Uploaded
<1> QED
  BY <1>2, <1>3, <1>4, <1>5, <1>6

LEMMA StoreErase == StoreInv /\ EraseOne => StoreInv'
<1> SUFFICES ASSUME StoreInv, EraseOne PROVE StoreInv'
  OBVIOUS
<1> USE DEF StoreInv
<1> DEFINE c == pack.cmd
<1>1. /\ pc = "erase" /\ pack \in Packet /\ c \in Cmds /\ c[1] \in Zones /\ ~pack.last
      /\ pack.page = 0 /\ pack.pack = 0 /\ sectors <= SectorsOf(c[1]) /\ sectors \in Nat
      /\ done[c] = Nothing /\ Erased(c, sectors)
  BY DEF EraseOne, Handling, Progress, Packet, TypeOK, Cmds
<1>2. /\ frame_num' = frame_num /\ saved' = saved /\ pack' = pack /\ up' = up /\ done' = done
      /\ play' = play /\ page_num' = page_num /\ at' = at /\ shown' = shown /\ settled' = settled
  BY DEF EraseOne, hostVars, ledVars
<1>3. EraseSectors(c) = SectorsOf(c[1]) /\ SectorsOf(c[1]) \in Nat /\ Sector \in Nat \ {0}
  BY <1>1, RegionFacts, AnimStoreAssumption DEF EraseSectors, SectorsOf
<1>4. CASE sectors < SectorsOf(c[1])
  <2> DEFINE a == Addr(c, 0, 0) + sectors * Sector
  <2>1. /\ flash' = [x \in DOMAIN flash |-> IF x \div Sector = a \div Sector THEN {} ELSE flash[x]]
        /\ sectors' = sectors + 1 /\ pc' = pc
    BY <1>1, <1>3, <1>4 DEF EraseOne
  <2>2. DOMAIN flash = 0 .. FlashSize - 1
    BY DEF TypeOK
  <2>3. TypeOK'
    BY <1>1, <1>2, <2>1, <2>2 DEF TypeOK
  <2>4. Sending'
    BY <1>2 DEF Sending
  <2>5. Handling'
    <3> HIDE DEF SectorsOf
    <3> QED
      BY <1>1, <1>2, <1>3, <1>4, <2>1 DEF Handling
  <2>6. Erased(c, sectors)'
    <3> SUFFICES ASSUME NEW p \in Pages, NEW l \in Packs(c),
                        Addr(c, p, l) < Start(c) + (sectors + 1) * Sector
                 PROVE  flash'[Addr(c, p, l)] = {}
      BY <1>2, <2>1 DEF Erased
    <3>1. Addr(c, p, l) \in 0 .. FlashSize - 1 /\ Addr(c, p, l) \in Nat
      BY <1>1, AddrInside
    <3>2. CASE Addr(c, p, l) < Start(c) + sectors * Sector
      <4>1. flash[Addr(c, p, l)] = {}
        BY <1>1, <3>2 DEF Erased
      <4> QED
        BY <2>1, <2>2, <3>1, <4>1
    <3>3. CASE ~(Addr(c, p, l) < Start(c) + sectors * Sector)
      <4>1. Start(c) \in Nat /\ sectors * Sector \in Nat
        BY <1>1, <1>3, RegionInFlash
      <4>2. Start(c) + sectors * Sector <= Addr(c, p, l)
        BY <3>1, <3>3, <4>1
      <4>3. sectors \in 0 .. SectorsOf(c[1]) - 1
        BY <1>1, <1>3, <1>4
      <4>4. Addr(c, p, l) \div Sector = a \div Sector
        BY <1>1, <3>1, <4>2, <4>3, RoundHits
      <4> QED
        BY <2>1, <2>2, <3>1, <4>4
    <3> QED
      BY <3>2, <3>3
  <2>7. Progress'
    BY <1>1, <1>2, <2>1, <2>6 DEF Progress
  <2>8. Uploaded'
    <3> SUFFICES ASSUME NEW d \in Cmds, done[d] # Nothing
                 PROVE  /\ \A p \in 0 .. done[d].n - 1, k \in Packs(d) :
                              flash'[Addr(d, p, k)] = {<<done[d].anim, d, p, k>>}
                        /\ frame_num'[d] = done[d].n % FrameMax
                        /\ saved'[d] = frame_num'[d]
      BY <1>2 DEF Uploaded
    <3>1. d # c
      BY <1>1
    <3>2. done[d].n \in 1 .. MaxFrames
      BY DEF TypeOK
    <3>3. ASSUME NEW p \in 0 .. done[d].n - 1, NEW k \in Packs(d)
          PROVE  flash'[Addr(d, p, k)] = flash[Addr(d, p, k)]
      <4>1. p \in Pages
        BY <3>2, Bounds DEF Pages
      <4>2. Addr(d, p, k) \in 0 .. FlashSize - 1
        BY <4>1, AddrInside
      <4>3. sectors \in 0 .. SectorsOf(c[1]) - 1
        BY <1>1, <1>3, <1>4
      <4>4. Addr(d, p, k) \div Sector # a \div Sector
        BY <1>1, <3>1, <4>1, <4>3, RoundMisses
      <4> QED
        BY <2>1, <2>2, <4>2, <4>4
    <3> QED
      BY <3>3, <1>2 DEF Uploaded
  <2> QED
    BY <2>3, <2>4, <2>5, <2>7, <2>8
<1>5. CASE ~(sectors < SectorsOf(c[1]))
  <2>1. flash' = flash /\ sectors' = 0 /\ pc' = "write"
    BY <1>1, <1>3, <1>5 DEF EraseOne
  <2>2. sectors = SectorsOf(c[1])
    BY <1>1, <1>3, <1>5
  <2>3. TypeOK'
    BY <1>2, <2>1 DEF TypeOK
  <2>4. Sending'
    BY <1>2 DEF Sending
  <2>5. Handling'
    BY <1>1, <1>2, <2>1 DEF Handling
  <2>6. Filled(c, pack.anim, 0, 0)
    <3> SUFFICES ASSUME NEW p \in Pages, NEW l \in Packs(c)
                 PROVE  flash[Addr(c, p, l)] = {} /\ ~(p < 0 \/ (p = 0 /\ l < 0))
      BY DEF Filled
    <3>1. Addr(c, p, l) \in Start(c) .. Start(c) + RegionSize(c[1]) - 1
      BY <1>1, AddrInside
    <3>2. Start(c) \in Nat /\ RegionSize(c[1]) = sectors * Sector /\ RegionSize(c[1]) \in Nat
      BY <1>1, <2>2, RegionFacts, RegionInFlash
    <3>3. Addr(c, p, l) < Start(c) + sectors * Sector
      BY <3>1, <3>2
    <3>4. flash[Addr(c, p, l)] = {}
      BY <1>1, <3>3 DEF Erased
    <3>5. p \in Nat /\ l \in Nat
      BY <1>1, Bounds DEF Pages, Packs
    <3> QED
      BY <3>4, <3>5
  <2>7. Progress'
    <3>1. Filled(pack.cmd, pack.anim, pack.page, pack.pack)'
      BY <1>1, <1>2, <2>1, <2>6 DEF Filled
    <3> QED
      BY <2>1, <3>1 DEF Progress
  <2>8. Uploaded'
    BY <1>2, <2>1 DEF Uploaded
  <2> QED
    BY <2>3, <2>4, <2>5, <2>7, <2>8
<1> QED
  BY <1>4, <1>5

LEMMA StoreWrite == StoreInv /\ Write => StoreInv'
<1> SUFFICES ASSUME StoreInv, Write PROVE StoreInv'
  OBVIOUS
<1> USE DEF StoreInv
<1> DEFINE c == pack.cmd
           cell == <<pack.anim, c, pack.page, pack.pack>>
<1>1. /\ pc = "write" /\ pack \in Packet /\ c \in Cmds /\ pack.page \in Pages /\ pack.anim \in Anims
      /\ pack.pack \in Packs(c) /\ done[c] = Nothing /\ sectors = 0
      /\ Filled(c, pack.anim, pack.page, pack.pack)
  BY DEF Write, Handling, Progress, Packet, Pages
<1>2. /\ frame_num' = frame_num /\ saved' = saved /\ sectors' = sectors /\ up' = up
      /\ play' = play /\ page_num' = page_num /\ at' = at /\ shown' = shown /\ settled' = settled
      /\ pc' = "idle" /\ pack' = Nothing
      /\ flash' = [flash EXCEPT ![Addr(c, pack.page, pack.pack)] = @ \cup {cell}]
      /\ done' = IF pack.last THEN [done EXCEPT ![c] = [anim |-> pack.anim, n |-> pack.page + 1]]
                 ELSE done
  BY DEF Write, ledVars
<1>3. Addr(c, pack.page, pack.pack) \in 0 .. FlashSize - 1 /\ pack.pack \in 0 .. FlashSize
  BY <1>1, AddrInside
<1>4. flash'[Addr(c, pack.page, pack.pack)] = {cell}
  <2>1. ~(pack.page < pack.page) /\ ~(pack.pack < pack.pack)
    BY <1>1 DEF Pages, Packs
  <2>2. flash[Addr(c, pack.page, pack.pack)] = {}
    BY <1>1, <2>1 DEF Filled
  <2> QED
    BY <1>2, <1>3, <2>2 DEF TypeOK
<1>5. \A d \in Cmds, p \in Pages : \A l \in Packs(d) :
        d # c \/ p # pack.page \/ l # pack.pack => flash'[Addr(d, p, l)] = flash[Addr(d, p, l)]
  <2> TAKE d \in Cmds, p \in Pages
  <2> TAKE l \in Packs(d)
  <2> HAVE d # c \/ p # pack.page \/ l # pack.pack
  <2>1. Addr(d, p, l) # Addr(c, pack.page, pack.pack)
    BY <1>1, AddrApart
  <2>2. Addr(d, p, l) \in 0 .. FlashSize - 1
    BY AddrInside
  <2> QED
    BY <1>2, <2>1, <2>2 DEF TypeOK
<1> HIDE DEF c, cell
<1>6. TypeOK'
  <2>1. cell \in Cell
    BY <1>1, <1>3 DEF Cell, cell, Pages
  <2>2. flash' \in [0 .. FlashSize - 1 -> SUBSET Cell]
    BY <1>2, <1>3, <2>1 DEF TypeOK
  <2>3. done' \in [Cmds -> [anim : Anims, n : 1 .. MaxFrames] \cup {Nothing}]
    <3>1. CASE pack.last
      <4>1. pack.page + 1 \in 1 .. MaxFrames
        <5>1. pack.page < MaxFrames
          BY <1>1, <3>1 DEF Handling
        <5>2. pack.page \in Nat /\ MaxFrames \in Nat
          BY <1>1, Bounds DEF Pages
        <5> QED
          BY <5>1, <5>2
      <4> QED
        BY <1>1, <1>2, <3>1, <4>1 DEF TypeOK
    <3>2. CASE ~pack.last
      BY <1>2, <3>2 DEF TypeOK
    <3> QED
      BY <3>1, <3>2
  <2> QED
    BY <1>2, <2>2, <2>3 DEF TypeOK
<1>7. Sending'
  BY <1>2 DEF Sending
<1>8. Handling'
  BY <1>1, <1>2 DEF Handling
<1>9. Progress'
  <2> SUFFICES ASSUME up # Nothing, ~(up.page = 0 /\ up.pack = 0)
               PROVE  Filled(up.cmd, up.anim, up.page, up.pack)' /\ done'[up.cmd] = Nothing
    BY <1>2 DEF Progress
  <2>1. ~pack.last
    BY <1>1 DEF Handling
  <2>2. /\ up.cmd = c /\ up.anim = pack.anim
        /\ \/ up.page = pack.page /\ up.pack = pack.pack + 1
           \/ up.page = pack.page + 1 /\ up.pack = 0 /\ pack.pack = LastPack[c[1]]
    BY <1>1, <2>1 DEF Handling, c
  <2>3. \A p \in Pages, l \in Packs(c) :
          p < up.page \/ (p = up.page /\ l < up.pack)
            <=> p < pack.page \/ (p = pack.page /\ l < pack.pack) \/ (p = pack.page /\ l = pack.pack)
    <3> TAKE p \in Pages, l \in Packs(c)
    <3>1. p \in Nat /\ l \in 0 .. LastPack[c[1]] /\ pack.page \in Nat /\ pack.pack \in Nat
          /\ LastPack[c[1]] \in Nat
      BY <1>1, Bounds DEF Pages, Packs
    <3> QED
      BY <2>2, <3>1
  <2>4. \A p \in Pages, l \in Packs(c) :
          flash'[Addr(c, p, l)] = IF p < up.page \/ (p = up.page /\ l < up.pack)
                                 THEN {<<pack.anim, c, p, l>>} ELSE {}
    <3> TAKE p \in Pages, l \in Packs(c)
    <3>1. CASE p = pack.page /\ l = pack.pack
      BY <1>1, <1>4, <2>3, <3>1 DEF cell
    <3>2. CASE p # pack.page \/ l # pack.pack
      <4>1. flash'[Addr(c, p, l)] = flash[Addr(c, p, l)]
        BY <1>1, <1>5, <3>2
      <4>2. flash[Addr(c, p, l)] = IF p < pack.page \/ (p = pack.page /\ l < pack.pack)
                                  THEN {<<pack.anim, c, p, l>>} ELSE {}
        BY <1>1 DEF Filled
      <4> QED
        BY <2>3, <3>2, <4>1, <4>2
    <3> QED
      BY <3>1, <3>2
  <2> QED
    BY <1>1, <1>2, <2>1, <2>2, <2>4 DEF Filled
<1>10. Uploaded'
  <2> SUFFICES ASSUME NEW d \in Cmds, done'[d] # Nothing
               PROVE  /\ \A p \in 0 .. done'[d].n - 1, k \in Packs(d) :
                            flash'[Addr(d, p, k)] = {<<done'[d].anim, d, p, k>>}
                      /\ frame_num'[d] = done'[d].n % FrameMax
                      /\ saved'[d] = frame_num'[d]
    BY DEF Uploaded
  <2>1. CASE d # c
    <3>1. done'[d] = done[d] /\ done[d] # Nothing
      BY <1>2, <2>1 DEF TypeOK
    <3>2. done[d].n \in 1 .. MaxFrames
      BY <3>1 DEF TypeOK
    <3>3. \A p \in 0 .. done[d].n - 1 : p \in Pages
      BY <3>2, Bounds DEF Pages
    <3> QED
      BY <1>2, <1>5, <2>1, <3>1, <3>3 DEF Uploaded
  <2>2. CASE d = c
    <3>1. pack.last
      BY <1>1, <1>2, <2>2
    <3>2. done'[d] = [anim |-> pack.anim, n |-> pack.page + 1]
      BY <1>1, <1>2, <2>2, <3>1 DEF TypeOK
    <3>3. /\ pack.pack = LastPack[c[1]]
          /\ frame_num[c] = FrameCount(pack.page) /\ saved[c] = frame_num[c]
      BY <1>1, <3>1 DEF Handling, c
    <3>4. frame_num'[d] = done'[d].n % FrameMax /\ saved'[d] = frame_num'[d]
      BY <1>2, <2>2, <3>2, <3>3 DEF FrameCount
    <3>5. ASSUME NEW p \in 0 .. pack.page, NEW k \in Packs(c)
          PROVE  flash'[Addr(c, p, k)] = {<<pack.anim, c, p, k>>}
      <4>1. p \in Pages /\ p \in Nat /\ k \in 0 .. pack.pack
        <5>1. pack.page \in 0 .. FrameMax - 1 /\ FrameMax \in Nat
          BY <1>1, Bounds DEF Pages
        <5>2. k \in 0 .. pack.pack
          BY <3>3 DEF Packs
        <5> QED
          BY <5>1, <5>2 DEF Pages
      <4>2. CASE p = pack.page /\ k = pack.pack
        BY <1>4, <4>2 DEF cell
      <4>3. CASE ~(p = pack.page /\ k = pack.pack)
        <5>1. p < pack.page \/ (p = pack.page /\ k < pack.pack)
          BY <1>1, <4>1, <4>3 DEF Pages, Packs
        <5>2. flash[Addr(c, p, k)] = {<<pack.anim, c, p, k>>}
          BY <1>1, <4>1, <5>1 DEF Filled
        <5> QED
          BY <1>1, <1>5, <4>1, <4>3, <5>2
      <4> QED
        BY <4>2, <4>3
    <3>6. done'[d].anim = pack.anim /\ 0 .. done'[d].n - 1 = 0 .. pack.page
      <4>1. done'[d].anim = pack.anim /\ done'[d].n = pack.page + 1
        BY <3>2
      <4>2. pack.page \in Nat
        BY <1>1, Bounds DEF Pages
      <4> QED
        BY <4>1, <4>2
    <3>7. \A p \in 0 .. done'[d].n - 1, k \in Packs(d) :
            flash'[Addr(d, p, k)] = {<<done'[d].anim, d, p, k>>}
      BY <2>2, <3>5, <3>6
    <3> QED
      BY <3>4, <3>7
  <2> QED
    BY <2>1, <2>2
<1> QED
  BY <1>6, <1>7, <1>8, <1>9, <1>10

LEMMA StorePower == StoreInv /\ PowerCycle => StoreInv'
<1> SUFFICES ASSUME StoreInv, PowerCycle PROVE StoreInv'
  OBVIOUS
<1> USE DEF StoreInv
<1>1. /\ frame_num' = saved /\ pc' = "idle" /\ pack' = Nothing /\ sectors' = 0 /\ up' = Nothing
      /\ page_num' = [z \in Players |-> 0] /\ at' = [z \in Players |-> Nothing]
      /\ shown' = [z \in Zones |-> Nothing] /\ settled' = [z \in Players |-> TRUE]
      /\ flash' = flash /\ saved' = saved /\ done' = done
  BY DEF PowerCycle
<1>2. play' \in [Players -> 0 .. ModeMax] /\ 0 \in Pages
  <2>1. {0} \subseteq 0 .. ModeMax /\ 0 \in Pages
    BY Bounds DEF Pages
  <2>2. CASE Threads = {}
    BY <2>1, <2>2 DEF PowerCycle
  <2>3. CASE Threads # {}
    BY <2>1, <2>3 DEF PowerCycle
  <2> QED
    BY <2>2, <2>3
<1>3. TypeOK'
  BY <1>1, <1>2 DEF TypeOK, Pages
<1>4. Sending' /\ Handling' /\ Progress'
  BY <1>1 DEF Sending, Handling, Progress
<1>5. Uploaded'
  BY <1>1 DEF Uploaded
<1> QED
  BY <1>3, <1>4, <1>5

(* The threads and the mode keys move nothing but the players' state.      *)
LEMMA PlayersType ==
  ASSUME TypeOK,
         \/ \E z \in Players : StartFrame(z)
         \/ ReadSide
         \/ \E z \in Players : FinishFrame(z)
         \/ KeyMode
         \/ HeadMode
  PROVE  TypeOK' /\ UNCHANGED <<flashVars, mainVars, hostVars>>
<1> USE DEF flashVars, mainVars, hostVars
<1> DEFINE Frame == [zone : Zones, mode : Modes, page : Pages]
<1>1. "key" \in Players /\ "head" \in Players /\ Players \subseteq Zones /\ "side" \in Zones
  BY DEF Players, Zones
<1>2. \A m \in 0 .. ModeMax : Around(m) \subseteq 0 .. ModeMax
  BY Bounds DEF Around
<1>3. ASSUME NEW z \in Players, StartFrame(z) PROVE TypeOK' /\ UNCHANGED <<flashVars, mainVars, hostVars>>
  <2>1. play[z] \in Modes
    BY <1>3, Bounds DEF StartFrame, TypeOK, Modes
  <2>2. [zone |-> z, mode |-> play[z], page |-> page_num[z]] \in Frame
    BY <2>1, <1>1 DEF TypeOK, Pages
  <2>3. at' \in [Players -> Frame \cup {Nothing}]
    BY <1>3, <2>2 DEF StartFrame, TypeOK, Pages
  <2> QED
    BY <1>3, <2>3 DEF StartFrame, TypeOK, Pages
<1>4. ASSUME ReadSide PROVE TypeOK' /\ UNCHANGED <<flashVars, mainVars, hostVars>>
  <2>1. at["head"] \in Frame
    BY <1>1, <1>4 DEF ReadSide, TypeOK, Pages
  <2>2. [mode |-> at["head"].mode, page |-> at["head"].page] \in [mode : Modes, page : Pages]
    BY <2>1
  <2>3. shown' \in [Zones -> [mode : Modes, page : Pages] \cup {Nothing}]
    BY <1>1, <1>4, <2>1, <2>2 DEF ReadSide, ShowPage, TypeOK, Pages
  <2>4. page_num["head"] \in Pages
    BY <1>1 DEF TypeOK, Pages
  <2>5. at' = [at EXCEPT !["head"] = [at["head"] EXCEPT !.zone = "side", !.page = page_num["head"]]]
    BY <1>1, <1>4 DEF ReadSide, TypeOK
  <2>6. [at["head"] EXCEPT !.zone = "side", !.page = page_num["head"]] \in Frame
    BY <1>1, <2>1, <2>4
  <2>7. at' \in [Players -> Frame \cup {Nothing}]
    BY <1>1, <2>5, <2>6 DEF TypeOK, Pages
  <2> QED
    BY <1>4, <2>3, <2>7 DEF ReadSide, TypeOK, Pages
<1>5. ASSUME NEW z \in Players, FinishFrame(z) PROVE TypeOK' /\ UNCHANGED <<flashVars, mainVars, hostVars>>
  <2>1. at[z] \in Frame
    BY <1>5 DEF FinishFrame, TypeOK, Pages
  <2>2. [mode |-> at[z].mode, page |-> at[z].page] \in [mode : Modes, page : Pages]
    BY <2>1
  <2>3. shown' \in [Zones -> [mode : Modes, page : Pages] \cup {Nothing}]
    BY <1>5, <2>1, <2>2 DEF FinishFrame, ShowPage, TypeOK, Pages
  <2>4. <<z, at[z].mode>> \in Cmds
    BY <1>1, <2>1 DEF Cmds
  <2>5. Advance(page_num[z], frame_num[<<z, at[z].mode>>]) \in Pages
    BY <2>4, Bounds DEF TypeOK, Pages
  <2>6. page_num' \in [Players -> Pages]
    BY <1>5, <2>5 DEF FinishFrame, TypeOK, Pages
  <2>7. settled' \in [Players -> BOOLEAN] /\ at' \in [Players -> Frame \cup {Nothing}]
    BY <1>5 DEF FinishFrame, TypeOK, Pages
  <2> QED
    BY <1>5, <2>3, <2>6, <2>7 DEF FinishFrame, TypeOK, Pages
<1>6. ASSUME KeyMode PROVE TypeOK' /\ UNCHANGED <<flashVars, mainVars, hostVars>>
  <2>1. play' \in [Players -> 0 .. ModeMax]
    BY <1>1, <1>2, <1>6 DEF KeyMode, TypeOK
  <2> QED
    BY <1>6, <2>1 DEF KeyMode, TypeOK
<1>7. ASSUME HeadMode PROVE TypeOK' /\ UNCHANGED <<flashVars, mainVars, hostVars>>
  <2>1. play' \in [Players -> 0 .. ModeMax]
    BY <1>1, <1>2, <1>7 DEF HeadMode, TypeOK
  <2>2. page_num' \in [Players -> Pages]
    BY <1>7, Bounds DEF HeadMode, Pages
  <2>3. settled' \in [Players -> BOOLEAN]
    BY <1>7 DEF HeadMode
  <2> QED
    BY <1>7, <2>1, <2>2, <2>3 DEF HeadMode, TypeOK, Pages
<1> QED
  BY <1>3, <1>4, <1>5, <1>6, <1>7

LEMMA StoreStep == StoreInv /\ [Next]_vars => StoreInv'
<1> SUFFICES ASSUME StoreInv, [Next]_vars PROVE StoreInv'
  OBVIOUS
<1>1. CASE StartUpload
  BY <1>1, StoreStart
<1>2. CASE Receive
  BY <1>2, StoreReceive
<1>3. CASE Save
  BY <1>3, StoreSave
<1>4. CASE EraseOne
  BY <1>4, StoreErase
<1>5. CASE Write
  BY <1>5, StoreWrite
<1>6. CASE PowerCycle
  BY <1>6, StorePower
<1>7. CASE \/ \E z \in Players : StartFrame(z)
           \/ ReadSide
           \/ \E z \in Players : FinishFrame(z)
           \/ KeyMode
           \/ HeadMode
  <2>1. TypeOK' /\ UNCHANGED <<flashVars, mainVars, hostVars>>
    BY <1>7, PlayersType DEF StoreInv
  <2> QED
    BY <2>1, StorePlayers DEF StoreInv
<1>8. CASE UNCHANGED vars
  <2>1. TypeOK'
    BY <1>8 DEF StoreInv, TypeOK, vars, flashVars, mainVars, hostVars, ledVars
  <2>2. UNCHANGED <<flashVars, mainVars, hostVars>>
    BY <1>8 DEF vars
  <2> QED
    BY <2>1, <2>2, StorePlayers DEF StoreInv
<1> QED
  BY <1>1, <1>2, <1>3, <1>4, <1>5, <1>6, <1>7, <1>8 DEF Next

LEMMA StoreAlways == Spec => []StoreInv
BY StoreInit, StoreStep, PTL DEF Spec

(* The state of the store, its uploads and its players keeps its types: no *)
(* packet falls outside its region and no counter outside a byte           *)
(* (save_led_data, User_mode*_prase, Head_mode*_prase).                    *)
THEOREM TypeCorrect == Spec => []TypeOK
<1>1. StoreInv => TypeOK
  BY DEF StoreInv
<1> QED
  BY <1>1, StoreAlways, PTL

(* An upload that came to its end is in the flash and its length in force  *)
(* and saved, whatever is uploaded to other commands, abandoned or cut by  *)
(* a power failure, for any layout (save_led_data).                        *)
THEOREM UploadsLast == Spec => []Uploaded
<1>1. StoreInv => Uploaded
  BY DEF StoreInv
<1> QED
  BY <1>1, StoreAlways, PTL

----------------------------------------------------------------------------
(* The page counters.                                                      *)

LEMMA InRangeStep == TypeOK /\ InRange /\ [Next]_vars => InRange'
<1> SUFFICES ASSUME TypeOK, InRange, [Next]_vars, NEW z \in Players,
                    settled'[z], play'[z] # 0
             PROVE  \/ page_num'[z] = 0
                    \/ page_num'[z] < frame_num'[<<z, play'[z]>>]
  BY DEF InRange
<1>1. CASE /\ settled'[z] = settled[z] /\ play' = play /\ page_num'[z] = page_num[z]
           /\ frame_num' = frame_num
  BY <1>1 DEF InRange
<1>2. CASE StartUpload \/ Save \/ EraseOne \/ Write
  BY <1>1, <1>2 DEF StartUpload, Save, EraseOne, Write, ledVars, flashVars, mainVars, hostVars
<1>3. CASE Receive
  <2>1. CASE IsLast(up)
    <3>1. settled[z] /\ up.cmd # <<z, play[z]>>
      BY <1>3, <2>1 DEF Receive
    <3>2. play' = play /\ page_num' = page_num
          /\ frame_num' = [frame_num EXCEPT ![up.cmd] = FrameCount(up.page)]
      BY <1>3, <2>1 DEF Receive
    <3>3. frame_num'[<<z, play[z]>>] = frame_num[<<z, play[z]>>]
      BY <3>1, <3>2
    <3> QED
      BY <3>1, <3>2, <3>3 DEF InRange
  <2>2. CASE ~IsLast(up)
    BY <1>1, <1>3, <2>2 DEF Receive
  <2> QED
    BY <2>1, <2>2
<1>4. CASE \E y \in Players : StartFrame(y)
  BY <1>1, <1>4 DEF StartFrame, ledVars, flashVars, mainVars, hostVars
<1>5. CASE ReadSide
  BY <1>1, <1>5 DEF ReadSide, flashVars, mainVars, hostVars
<1>6. ASSUME NEW y \in Players, FinishFrame(y)
      PROVE  \/ page_num'[z] = 0
             \/ page_num'[z] < frame_num'[<<z, play'[z]>>]
  <2>1. CASE y # z
    BY <1>1, <1>6, <2>1 DEF FinishFrame, TypeOK, flashVars, mainVars, hostVars
  <2>2. CASE y = z
    <3>1. at[z].mode = play[z] /\ play' = play /\ frame_num' = frame_num
      BY <1>6, <2>2 DEF FinishFrame, TypeOK, flashVars
    <3>2. page_num'[z] = Advance(page_num[z], frame_num[<<z, play[z]>>])
      BY <1>6, <2>2, <3>1 DEF FinishFrame, TypeOK
    <3>3. <<z, play[z]>> \in Cmds /\ page_num[z] \in Pages
      <4>1. play[z] \in Modes /\ play[z] # 0
        <5>1. play[z] \in 0 .. ModeMax /\ play[z] # 0
          BY <3>1 DEF TypeOK
        <5> QED
          BY <5>1, Bounds DEF Modes
      <4>2. z \in Zones
        BY DEF Players, Zones
      <4> QED
        BY <4>1, <4>2 DEF TypeOK, Cmds, Pages
    <3>4. frame_num[<<z, play[z]>>] \in Int /\ (page_num[z] + 1) % FrameMax \in Int
      BY <3>3, Bounds DEF TypeOK, Pages
    <3> QED
      BY <3>1, <3>2, <3>4 DEF Advance
  <2> QED
    BY <2>1, <2>2
<1>7. CASE KeyMode
  <2>1. z # "key"
    BY <1>7 DEF KeyMode, TypeOK
  <2> QED
    BY <1>7, <2>1 DEF KeyMode, TypeOK, InRange, flashVars, mainVars, hostVars
<1>8. CASE HeadMode
  BY <1>8 DEF HeadMode
<1>9. CASE PowerCycle
  BY <1>9 DEF PowerCycle
<1>10. CASE UNCHANGED vars
  BY <1>1, <1>10 DEF vars, ledVars, flashVars
<1> QED
  BY <1>2, <1>3, <1>4, <1>5, <1>6, <1>7, <1>8, <1>9, <1>10 DEF Next

(* Once a frame has been finished in the current mode against its current  *)
(* length, the page counter stays on an uploaded frame, for any modes,     *)
(* lengths and orders of keys, frames and uploads.                         *)
THEOREM CountersInRange == Spec => []InRange
<1>1. Init => InRange
  BY DEF Init, InRange
<1>2. StoreInv => TypeOK
  BY DEF StoreInv
<1> QED
  BY <1>1, <1>2, InRangeStep, StoreAlways, PTL DEF Spec
=============================================================================
