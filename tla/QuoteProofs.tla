----------------------------- MODULE QuoteProofs -----------------------------
(***************************************************************************)
(* For every tick, offset and order book: prices are whole ticks but for   *)
(* the last bits of a float64, and limited ones meet the other side of the *)
(* book only by those.                                                     *)
(***************************************************************************)
EXTENDS QuoteProps, TLAPS

USE TickAssumption, ErrAssumption, OffsetAssumption, LimitAssumption

-----------------------------------------------------------------------------
(* Lemmas *)

\* A factor that is positive can be cancelled.
LEMMA Cancel ==
    ASSUME NEW i \in Int, NEW j \in Int, NEW m \in Nat \ {0}, i * m < j * m
    PROVE  i < j
<1> SUFFICES ASSUME j <= i PROVE FALSE
  OBVIOUS
<1>1. PICK e \in Nat : i = j + e
  <2>1. i - j \in Nat /\ i = j + (i - j)
    OBVIOUS
  <2> QED
    BY <2>1
<1>2. i * m = j * m + e * m /\ e * m \in Nat /\ j * m \in Int
  BY <1>1
<1> QED
  BY <1>2

\* Cutting to whole ticks (order.go:196, 210) yields a whole number of ticks but for
\* the last bits, no higher than the price was, and less than two ticks lower.
LEMMA Cut ==
    ASSUME NEW n \in Int, NEW d \in Nat \ {0}, NEW i \in Int, NEW k \in Int,
           i * (d * Tick) <= n, n <= k * (d * Tick),
           NEW p \in Aligned(n, d)
    PROVE  \E j \in (i - 1)..k : p \in LastBits(j * Tick)
<1> DEFINE m == d * Tick
           q == n \div m
<1>1. m \in Nat \ {0}
  OBVIOUS
<1>2. q \in Int /\ q * m <= n /\ n < (q + 1) * m
  BY <1>1
<1>3. p \in LastBits(q * Tick) \/ p \in LastBits((q - 1) * Tick)
  BY DEF Aligned
<1>4. i * m <= n /\ n <= k * m
  OBVIOUS
<1> HIDE DEF q, m
<1>5. i < q + 1
  <2>1. i * m < (q + 1) * m
    BY <1>1, <1>2, <1>4
  <2> QED
    BY <1>1, <1>2, <2>1, Cancel
<1>6. q < k + 1
  <2>1. (k + 1) * m = k * m + m /\ k * m \in Int
    BY <1>1
  <2>2. q * m < (k + 1) * m
    BY <1>1, <1>2, <1>4, <2>1
  <2> QED
    BY <1>1, <1>2, <2>2, Cancel
<1>7. q \in (i - 1)..k /\ q - 1 \in (i - 1)..k
  BY <1>2, <1>5, <1>6
<1> QED
  BY <1>3, <1>7

\* Bid and ask are whole numbers of ticks, the ask the higher one.
LEMMA BookTicks ==
    ASSUME NEW b \in Books
    PROVE  \E i, k \in 2..MaxTicks : i < k /\ b.bid = i * Tick /\ b.ask = k * Tick
<1>1. PICK i \in 2..MaxTicks : b.bid = i * Tick
  BY DEF Books
<1>2. PICK k \in 2..MaxTicks : b.ask = k * Tick
  BY DEF Books
<1>3. i * Tick < k * Tick
  BY <1>1, <1>2 DEF Books
<1>4. i < k
  BY <1>3, BoundAssumption, Cancel
<1> QED
  BY <1>1, <1>2, <1>4

\* A price between bid and ask, to be cut.
Between(n, b) == n \in Int /\ b.bid * OffsetDen <= n /\ n <= b.ask * OffsetDen

LEMMA CutInBook ==
    ASSUME NEW b \in Books, NEW n, Between(n, b), NEW p \in Aligned(n, OffsetDen),
           NEW i \in 2..MaxTicks, NEW k \in 2..MaxTicks,
           b.bid = i * Tick, b.ask = k * Tick
    PROVE  \E j \in (i - 1)..k : p \in LastBits(j * Tick)
<1>1. b.bid * OffsetDen = i * (OffsetDen * Tick) /\ b.ask * OffsetDen = k * (OffsetDen * Tick)
  BY BoundAssumption
<1>2. n \in Int /\ i * (OffsetDen * Tick) <= n /\ n <= k * (OffsetDen * Tick)
  BY <1>1 DEF Between
<1> QED
  BY <1>2, BoundAssumption, Cut

\* The offset moves a price from one side of the book towards the other.
LEMMA OffsetStaysBetween ==
    ASSUME NEW b \in Books, offset \in Offsets
    PROVE  /\ Between(b.ask * OffsetDen - Spread(b) * offset, b)
           /\ Between(b.bid * OffsetDen + Spread(b) * offset, b)
<1>1. b.bid \in Int /\ b.ask \in Int /\ b.ask - b.bid \in Nat
  <2>1. PICK i, k \in 2..MaxTicks : i < k /\ b.bid = i * Tick /\ b.ask = k * Tick
    BY BookTicks
  <2>2. i * Tick \in Int /\ k * Tick \in Int
    BY BoundAssumption
  <2>3. b.bid < b.ask
    BY DEF Books
  <2> QED
    BY <2>1, <2>2, <2>3
<1>2. offset \in Nat /\ OffsetDen - offset \in Nat /\ OffsetDen \in Nat
  OBVIOUS
<1> DEFINE s == Spread(b)
<1>3. s \in Nat /\ b.ask = b.bid + s
  BY <1>1 DEF Spread
<1>4. b.ask * OffsetDen = b.bid * OffsetDen + s * OffsetDen /\ b.bid * OffsetDen \in Int
  BY <1>1, <1>2, <1>3
<1>5. s * offset \in Nat /\ s * (OffsetDen - offset) \in Nat
  BY <1>2, <1>3
<1>6. s * OffsetDen = s * offset + s * (OffsetDen - offset)
  BY <1>2, <1>3
<1> QED
  BY <1>4, <1>5, <1>6 DEF Between

-----------------------------------------------------------------------------
(* Prices *)

\* The price of a limited order keeps a tick away from the other side of the book,
\* or lies beyond that side by its last bits.
SellKeepsOff(p, b) == p >= b.bid + Tick - Err \/ p \in (b.bid + 1)..(b.bid + Err)
BuyKeepsOff(p, b) == p <= b.ask - Tick + Err \/ p \in (b.ask - Err)..(b.ask - 1)

\* A sell price is a whole number of ticks and not above the ask; a limited one
\* keeps off the bid.
LEMMA SellInside ==
    ASSUME NEW b \in Books, offset \in Offsets, NEW p \in getOrderPrice("sell", b)
    PROVE  /\ \E j \in 1..MaxTicks : p \in LastBits(j * Tick)
           /\ p <= b.ask + Err /\ b.ask \in Int
           /\ Limit => SellKeepsOff(p, b)
<1> DEFINE n == b.ask * OffsetDen - Spread(b) * offset
<1>1. PICK q \in Aligned(n, OffsetDen) :
           p \in SellLimited(b, q)
  BY DEF getOrderPrice
<1>2. PICK i, k \in 2..MaxTicks : i < k /\ b.bid = i * Tick /\ b.ask = k * Tick
  BY BookTicks
<1>3. PICK j \in (i - 1)..k : q \in LastBits(j * Tick)
  <2>1. Between(n, b)
    BY OffsetStaysBetween
  <2> HIDE DEF n
  <2> QED
    BY <1>1, <1>2, <2>1, CutInBook
<1>4. i \in Int /\ j \in 1..MaxTicks /\ i + 1 \in 1..MaxTicks
  BY <1>2, <1>3, BoundAssumption
<1>5. /\ (i + 1) * Tick = b.bid + Tick
      /\ q <= b.ask + Err /\ b.bid + Tick <= b.ask
      /\ j <= i \/ q >= b.bid + Tick - Err
      /\ j <= i => q <= b.bid + Err
      /\ b.bid \in Int /\ b.ask \in Int /\ q \in Int
  <2>1. \A x, y \in Int : x <= y => x * Tick <= y * Tick
    BY Cancel
  <2>2. j * Tick <= k * Tick /\ (i + 1) * Tick <= k * Tick
    BY <1>2, <1>3, <1>4, <2>1
  <2>3. (i + 1) * Tick = i * Tick + Tick /\ i * Tick \in Int /\ j * Tick \in Int
    BY <1>4
  <2>4. j <= i => j * Tick <= i * Tick
    BY <1>4, <2>1
  <2>5. j > i => j * Tick >= (i + 1) * Tick
    BY <1>4, <2>1
  <2>6. q \in Int /\ q <= j * Tick + Err /\ q >= j * Tick - Err
    BY <1>3, <2>3 DEF LastBits
  <2> QED
    BY <1>2, <1>4, <2>2, <2>3, <2>4, <2>5, <2>6
<1>6. CASE Limit /\ q <= b.bid
  <2>1. p \in LastBits((i + 1) * Tick)
    BY <1>1, <1>5, <1>6 DEF SellLimited
  <2>2. p <= b.ask + Err /\ SellKeepsOff(p, b)
    BY <1>5, <2>1 DEF LastBits, SellKeepsOff
  <2> QED
    BY <1>4, <1>5, <2>1, <2>2
<1>7. CASE ~(Limit /\ q <= b.bid)
  <2>1. p = q
    BY <1>1, <1>7 DEF SellLimited
  <2>2. Limit => SellKeepsOff(p, b)
    BY <1>5, <1>7, <2>1 DEF SellKeepsOff
  <2> QED
    BY <1>3, <1>4, <1>5, <2>1, <2>2
<1> QED
  BY <1>6, <1>7

\* A buy price is a whole number of ticks and at most a tick below the bid; a
\* limited one keeps off the ask.
LEMMA BuyInside ==
    ASSUME NEW b \in Books, offset \in Offsets, NEW p \in getOrderPrice("buy", b)
    PROVE  /\ \E j \in 1..MaxTicks : p \in LastBits(j * Tick)
           /\ b.bid - p <= Tick + Err /\ b.bid \in Int
           /\ Limit => BuyKeepsOff(p, b)
<1> DEFINE n == b.bid * OffsetDen + Spread(b) * offset
<1>1. PICK q \in Aligned(n, OffsetDen) :
           p \in BuyLimited(b, q)
  BY DEF getOrderPrice
<1>2. PICK i, k \in 2..MaxTicks : i < k /\ b.bid = i * Tick /\ b.ask = k * Tick
  BY BookTicks
<1>3. PICK j \in (i - 1)..k : q \in LastBits(j * Tick)
  <2>1. Between(n, b)
    BY OffsetStaysBetween
  <2> HIDE DEF n
  <2> QED
    BY <1>1, <1>2, <2>1, CutInBook
<1>4. j \in 1..MaxTicks /\ k \in Int /\ k - 1 \in 1..MaxTicks
  BY <1>2, <1>3, BoundAssumption
<1>5. /\ (k - 1) * Tick = b.ask - Tick
      /\ b.bid - Tick - Err <= q /\ b.bid <= b.ask - Tick
      /\ j >= k \/ q <= b.ask - Tick + Err
      /\ j >= k => q >= b.ask - Err
      /\ b.bid \in Int /\ b.ask \in Int /\ q \in Int
  <2>1. \A x, y \in Int : x <= y => x * Tick <= y * Tick
    BY Cancel
  <2>2. i \in Int
    BY <1>2
  <2>3. (i - 1) * Tick <= j * Tick /\ i * Tick <= (k - 1) * Tick
    BY <1>2, <1>3, <1>4, <2>1, <2>2
  <2>4. /\ (i - 1) * Tick = i * Tick - Tick /\ (k - 1) * Tick = k * Tick - Tick
        /\ i * Tick \in Int /\ j * Tick \in Int /\ k * Tick \in Int
    BY <1>4, <2>2
  <2>5. j >= k => j * Tick >= k * Tick
    BY <1>4, <2>1
  <2>6. j < k => j * Tick <= (k - 1) * Tick
    BY <1>4, <2>1
  <2>7. q \in Int /\ q <= j * Tick + Err /\ q >= j * Tick - Err
    BY <1>3, <2>4 DEF LastBits
  <2> QED
    BY <1>2, <1>4, <2>3, <2>4, <2>5, <2>6, <2>7
<1>6. CASE Limit /\ q >= b.ask
  <2>1. p \in LastBits((k - 1) * Tick)
    BY <1>1, <1>5, <1>6 DEF BuyLimited
  <2>2. b.bid - p <= Tick + Err /\ BuyKeepsOff(p, b)
    BY <1>5, <2>1 DEF LastBits, BuyKeepsOff
  <2> QED
    BY <1>4, <1>5, <2>1, <2>2
<1>7. CASE ~(Limit /\ q >= b.ask)
  <2>1. p = q
    BY <1>1, <1>7 DEF BuyLimited
  <2>2. Limit => BuyKeepsOff(p, b)
    BY <1>5, <1>7, <2>1 DEF BuyKeepsOff
  <2> QED
    BY <1>3, <1>4, <1>5, <2>1, <2>2
<1> QED
  BY <1>6, <1>7

\* What an order is sent with.
LEMMA SentPrice ==
    ASSUME TypeOK, PlaceOrder
    PROVE  /\ \E j \in 1..MaxTicks : price' \in LastBits(j * Tick)
           /\ Limit => IF side = "sell" THEN SellKeepsOff(price', book)
                                        ELSE BuyKeepsOff(price', book)
           /\ IF side = "sell" THEN price' <= book.ask + Err
                               ELSE book.bid - price' <= Tick + Err
           /\ book.bid \in Int /\ book.ask \in Int
<1>1. price' \in getOrderPrice(side, book)
  BY DEF PlaceOrder
<1>2. book.bid \in Int /\ book.ask \in Int
  <2>1. PICK i, k \in 2..MaxTicks : book.bid = i * Tick /\ book.ask = k * Tick
    BY BookTicks DEF TypeOK
  <2> QED
    BY <2>1, BoundAssumption
<1>3. CASE side = "sell"
  BY <1>1, <1>2, <1>3, SellInside DEF TypeOK
<1>4. CASE side = "buy"
  BY <1>1, <1>2, <1>4, BuyInside DEF TypeOK
<1> QED
  BY <1>3, <1>4 DEF TypeOK

-----------------------------------------------------------------------------
(* Theorems *)

\* Whatever the tick, the offset, the order book and the last bits floating point
\* gets wrong: every price is a whole number of ticks but for those bits
\* (order.go:196, 198-203, 210-216).
THEOREM WholeTicks == Spec => []TypeOK
<1>1. Init => TypeOK
  BY DEF Init, TypeOK
<1>2. TypeOK /\ [Next]_vars => TypeOK'
  <2> SUFFICES ASSUME TypeOK, [Next]_vars PROVE TypeOK'
    OBVIOUS
  <2>1. CASE PlaceOrder
    <3>1. \E j \in 1..MaxTicks : price' \in LastBits(j * Tick)
      BY <2>1, SentPrice
    <3> QED
      BY <2>1, <3>1 DEF TypeOK, PlaceOrder
  <2>2. CASE OnOrderBook \/ UNCHANGED vars
    BY <2>2 DEF TypeOK, OnOrderBook, vars, LastBits
  <2> QED
    BY <2>1, <2>2 DEF Next
<1> QED
  BY <1>1, <1>2, PTL DEF Spec

\* Whatever the tick, the offset and the order book: a limited order keeps a tick
\* away from the other side of the book it is priced with (order.go:198-203,
\* 211-216), but for a price that floating point puts beyond that side by its last
\* bits, and no other.
THEOREM LimitedNeverTakes == Spec => NeverTakes
<1>1. TypeOK /\ [Next]_vars =>
        [Limit /\ Priced =>
            IF side = "sell"
            THEN /\ \/ price' >= book.bid + Tick - Err
                    \/ price' \in (book.bid + 1)..(book.bid + Err)
                 /\ price' <= book.ask + Err
            ELSE \/ price' <= book.ask - Tick + Err
                 \/ price' \in (book.ask - Err)..(book.ask - 1)]_vars
  <2> SUFFICES ASSUME TypeOK, Next, Limit, Priced
               PROVE  IF side = "sell"
                      THEN SellKeepsOff(price', book) /\ price' <= book.ask + Err
                      ELSE BuyKeepsOff(price', book)
    BY DEF Priced, vars, SellKeepsOff, BuyKeepsOff
  <2>1. PlaceOrder
    BY DEF Next, OnOrderBook, Priced
  <2> QED
    BY <2>1, SentPrice
<1> QED
  BY <1>1, WholeTicks, PTL DEF Spec, NeverTakes

\* Whatever the tick, the offset and the order book: when the deviation that is
\* tolerated comes to a tick and the last bits, a fresh price is not given up for the
\* book it was made for (order.go:345, 355).
THEOREM FreshStays == Spec => NoChurn
<1>1. TypeOK /\ [Next]_vars =>
        [Priced /\ price' * DevNum >= (Tick + Err) * DevDen =>
             ~NeedCancel(side, book, price')]_vars
  <2> SUFFICES ASSUME TypeOK, Next, Priced, price' * DevNum >= (Tick + Err) * DevDen
               PROVE  ~NeedCancel(side, book, price')
    BY DEF Priced, vars
  <2>1. PlaceOrder
    BY DEF Next, OnOrderBook, Priced
  <2>2. PICK j \in 1..MaxTicks : price' \in LastBits(j * Tick)
    BY <2>1, SentPrice
  <2> DEFINE most == Tick + Err
  <2>3. /\ price' \in Int /\ price' * DevNum \in Int
        /\ most \in Int /\ most * DevDen \in Int
    <3>1. j * Tick \in Int
      BY BoundAssumption
    <3>2. price' \in Int
      BY <2>2, <3>1 DEF LastBits
    <3> QED
      BY <3>2, DevAssumption
  <2>4. \A x \in Int : x <= most => x * DevDen <= most * DevDen
    BY <2>3, DevAssumption, Cancel
  <2>5. CASE side = "sell"
    <3>1. price' - book.ask \in Int /\ price' - book.ask <= most
      BY <2>1, <2>3, <2>5, SentPrice
    <3> HIDE DEF most
    <3>2. (price' - book.ask) * DevDen <= most * DevDen /\ (price' - book.ask) * DevDen \in Int
      BY <2>4, <3>1, DevAssumption
    <3> QED
      BY <2>3, <2>5, <3>2 DEF NeedCancel, most
  <2>6. CASE side # "sell"
    <3>1. book.bid - price' \in Int /\ book.bid - price' <= most
      BY <2>1, <2>3, <2>6, SentPrice
    <3> HIDE DEF most
    <3>2. (book.bid - price') * DevDen <= most * DevDen /\ (book.bid - price') * DevDen \in Int
      BY <2>4, <3>1, DevAssumption
    <3> QED
      BY <2>3, <2>6, <3>2 DEF NeedCancel, most
  <2> QED
    BY <2>5, <2>6
<1> QED
  BY <1>1, WholeTicks, PTL DEF Spec, NoChurn
=============================================================================
