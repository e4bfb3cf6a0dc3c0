------------------------------- MODULE Quote -------------------------------
(***************************************************************************)
(* How an order is priced (core/order.go, getOrderPrice) and when the      *)
(* market has moved too far away from it (the test of the repricing loop   *)
(* in onOrderBook).  One order is followed through changes of the order    *)
(* book.  Prices are integers; those of the exchange are multiples of      *)
(* Tick.  The two ratios of the configuration are fractions, so the price  *)
(* is computed exactly, except for the two steps where floating point errs *)
(* and a comparison can tell: the cut to whole ticks may lose one tick of  *)
(* a price that is a whole number of ticks already (0.3 / 0.1 is less than *)
(* 3), and what is made of whole ticks again need not be the number the    *)
(* exchange names (3 * 0.1 is more than 0.3): it is up to Err away.        *)
(***************************************************************************)
EXTENDS Integers

CONSTANTS
    Tick,           \* Instrument.TickSz
    Err,            \* what the last bits of a price are worth at most
    Offsets,        \* PendingPriceOffset is one of these, divided by OffsetDen
    OffsetDen,
    Limit,          \* OrderPriceOffsetLimit
    DevNum,         \* TapePriceDeviation is DevNum / DevDen
    DevDen,
    MaxTicks        \* bound: the highest price, in ticks

ASSUME TickAssumption   == Tick \in Nat \ {0}
ASSUME ErrAssumption    == Err \in Nat /\ 2 * Err < Tick
ASSUME OffsetAssumption == Offsets \subseteq 0..OffsetDen /\ OffsetDen \in Nat \ {0}
ASSUME DevAssumption    == DevNum \in Nat /\ DevDen \in Nat \ {0}
ASSUME LimitAssumption  == Limit \in BOOLEAN
ASSUME BoundAssumption  == MaxTicks \in Nat

Books == {b \in [bid : {k * Tick : k \in 2..MaxTicks}, ask : {k * Tick : k \in 2..MaxTicks}] :
             b.bid < b.ask}

NoPrice == 0

VARIABLES
    side,           \* slice.BuySell
    book,           \* uly.book
    price,          \* slice.Price, and PlaceOrder.Px
    offset          \* task.PendingPriceOffset, times OffsetDen

vars == <<side, book, price, offset>>

\* What a float64 that should be p may be.
LastBits(p) == (p - Err)..(p + Err)

Unaligned(n, d) == {n \div d}

\* float64(int64(p / TickSz)) * TickSz for p = n / d
Aligned(n, d) ==
    LET whole == n \div (d * Tick)
    IN  UNION {LastBits(k * Tick) : k \in IF n % (d * Tick) = 0 THEN {whole - 1, whole}
                                                               ELSE {whole}}

SellUnlimited(b, p) == {p}

\* A limited sell price stays above the bid, ...
SellLimited(b, p) == IF Limit /\ p <= b.bid THEN LastBits(b.bid + Tick) ELSE {p}

BuyAtAsk(b, p) == IF Limit /\ p > b.ask THEN LastBits(b.ask - Tick) ELSE {p}

\* ... a limited buy price below the ask.
BuyLimited(b, p) == IF Limit /\ p >= b.ask THEN LastBits(b.ask - Tick) ELSE {p}

Spread(b) == b.ask - b.bid

\* The prices it may come to.
getOrderPrice(s, b) ==
    IF s = "sell"
    THEN UNION {SellLimited(b, p) : p \in Aligned(b.ask * OffsetDen - Spread(b) * offset, OffsetDen)}
    ELSE UNION {BuyLimited(b, p)  : p \in Aligned(b.bid * OffsetDen + Spread(b) * offset, OffsetDen)}

NeedCancelSwapped(s, b, p) ==
    (IF s = "sell" THEN p - b.bid ELSE b.ask - p) * DevDen > p * DevNum

\* The book has moved away from the order: down from a sell, up from a buy.
NeedCancel(s, b, p) ==
    (IF s = "sell" THEN p - b.ask ELSE b.bid - p) * DevDen > p * DevNum

OnOrderBook ==
    /\ book' \in Books
    /\ UNCHANGED <<side, price, offset>>

\* The first order, or one that replaces an order that needs to be cancelled.
PlaceOrder ==
    /\ price = NoPrice \/ NeedCancel(side, book, price)
    /\ price' \in getOrderPrice(side, book)
    /\ UNCHANGED <<side, book, offset>>

Init ==
    /\ side \in {"buy", "sell"} /\ book \in Books
    /\ price = NoPrice /\ offset \in Offsets

Next == OnOrderBook \/ PlaceOrder

Spec == Init /\ [][Next]_vars
=============================================================================
