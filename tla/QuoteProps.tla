----------------------------- MODULE QuoteProps -----------------------------
(* What the pricing of core/order.go must guarantee. *)
EXTENDS Quote

\* Every price that is sent is a whole number of ticks but for its last bits, as
\* the exchange demands, also after the limits of order.go:198-203 and 211-216.
TypeOK ==
    /\ side \in {"buy", "sell"} /\ book \in Books /\ offset \in Offsets
    /\ \/ price = NoPrice
       \/ \E k \in 1..MaxTicks : price \in LastBits(k * Tick)

Priced == price' # price

\* "Prevents taking, stays between ask and bid" (order.go:199, 212): a limited
\* order keeps a tick away from the other side of the book it was priced with, but
\* for the price that floating point puts beyond that side by its last bits, which
\* the limits let pass: that order is at the other side's price, and takes.  A sell
\* order is not above the best ask either.
NeverTakes ==
    [][Limit /\ Priced =>
          IF side = "sell"
          THEN /\ \/ price' >= book.bid + Tick - Err
                  \/ price' \in (book.bid + 1)..(book.bid + Err)
               /\ price' <= book.ask + Err
          ELSE \/ price' <= book.ask - Tick + Err
               \/ price' \in (book.ask - Err)..(book.ask - 1)]_vars

\* A new price does not need to be given up for the very book it was made for
\* (order.go:345, 355), which would cancel and replace orders for ever, if the
\* deviation that is tolerated comes to a tick and the last bits at least.
NoChurn ==
    [][Priced /\ price' * DevNum >= (Tick + Err) * DevDen =>
          ~NeedCancel(side, book, price')]_vars
=============================================================================
