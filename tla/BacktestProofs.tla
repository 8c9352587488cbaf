--------------------------- MODULE BacktestProofs ----------------------------
(***************************************************************************)
(* The two books of a backtest, for any strikes, quotes, signals, calendar *)
(* and bounds: the paper broker's ledger, kept by trading symbol, and the  *)
(* position book, kept by instrument, whatever expiries pass between the   *)
(* opening of a position and its closing.                                  *)
(*                                                                         *)
(* Dates is a finite calendar.  The theorems are of the behaviours that    *)
(* stay inside it: []CalendarLasts.                                        *)
(***************************************************************************)
EXTENDS Backtest, Sums

(* The simulated day is a trading day of the calendar, which knows the     *)
(* expiry that follows.                                                    *)
CalendarLasts ==
    /\ day \in Dates /\ ~IsTradingHoliday(day)
    /\ \E d \in Dates : d >= day /\ IsExpiryDay(d)
-----------------------------------------------------------------------------
(* The least of a set of dates, and the greatest.                          *)
LEMMA LeastDate ==
    ASSUME NEW D \in SUBSET Dates, D # {}
    PROVE  Min(D) \in D /\ \A d \in D : Min(D) <= d
<1>1. D \subseteq Nat /\ D # {}
  BY CalendarAssumption
<1>2. \E x \in D : \A d \in D : x <= d
  BY <1>1, Least
<1> QED BY <1>2 DEF Min

(* The greatest of a set of dates is the last of its listing.              *)
LEMMA GreatestDate ==
    ASSUME NEW D \in SUBSET Dates, D # {}
    PROVE  Max(D) \in D /\ \A d \in D : Max(D) >= d
<1>1. IsFiniteSet(D) /\ D \subseteq Nat
  BY CalendarAssumption, FS_Subset
<1>2. PICK x \in D : \A d \in D : d <= x
  BY <1>1, Greatest
<1>3. \A d \in D : x >= d
  <2>1. \A d \in D : x \in Nat /\ d \in Nat
    BY <1>1
  <2> QED BY <1>2, <2>1
<1> QED BY <1>3 DEF Max

(* The next expiry is a date of the calendar, not before the day.          *)
LEMMA ExpiryAfterDay ==
    ASSUME CalendarLasts
    PROVE  NextExpiry(day) \in Dates /\ day <= NextExpiry(day)
<1> DEFINE D == {d \in Dates : d >= day /\ IsExpiryDay(d)}
           found == Min(D)
<1>1. D \in SUBSET Dates /\ D # {}
  BY DEF CalendarLasts
<1>2. found \in D
  <2> HIDE DEF D
  <2> QED BY <1>1, LeastDate
<1>3. found \in Dates /\ found >= day /\ found \in Nat /\ day \in Nat
  BY <1>2, CalendarAssumption DEF CalendarLasts
<1>4. NextExpiry(day) = IF IsTradingHoliday(found) THEN PreviousTradingDay(found) ELSE found
  BY DEF NextExpiry
<1>5. CASE IsTradingHoliday(found)
  <2> DEFINE E == {d \in Dates : d < found /\ ~IsTradingHoliday(d)}
  <2>1. found # day
    BY <1>5 DEF CalendarLasts
  <2>2. day \in E /\ E \in SUBSET Dates
    <3> HIDE DEF found
    <3> QED BY <1>3, <2>1 DEF CalendarLasts
  <2>3. PreviousTradingDay(found) = Max(E)
    BY DEF PreviousTradingDay
  <2> HIDE DEF E, found
  <2>4. Max(E) \in E /\ Max(E) >= day
    BY <2>2, GreatestDate
  <2>5. Max(E) \in Dates /\ Max(E) \in Nat
    BY <2>2, <2>4, CalendarAssumption
  <2> QED BY <1>3, <1>4, <1>5, <2>3, <2>4, <2>5
<1>6. CASE ~IsTradingHoliday(found)
  <2> HIDE DEF found
  <2> QED BY <1>3, <1>4, <1>6
<1> QED BY <1>5, <1>6

(* The month of a symbol is that of a date of the calendar, never the 0    *)
(* that marks a symbol not known.                                          *)
LEMMA MonthOfExpiry ==
    ASSUME CalendarLasts, expiry = NextExpiry(day)
    PROVE  expiry \in Dates /\ MonthOf[expiry] \in Nat \ {0}
<1>1. expiry \in Dates
  BY ExpiryAfterDay
<1> QED BY <1>1, CalendarAssumption
-----------------------------------------------------------------------------
(* Every open position and every entry of the ledger is a record with a    *)
(* whole quantity, a month is noted of the open positions and no others,   *)
(* and what is left of a signal are orders of listed symbols.              *)
IsPosition(pos) ==
    /\ pos = [qty |-> pos.qty, avg |-> pos.avg, pnl |-> pos.pnl, ltp |-> pos.ltp]
    /\ pos.qty \in Int \ {0}

IsEntry(pos) ==
    /\ pos = [qty |-> pos.qty, avg |-> pos.avg, pnl |-> pos.pnl]
    /\ pos.qty \in Int

ShapeInv ==
    /\ DOMAIN positions \subseteq Book!Keys
    /\ \A k \in DOMAIN positions : IsPosition(positions[k])
    /\ DOMAIN ledger = Symbols
    /\ \A s \in Symbols : IsEntry(ledger[s])
    /\ DOMAIN started = Tokens
    /\ \A tok \in Tokens :
           IF Key(tok) \in DOMAIN positions
           THEN started[tok] # 0 /\ SymbolOf(started[tok], tok) \in Symbols
           ELSE started[tok] = 0
    /\ legs \in Seq(Orders)
    /\ \A n \in 1..Len(legs) : legs[n].symbol[2] = legs[n].tok
    /\ expiry = NextExpiry(day)

(* A symbol is a pair of a month and a strike.                             *)
LEMMA SymbolPairs ==
    /\ \A s \in Symbols : s = <<s[1], s[2]>> /\ s[1] # 0 /\ s[2] \in Tokens
    /\ \A tok \in Tokens, d \in Dates : SymbolOf(MonthOf[d], tok) \in Symbols
BY BacktestAssumption, CalendarAssumption DEF SymbolOf

(* The symbols of a strike are finitely many.                              *)
LEMMA SymbolsOfStrike ==
    ASSUME NEW tok
    PROVE  IsFiniteSet({s \in Symbols : s[2] = tok})
<1> DEFINE f == [d \in Dates |-> <<MonthOf[d], tok>>]
           T == {<<MonthOf[d], tok>> : d \in Dates}
           U == {s \in Symbols : s[2] = tok}
<1>1. f \in Surjection(Dates, T)
  BY DEF Surjection
<1>2. IsFiniteSet(T)
  <2> HIDE DEF f, T
  <2> QED BY <1>1, FS_Surjection, CalendarAssumption
<1>3. U \subseteq T
  BY BacktestAssumption DEF SymbolOf
<1>4. IsFiniteSet(U)
  <2> HIDE DEF T, U
  <2> QED BY <1>2, <1>3, FS_Subset
<1> QED BY <1>4

(* A fill moves an entry of the ledger, and a position of the book, by its *)
(* signed quantity.                                                        *)
LEMMA EntryMoves ==
    ASSUME NEW pos, IsEntry(pos), NEW delta \in Int, NEW price
    PROVE  /\ IsEntry(UpdatePosition(pos, delta, price))
           /\ UpdatePosition(pos, delta, price).qty = pos.qty + delta
<1> DEFINE new == UpdatePosition(pos, delta, price)
<1>1. PICK q, a, p : pos = [qty |-> q, avg |-> a, pnl |-> p] /\ q \in Int
  BY DEF IsEntry
<1>2. \E b, r : new = [qty |-> q + delta, avg |-> b, pnl |-> r]
  <2>1. CASE pos.qty = 0
    <3>1. new = [qty |-> delta, avg |-> price, pnl |-> p]
      BY <1>1, <2>1 DEF UpdatePosition, Opened
    <3>2. q + delta = delta
      BY <1>1, <2>1
    <3> QED BY <3>1, <3>2
  <2>2. CASE pos.qty # 0 /\ (pos.qty > 0 <=> delta > 0)
    <3>1. new = Added(delta, price, pos)
      BY <2>2 DEF UpdatePosition
    <3> DEFINE value == (Magnitude(pos.qty) * pos.avg + Magnitude(delta) * price)
                            \div Magnitude(pos.qty + delta)
    <3>2. new = [pos EXCEPT !.qty = @ + delta, !.avg = value]
      BY <3>1 DEF Added
    <3> HIDE DEF value, new
    <3>3. new = [qty |-> q + delta, avg |-> value, pnl |-> p]
      BY <1>1, <3>2
    <3> QED BY <3>3
  <2>3. CASE pos.qty # 0 /\ ~(pos.qty > 0 <=> delta > 0)
    <3>1. new = Reduced(delta, price, pos)
      BY <2>3 DEF UpdatePosition
    <3>2. pos.qty + delta = q + delta
      BY <1>1
    <3> QED BY <3>1, <3>2, Zenon DEF Reduced
  <2> QED BY <2>1, <2>2, <2>3
<1> HIDE DEF new
<1>3. PICK b, r : new = [qty |-> q + delta, avg |-> b, pnl |-> r]
  BY <1>2
<1>4. q + delta \in Int /\ pos.qty = q
  BY <1>1
<1> QED BY <1>3, <1>4 DEF IsEntry, new

Net(k) == IF k \in DOMAIN positions THEN positions[k].qty ELSE 0

(* The book's net quantity of a key is read off its positions.             *)
LEMMA NetIs ==
    ASSUME ShapeInv, NEW k
    PROVE  Book!NetQuantity(k) = Net(k) /\ Net(k) \in Int
BY DEF ShapeInv, IsPosition, Net, Book!NetQuantity, Book!Held, Book!NewPosition

(* What a fill does to the book, seen from its net quantities: that of its *)
(* key moves by the signed quantity, the key is open unless it comes to    *)
(* zero, and nothing else changes.                                         *)
LEMMA BookMoves ==
    ASSUME ShapeInv, NEW k \in Book!Keys, NEW side, NEW qty, NEW price,
           Book!SignedQty(side, qty) \in Int, Book!UpdateFromFill(k, side, qty, price)
    PROVE  /\ DOMAIN positions' \subseteq Book!Keys
           /\ \A x \in DOMAIN positions' : IsPosition(positions'[x])
           /\ Net(k)' = Net(k) + Book!SignedQty(side, qty)
           /\ \A x \in Book!Keys \ {k} :
                  /\ x \in DOMAIN positions' <=> x \in DOMAIN positions
                  /\ Net(x)' = Net(x)
           /\ k \in DOMAIN positions' <=> Net(k) + Book!SignedQty(side, qty) # 0
<1> DEFINE delta == Book!SignedQty(side, qty)
           pos == Book!Filled(Book!Held(k), delta, price)
<1>1. Book!Held(k).qty = Net(k) /\ Net(k) \in Int
  BY NetIs DEF Book!NetQuantity
<1>2. /\ pos = [qty |-> pos.qty, avg |-> pos.avg, pnl |-> pos.pnl, ltp |-> pos.ltp]
      /\ pos.qty = Net(k) + delta
  <2>1. pos = [qty |-> Book!Held(k).qty + delta,
               avg |-> Book!Average(Book!Held(k), delta, price),
               pnl |-> Book!Held(k).pnl + Book!Realized(Book!Held(k), delta, price),
               ltp |-> Book!Held(k).ltp]
    BY Zenon DEF Book!Filled
  <2> HIDE DEF pos, delta
  <2> QED BY <1>1, <2>1
<1>3. /\ DOMAIN positions \subseteq Book!Keys
      /\ \A x \in DOMAIN positions : IsPosition(positions[x])
  BY DEF ShapeInv
<1>4. CASE pos.qty = 0
  <2>1. positions' = [x \in DOMAIN positions \ {k} |-> positions[x]]
    BY <1>4, Zenon DEF Book!UpdateFromFill
  <2> HIDE DEF pos, delta
  <2>2. DOMAIN positions' = DOMAIN positions \ {k}
    BY <2>1
  <2>3. \A x \in DOMAIN positions' : positions'[x] = positions[x]
    BY <2>1
  <2>4. Net(k)' = 0 /\ \A x \in Book!Keys \ {k} : Net(x)' = Net(x)
    BY <2>2, <2>3 DEF Net
  <2>5. /\ DOMAIN positions' \subseteq Book!Keys
        /\ \A x \in DOMAIN positions' : IsPosition(positions'[x])
    BY <1>3, <2>2, <2>3, Zenon
  <2>6. k \notin DOMAIN positions' /\ Net(k) + delta = 0
    BY <1>2, <1>4, <2>2
  <2> QED BY <2>2, <2>4, <2>5, <2>6 DEF delta
<1>5. CASE pos.qty # 0
  <2>1. positions' = [x \in DOMAIN positions \cup {k} |-> IF x = k THEN pos ELSE positions[x]]
    BY <1>5, Zenon DEF Book!UpdateFromFill
  <2>2. pos.qty \in Int \ {0}
    BY <1>1, <1>2, <1>5
  <2> HIDE DEF pos, delta
  <2>3. DOMAIN positions' = DOMAIN positions \cup {k}
    BY <2>1
  <2>4. positions'[k] = pos /\ \A x \in DOMAIN positions : x # k => positions'[x] = positions[x]
    BY <2>1
  <2>5. Net(k)' = pos.qty /\ \A x \in Book!Keys \ {k} : Net(x)' = Net(x)
    BY <2>3, <2>4 DEF Net
  <2>6. IsPosition(pos)
    BY <1>2, <2>2 DEF IsPosition
  <2>7. /\ DOMAIN positions' \subseteq Book!Keys
        /\ \A x \in DOMAIN positions' : IsPosition(positions'[x])
    BY <1>3, <2>3, <2>4, <2>6, Zenon
  <2> QED BY <1>2, <1>5, <2>3, <2>5, <2>7 DEF delta
<1> QED BY <1>4, <1>5

(* A minute marks the positions; it moves no quantity.                     *)
LEMMA MinuteMoves ==
    ASSUME ShapeInv, NEW market, NEW signal, NEW kept, Minute(market, signal, kept)
    PROVE  /\ DOMAIN positions' = DOMAIN positions
           /\ \A k \in DOMAIN positions :
                  IsPosition(positions'[k]) /\ positions'[k].qty = positions[k].qty
           /\ UNCHANGED <<ledger, closed, started, mixed, day, expiry>>
<1>1. UNCHANGED <<ledger, closed, started, mixed, day, expiry>>
  BY DEF Minute, pastVars
<1>2. positions' = [k \in DOMAIN positions |->
                       IF feed'[k[2]] = 0 THEN positions[k]
                       ELSE [positions[k] EXCEPT !.ltp = feed'[k[2]]]]
  BY DEF Minute
<1>3. ASSUME NEW k \in DOMAIN positions
      PROVE  IsPosition(positions'[k]) /\ positions'[k].qty = positions[k].qty
  <2>1. PICK q, a, p, l : positions[k] = [qty |-> q, avg |-> a, pnl |-> p, ltp |-> l]
                          /\ q \in Int \ {0}
    BY DEF ShapeInv, IsPosition
  <2>2. PICK f : f = feed'[k[2]]
    OBVIOUS
  <2>3. \E m : positions'[k] = [qty |-> q, avg |-> a, pnl |-> p, ltp |-> m]
    <3>1. positions'[k] = IF f = 0 THEN positions[k] ELSE [positions[k] EXCEPT !.ltp = f]
      BY <1>2, <2>2
    <3>2. CASE f = 0
      BY <2>1, <3>1, <3>2
    <3>3. CASE f # 0
      <4>1. positions'[k] = [qty |-> q, avg |-> a, pnl |-> p, ltp |-> f]
        BY <2>1, <3>1, <3>3
      <4> QED BY <4>1
    <3> QED BY <3>2, <3>3
  <2>4. PICK m : positions'[k] = [qty |-> q, avg |-> a, pnl |-> p, ltp |-> m]
    BY <2>3
  <2> QED BY <2>1, <2>4 DEF IsPosition
<1>4. DOMAIN positions' = DOMAIN positions
  BY <1>2
<1> QED BY <1>1, <1>3, <1>4

(* The legs of a signal become orders of listed symbols.                   *)
LEMMA MinuteOrders ==
    ASSUME ShapeInv, CalendarLasts, NEW market, NEW signal \in Signals, NEW kept,
           Minute(market, signal, kept)
    PROVE  legs' \in Seq(Orders) /\ \A n \in 1..Len(legs') : legs'[n].symbol[2] = legs'[n].tok
<1>1. signal \in Seq(SignalLegs)
  BY BacktestAssumption
<1>2. DOMAIN signal = 1..Len(signal) /\ Len(signal) \in Nat
      /\ \A n \in 1..Len(signal) : signal[n] \in SignalLegs
  BY <1>1
<1>3. ASSUME NEW tok \in Tokens, NEW leg, leg.tok = tok
      PROVE  LegSymbol(leg, kept) \in Symbols /\ LegSymbol(leg, kept)[2] = tok
  <2>1. SymbolOf(MonthOf[expiry], tok) \in Symbols
    BY MonthOfExpiry, SymbolPairs DEF ShapeInv
  <2>2. Key(tok) \in DOMAIN positions => SymbolOf(started[tok], tok) \in Symbols
    BY DEF ShapeInv
  <2>3. \A m : SymbolOf(m, tok)[2] = tok
    BY DEF SymbolOf
  <2> QED BY <1>3, <2>1, <2>2, <2>3 DEF LegSymbol
<1> DEFINE Order(n) == [side |-> signal[n].side, qty |-> signal[n].qty,
                        tok |-> signal[n].tok, symbol |-> LegSymbol(signal[n], kept)]
<1>4. legs' = [n \in 1..Len(signal) |-> Order(n)]
  BY <1>2, Zenon DEF Minute
<1>5. ASSUME NEW n \in 1..Len(signal)
      PROVE  Order(n) \in Orders /\ Order(n).symbol[2] = Order(n).tok
  <2>1. /\ signal[n].side \in {"BUY", "SELL"} /\ signal[n].qty \in Qtys
        /\ signal[n].tok \in Tokens
    BY <1>2 DEF SignalLegs
  <2>2. LegSymbol(signal[n], kept) \in Symbols /\ LegSymbol(signal[n], kept)[2] = signal[n].tok
    BY <1>3, <2>1
  <2> QED BY <2>1, <2>2 DEF Orders
<1> HIDE DEF Order
<1>6. legs' \in Seq(Orders) /\ Len(legs') = Len(signal)
  BY <1>2, <1>4, <1>5
<1> QED BY <1>4, <1>5, <1>6

(* What one order does to the two books.                                   *)
LEMMA ExecuteMoves ==
    ASSUME ShapeInv, ExecuteLeg, NEW leg, leg = Head(legs)
    PROVE  /\ leg \in Orders /\ leg.symbol[2] = leg.tok /\ leg.tok \in Tokens
           /\ leg.symbol \in Symbols /\ Signed(leg.side, leg.qty) \in Int \ {0}
           /\ legs' = Tail(legs) /\ legs # <<>> /\ UNCHANGED <<day, expiry>>
           /\ DOMAIN ledger' = Symbols
           /\ IsEntry(ledger'[leg.symbol])
           /\ ledger'[leg.symbol].qty = ledger[leg.symbol].qty + Signed(leg.side, leg.qty)
           /\ \A s \in Symbols \ {leg.symbol} : ledger'[s] = ledger[s]
           /\ DOMAIN positions' \subseteq Book!Keys
           /\ \A x \in DOMAIN positions' : IsPosition(positions'[x])
           /\ Net(Key(leg.tok))' = Net(Key(leg.tok)) + Signed(leg.side, leg.qty)
           /\ \A x \in Book!Keys \ {Key(leg.tok)} :
                  /\ x \in DOMAIN positions' <=> x \in DOMAIN positions
                  /\ Net(x)' = Net(x)
           /\ Key(leg.tok) \in DOMAIN positions'
                  <=> Net(Key(leg.tok)) + Signed(leg.side, leg.qty) # 0
           /\ started' = [started EXCEPT ![leg.tok] =
                             IF Key(leg.tok) \notin DOMAIN positions' THEN 0
                             ELSE IF started[leg.tok] = 0 THEN leg.symbol[1]
                             ELSE started[leg.tok]]
           /\ mixed' = mixed \cup {tok \in {leg.tok} : Key(tok) \in DOMAIN positions
                                                       /\ started[tok] # leg.symbol[1]}
<1> DEFINE delta == Signed(leg.side, leg.qty)
           price == SimulateFill(feed[leg.tok], leg.side)
<1>1. legs # <<>> /\ legs \in Seq(Orders) /\ legs' = Tail(legs) /\ UNCHANGED <<day, expiry>>
  BY DEF ExecuteLeg, ShapeInv
<1>2. leg = legs[1] /\ 1 \in 1..Len(legs)
  BY <1>1
<1>3. leg \in Orders /\ leg.symbol[2] = leg.tok
  BY <1>1, <1>2 DEF ShapeInv
<1>4. /\ leg.tok \in Tokens /\ leg.symbol \in Symbols /\ leg.side \in {"BUY", "SELL"}
      /\ leg.qty \in Nat \ {0}
  BY <1>3, BacktestAssumption DEF Orders
<1>5. delta \in Int \ {0} /\ Book!SignedQty(leg.side, leg.qty) = delta
  BY <1>4 DEF Signed, Book!SignedQty
<1>6. /\ PlaceOrder(leg.symbol, leg.side, leg.qty, price)
      /\ Book!OnOrderFilled(Key(leg.tok), leg.side, leg.qty, price)
      /\ RecordLeg(leg, price)
      /\ started' = [started EXCEPT ![leg.tok] =
                             IF Key(leg.tok) \notin DOMAIN positions' THEN 0
                             ELSE IF started[leg.tok] = 0 THEN leg.symbol[1]
                             ELSE started[leg.tok]]
  BY Zenon DEF ExecuteLeg
<1>7. Key(leg.tok) \in Book!Keys
  BY <1>4 DEF Key, Book!Keys
<1>8. Book!UpdateFromFill(Key(leg.tok), leg.side, leg.qty, price)
  BY <1>6, Zenon DEF Book!OnOrderFilled
<1> HIDE DEF price, delta
<1>9. /\ DOMAIN positions' \subseteq Book!Keys
      /\ \A x \in DOMAIN positions' : IsPosition(positions'[x])
      /\ Net(Key(leg.tok))' = Net(Key(leg.tok)) + delta
      /\ \A x \in Book!Keys \ {Key(leg.tok)} :
             /\ x \in DOMAIN positions' <=> x \in DOMAIN positions
             /\ Net(x)' = Net(x)
      /\ Key(leg.tok) \in DOMAIN positions' <=> Net(Key(leg.tok)) + delta # 0
  <2>1. PICK k \in Book!Keys : k = Key(leg.tok)
    BY <1>7
  <2>2. Book!SignedQty(leg.side, leg.qty) \in Int
    BY <1>5
  <2>3. Book!UpdateFromFill(k, leg.side, leg.qty, price)
    BY <1>8, <2>1
  <2>4. /\ DOMAIN positions' \subseteq Book!Keys
        /\ \A x \in DOMAIN positions' : IsPosition(positions'[x])
        /\ Net(k)' = Net(k) + Book!SignedQty(leg.side, leg.qty)
        /\ \A x \in Book!Keys \ {k} :
               /\ x \in DOMAIN positions' <=> x \in DOMAIN positions
               /\ Net(x)' = Net(x)
        /\ k \in DOMAIN positions' <=> Net(k) + Book!SignedQty(leg.side, leg.qty) # 0
    BY <2>2, <2>3, BookMoves
  <2>5. Net(k)' = Net(Key(leg.tok))'
    BY <2>1 DEF Net
  <2> QED BY <1>5, <2>1, <2>4, <2>5
<1>10. /\ DOMAIN ledger' = Symbols
       /\ IsEntry(ledger'[leg.symbol])
       /\ ledger'[leg.symbol].qty = ledger[leg.symbol].qty + delta
       /\ \A s \in Symbols \ {leg.symbol} : ledger'[s] = ledger[s]
  <2> DEFINE fill == FillPrice(leg.symbol, leg.side, price)
             new == UpdatePosition(ledger[leg.symbol], delta, fill)
  <2>1. ledger' = [ledger EXCEPT ![leg.symbol] = new]
    BY <1>6, Zenon DEF PlaceOrder, delta
  <2>2. DOMAIN ledger = Symbols /\ IsEntry(ledger[leg.symbol])
    BY <1>4 DEF ShapeInv
  <2>3. IsEntry(new) /\ new.qty = ledger[leg.symbol].qty + delta
    <3> HIDE DEF fill
    <3>1. PICK pos : pos = ledger[leg.symbol]
      OBVIOUS
    <3>2. IsEntry(pos) /\ delta \in Int
      BY <1>5, <2>2, <3>1
    <3>3. /\ IsEntry(UpdatePosition(pos, delta, fill))
          /\ UpdatePosition(pos, delta, fill).qty = pos.qty + delta
      BY <3>2, EntryMoves
    <3> QED BY <3>1, <3>3
  <2> HIDE DEF new
  <2>4. DOMAIN ledger' = Symbols /\ ledger'[leg.symbol] = new
        /\ \A s \in Symbols \ {leg.symbol} : ledger'[s] = ledger[s]
    BY <1>4, <2>1, <2>2
  <2> QED BY <2>3, <2>4, Zenon
<1>11. mixed' = mixed \cup {tok \in {leg.tok} : Key(tok) \in DOMAIN positions
                                              /\ started[tok] # leg.symbol[1]}
  BY <1>6, Zenon DEF RecordLeg
<1>12. Signed(leg.side, leg.qty) = delta
  BY DEF delta
<1> QED BY <1>1, <1>3, <1>4, <1>5, <1>6, <1>9, <1>10, <1>11, <1>12
-----------------------------------------------------------------------------
(* Both books are empty at the start, and of the right shape.              *)
LEMMA ShapeInit == Init => ShapeInv
<1> SUFFICES ASSUME Init PROVE ShapeInv
  OBVIOUS
<1>1. /\ DOMAIN positions = {} /\ ledger = [s \in Symbols |-> Flat]
      /\ started = [tok \in Tokens |-> 0] /\ legs = <<>> /\ expiry = NextExpiry(day)
  BY DEF Init, Book!Init, PaperInit
<1>2. IsEntry(Flat)
  BY DEF IsEntry, Flat
<1> QED BY <1>1, <1>2 DEF ShapeInv

(* Every step keeps the shape of the paper ledger and of the book.         *)
LEMMA ShapeStep ==
    ASSUME ShapeInv, CalendarLasts, CalendarLasts', [Next]_vars
    PROVE  ShapeInv'
<1> DEFINE Noted(tok) == IF Key(tok) \in DOMAIN positions
                         THEN started[tok] # 0 /\ SymbolOf(started[tok], tok) \in Symbols
                         ELSE started[tok] = 0
<1>1. ASSUME NEW market \in Markets, NEW signal \in Signals, NEW kept \in BOOLEAN,
             Minute(market, signal, kept)
      PROVE  ShapeInv'
  <2>1. /\ DOMAIN positions' = DOMAIN positions
        /\ \A k \in DOMAIN positions : IsPosition(positions'[k])
        /\ UNCHANGED <<ledger, started, day, expiry>>
    BY <1>1, MinuteMoves
  <2>2. legs' \in Seq(Orders) /\ \A n \in 1..Len(legs') : legs'[n].symbol[2] = legs'[n].tok
    BY <1>1, MinuteOrders
  <2> QED BY <2>1, <2>2 DEF ShapeInv
<1>2. CASE SkipLeg
  <2>1. UNCHANGED <<positions, ledger, started, day, expiry>> /\ legs' = Tail(legs) /\ legs # <<>>
    BY <1>2 DEF SkipLeg, bookVars, paperVars
  <2>2. legs' \in Seq(Orders) /\ \A n \in 1..Len(legs') : legs'[n].symbol[2] = legs'[n].tok
    <3>1. /\ Tail(legs) \in Seq(Orders) /\ Len(Tail(legs)) = Len(legs) - 1 /\ Len(legs) \in Nat
          /\ \A n \in 1..Len(Tail(legs)) : Tail(legs)[n] = legs[n + 1]
      BY <2>1 DEF ShapeInv
    <3> QED BY <2>1, <3>1 DEF ShapeInv
  <2> QED BY <2>1, <2>2 DEF ShapeInv
<1>3. CASE ExecuteLeg
  <2>1. PICK leg : leg = Head(legs)
    OBVIOUS
  <2> DEFINE delta == Signed(leg.side, leg.qty)
  <2>2. /\ leg.symbol[2] = leg.tok /\ leg.tok \in Tokens /\ leg.symbol \in Symbols
        /\ legs' = Tail(legs) /\ legs # <<>> /\ UNCHANGED <<day, expiry>>
        /\ DOMAIN ledger' = Symbols
        /\ IsEntry(ledger'[leg.symbol])
        /\ \A s \in Symbols \ {leg.symbol} : ledger'[s] = ledger[s]
        /\ DOMAIN positions' \subseteq Book!Keys
        /\ \A x \in DOMAIN positions' : IsPosition(positions'[x])
        /\ \A x \in Book!Keys \ {Key(leg.tok)} :
                  x \in DOMAIN positions' <=> x \in DOMAIN positions
        /\ started' = [started EXCEPT ![leg.tok] =
                             IF Key(leg.tok) \notin DOMAIN positions' THEN 0
                             ELSE IF started[leg.tok] = 0 THEN leg.symbol[1]
                             ELSE started[leg.tok]]
    BY <1>3, <2>1, ExecuteMoves
  <2>3. legs' \in Seq(Orders) /\ \A n \in 1..Len(legs') : legs'[n].symbol[2] = legs'[n].tok
    <3>1. /\ Tail(legs) \in Seq(Orders) /\ Len(Tail(legs)) = Len(legs) - 1 /\ Len(legs) \in Nat
          /\ \A n \in 1..Len(Tail(legs)) : Tail(legs)[n] = legs[n + 1]
      BY <2>2 DEF ShapeInv
    <3> QED BY <2>2, <3>1 DEF ShapeInv
  <2>4. \A s \in Symbols : IsEntry(ledger'[s])
    BY <2>2 DEF ShapeInv
  <2>5. leg.symbol = SymbolOf(leg.symbol[1], leg.tok) /\ leg.symbol[1] # 0
    BY <2>2, SymbolPairs DEF SymbolOf
  <2>6. DOMAIN started' = Tokens
    BY <2>2 DEF ShapeInv
  <2>7. ASSUME NEW tok \in Tokens
        PROVE  IF Key(tok) \in DOMAIN positions'
               THEN started'[tok] # 0 /\ SymbolOf(started'[tok], tok) \in Symbols
               ELSE started'[tok] = 0
    <3>1. Noted(tok) /\ Key(tok) \in Book!Keys
      BY DEF ShapeInv, Key, Book!Keys
    <3>2. CASE tok = leg.tok
      <4>1. started'[tok] = IF Key(tok) \notin DOMAIN positions' THEN 0
                            ELSE IF started[tok] = 0 THEN leg.symbol[1]
                            ELSE started[tok]
        BY <2>2, <3>2 DEF ShapeInv
      <4>2. SymbolOf(leg.symbol[1], tok) \in Symbols /\ leg.symbol[1] # 0
        BY <2>2, <2>5, <3>2
      <4>3. started[tok] # 0 => SymbolOf(started[tok], tok) \in Symbols
        BY <3>1
      <4> QED BY <4>1, <4>2, <4>3
    <3>3. CASE tok # leg.tok
      <4>1. started'[tok] = started[tok]
        BY <2>2, <3>3 DEF ShapeInv
      <4>2. Key(tok) # Key(leg.tok)
        BY <3>3 DEF Key
      <4>3. Key(tok) \in DOMAIN positions' <=> Key(tok) \in DOMAIN positions
        BY <2>2, <3>1, <4>2
      <4> QED BY <3>1, <4>1, <4>3
    <3> QED BY <3>2, <3>3
  <2>8. expiry' = NextExpiry(day')
    BY <2>2 DEF ShapeInv
  <2> QED BY <2>2, <2>3, <2>4, <2>6, <2>7, <2>8 DEF ShapeInv
<1>4. CASE EndDay
  BY <1>4 DEF EndDay, bookVars, paperVars, ShapeInv
<1>5. CASE StartDay
  BY <1>5 DEF StartDay, ResetDay, Book!ResetDaily, paperVars, ShapeInv
<1>6. CASE UNCHANGED vars
  BY <1>6 DEF vars, bookVars, paperVars, engineVars, ShapeInv
<1> QED BY <1>1, <1>2, <1>3, <1>4, <1>5, <1>6 DEF Next
-----------------------------------------------------------------------------
(* As long as no fill went to another month than the one a position was    *)
(* opened in, the ledger holds all of a strike under that month's symbol.  *)
Holding(s) ==
    IF Key(s[2]) \in DOMAIN positions /\ started[s[2]] = s[1]
    THEN positions[Key(s[2])].qty ELSE 0

UnmixedInv == \A s \in Symbols : s[2] \notin mixed => ledger[s].qty = Holding(s)

(* Nothing is mixed before the first fill.                                 *)
LEMMA UnmixedInit == Init => UnmixedInv
<1> SUFFICES ASSUME Init PROVE UnmixedInv
  OBVIOUS
<1>1. DOMAIN positions = {} /\ ledger = [s \in Symbols |-> Flat]
  BY DEF Init, Book!Init, PaperInit
<1> QED BY <1>1 DEF UnmixedInv, Holding, Flat

(* A strike is mixed only by a fill under another symbol, which the step   *)
(* records.                                                                *)
LEMMA UnmixedStep ==
    ASSUME ShapeInv, UnmixedInv, [Next]_vars
    PROVE  UnmixedInv'
<1>1. ASSUME UNCHANGED <<ledger, started, mixed>>, DOMAIN positions' = DOMAIN positions,
             \A k \in DOMAIN positions : positions'[k].qty = positions[k].qty
      PROVE  UnmixedInv'
  BY <1>1 DEF UnmixedInv, Holding
<1>2. ASSUME NEW market \in Markets, NEW signal \in Signals, NEW kept \in BOOLEAN,
             Minute(market, signal, kept)
      PROVE  UnmixedInv'
  <2>1. /\ UNCHANGED <<ledger, started, mixed>> /\ DOMAIN positions' = DOMAIN positions
        /\ \A k \in DOMAIN positions : positions'[k].qty = positions[k].qty
    BY <1>2, MinuteMoves
  <2> QED BY <1>1, <2>1
<1>3. CASE SkipLeg \/ EndDay \/ StartDay \/ UNCHANGED vars
  <2>1. UNCHANGED <<ledger, started, mixed, positions>>
    BY <1>3 DEF SkipLeg, EndDay, StartDay, ResetDay, Book!ResetDaily, vars, bookVars, paperVars,
                pastVars
  <2> QED BY <1>1, <2>1
<1>4. CASE ExecuteLeg
  <2>1. PICK leg : leg = Head(legs)
    OBVIOUS
  <2>2. PICK delta : delta = Signed(leg.side, leg.qty)
    OBVIOUS
  <2>3. /\ leg.symbol[2] = leg.tok /\ leg.tok \in Tokens /\ leg.symbol \in Symbols
        /\ delta \in Int \ {0}
        /\ ledger'[leg.symbol].qty = ledger[leg.symbol].qty + delta
        /\ \A s \in Symbols \ {leg.symbol} : ledger'[s] = ledger[s]
        /\ Net(Key(leg.tok))' = Net(Key(leg.tok)) + delta
        /\ \A x \in Book!Keys \ {Key(leg.tok)} :
                  /\ x \in DOMAIN positions' <=> x \in DOMAIN positions
                  /\ Net(x)' = Net(x)
        /\ Key(leg.tok) \in DOMAIN positions' <=> Net(Key(leg.tok)) + delta # 0
        /\ started' = [started EXCEPT ![leg.tok] =
                             IF Key(leg.tok) \notin DOMAIN positions' THEN 0
                             ELSE IF started[leg.tok] = 0 THEN leg.symbol[1]
                             ELSE started[leg.tok]]
        /\ mixed' = mixed \cup {tok \in {leg.tok} : Key(tok) \in DOMAIN positions
                                                    /\ started[tok] # leg.symbol[1]}
    BY <1>4, <2>1, <2>2, ExecuteMoves
  <2> SUFFICES ASSUME NEW s \in Symbols, s[2] \notin mixed'
               PROVE  ledger'[s].qty = Holding(s)'
    BY DEF UnmixedInv
  <2>4. s[2] \notin mixed /\ ledger[s].qty = Holding(s)
    BY <2>3 DEF UnmixedInv
  <2>5. s = <<s[1], s[2]>> /\ s[2] \in Tokens /\ leg.symbol = <<leg.symbol[1], leg.tok>>
        /\ leg.symbol[1] # 0 /\ s[1] # 0
    BY <2>3, SymbolPairs
  <2>6. Key(s[2]) \in Book!Keys
    BY <2>5 DEF Key, Book!Keys
  <2>7. CASE s[2] # leg.tok
    <3>1. Key(s[2]) # Key(leg.tok) /\ s # leg.symbol
      BY <2>3, <2>7 DEF Key
    <3>2. Key(s[2]) \in DOMAIN positions' <=> Key(s[2]) \in DOMAIN positions
      BY <2>3, <2>6, <3>1
    <3>3. Net(Key(s[2]))' = Net(Key(s[2]))
      BY <2>3, <2>6, <3>1
    <3>4. started'[s[2]] = started[s[2]] /\ ledger'[s] = ledger[s]
      BY <2>3, <2>5, <2>7, <3>1 DEF ShapeInv
    <3> QED BY <2>4, <3>2, <3>3, <3>4 DEF Holding, Net
  <2>8. CASE s[2] = leg.tok
    <3> DEFINE k == Key(leg.tok)
    <3>1. k \in DOMAIN positions => started[leg.tok] = leg.symbol[1]
      BY <2>3, <2>8
    <3>2. k \notin DOMAIN positions => started[leg.tok] = 0
      BY <2>3 DEF ShapeInv
    <3>3. started'[leg.tok] = IF k \in DOMAIN positions' THEN leg.symbol[1] ELSE 0
      <4>1. leg.tok \in DOMAIN started
        BY <2>3 DEF ShapeInv
      <4>2. started'[leg.tok] = IF k \notin DOMAIN positions' THEN 0
                                ELSE IF started[leg.tok] = 0 THEN leg.symbol[1]
                                ELSE started[leg.tok]
        BY <2>3, <4>1
      <4> QED BY <3>1, <3>2, <4>2
    <3>4. Holding(s) = IF s = leg.symbol THEN Net(k) ELSE 0
      <4>1. Holding(s) = IF k \in DOMAIN positions /\ started[leg.tok] = s[1]
                         THEN positions[k].qty ELSE 0
        BY <2>8 DEF Holding
      <4>2. s = leg.symbol <=> s[1] = leg.symbol[1]
        BY <2>5, <2>8
      <4> HIDE DEF k
      <4> QED BY <3>1, <4>1, <4>2 DEF Net
    <3>5. Holding(s)' = IF s = leg.symbol THEN Net(k)' ELSE 0
      <4>1. Holding(s)' = IF k \in DOMAIN positions' /\ started'[leg.tok] = s[1]
                          THEN positions'[k].qty ELSE 0
        BY <2>8 DEF Holding, Key
      <4>2. s = leg.symbol <=> s[1] = leg.symbol[1]
        BY <2>5, <2>8
      <4>3. Net(k)' = IF k \in DOMAIN positions' THEN positions'[k].qty ELSE 0
        BY DEF Net, Key
      <4> QED BY <3>3, <4>1, <4>2, <4>3
    <3>6. Net(k)' = Net(k) + delta
      BY <2>3
    <3> HIDE DEF k
    <3>7. CASE s = leg.symbol
      BY <2>3, <2>4, <3>4, <3>5, <3>6, <3>7
    <3>8. CASE s # leg.symbol
      BY <2>3, <2>4, <3>4, <3>5, <3>8
    <3> QED BY <3>7, <3>8
  <2> QED BY <2>7, <2>8
<1> QED BY <1>2, <1>3, <1>4 DEF Next
-----------------------------------------------------------------------------
Holdings == [s \in Symbols |-> ledger[s].qty]
OfStrike(tok) == {s \in Symbols : s[2] = tok}

(* The ledgers agree when the book's net of each strike is the sum of its  *)
(* symbols' holdings: the sum of the property, as a sum over a function.   *)
LEMMA AgreeIs ==
    ASSUME ShapeInv
    PROVE  LedgersAgree <=> \A tok \in Tokens :
                                Net(Key(tok)) = SumFunctionOnSet(Holdings, OfStrike(tok))
BY NetIs DEF LedgersAgree, Holdings, OfStrike

(* Two empty ledgers agree.                                                *)
LEMMA AgreeInit == Init => LedgersAgree
<1> SUFFICES ASSUME Init PROVE LedgersAgree
  OBVIOUS
<1>1. DOMAIN positions = {} /\ ledger = [s \in Symbols |-> Flat]
  BY DEF Init, Book!Init, PaperInit
<1>2. ASSUME NEW tok \in Tokens
      PROVE  Net(Key(tok)) = SumFunctionOnSet(Holdings, OfStrike(tok))
  <2>1. Net(Key(tok)) = 0
    BY <1>1 DEF Net
  <2>2. \A s \in OfStrike(tok) : Holdings[s] = 0
    BY <1>1 DEF Holdings, OfStrike, Flat
  <2>3. IsFiniteSet(OfStrike(tok))
    BY SymbolsOfStrike DEF OfStrike
  <2> QED BY <2>1, <2>2, <2>3, SumZero
<1> QED BY <1>2, ShapeInit, AgreeIs

(* A leg moves the symbol's holding and the strike's net by the same lots, *)
(* and is the only step that moves either.                                 *)
LEMMA AgreeStep ==
    ASSUME ShapeInv, ShapeInv', LedgersAgree, [Next]_vars
    PROVE  LedgersAgree'
<1>0. \A tok \in Tokens : Net(Key(tok)) = SumFunctionOnSet(Holdings, OfStrike(tok))
  BY AgreeIs
<1>1. ASSUME ledger' = ledger, \A tok \in Tokens : Net(Key(tok))' = Net(Key(tok))
      PROVE  LedgersAgree'
  <2>1. Holdings' = Holdings
    BY <1>1 DEF Holdings
  <2>2. \A tok \in Tokens :
            Net(Key(tok))' = SumFunctionOnSet(Holdings', OfStrike(tok))
    BY <1>0, <1>1, <2>1, Zenon
  <2>3. \A tok \in Tokens : Book!NetQuantity(Key(tok))' = Net(Key(tok))'
    BY DEF ShapeInv, IsPosition, Net, Book!NetQuantity, Book!Held, Book!NewPosition
  <2> QED BY <2>2, <2>3 DEF LedgersAgree, Holdings, OfStrike
<1>2. ASSUME NEW market \in Markets, NEW signal \in Signals, NEW kept \in BOOLEAN,
             Minute(market, signal, kept)
      PROVE  LedgersAgree'
  <2>1. /\ ledger' = ledger /\ DOMAIN positions' = DOMAIN positions
        /\ \A k \in DOMAIN positions : positions'[k].qty = positions[k].qty
    BY <1>2, MinuteMoves
  <2>2. \A tok \in Tokens : Net(Key(tok))' = Net(Key(tok))
    BY <2>1 DEF Net, Key
  <2> QED BY <1>1, <2>1, <2>2
<1>3. CASE SkipLeg \/ EndDay \/ StartDay \/ UNCHANGED vars
  <2>1. UNCHANGED <<ledger, positions>>
    BY <1>3 DEF SkipLeg, EndDay, StartDay, ResetDay, Book!ResetDaily, vars, bookVars, paperVars
  <2>2. \A tok \in Tokens : Net(Key(tok))' = Net(Key(tok))
    BY <2>1 DEF Net, Key
  <2> QED BY <1>1, <2>1, <2>2
<1>4. CASE ExecuteLeg
  <2>1. PICK leg : leg = Head(legs)
    OBVIOUS
  <2>2. PICK delta : delta = Signed(leg.side, leg.qty)
    OBVIOUS
  <2>3. /\ leg.symbol[2] = leg.tok /\ leg.tok \in Tokens /\ leg.symbol \in Symbols
        /\ delta \in Int
        /\ ledger'[leg.symbol].qty = ledger[leg.symbol].qty + delta
        /\ \A s \in Symbols \ {leg.symbol} : ledger'[s] = ledger[s]
        /\ Net(Key(leg.tok))' = Net(Key(leg.tok)) + delta
        /\ \A x \in Book!Keys \ {Key(leg.tok)} : Net(x)' = Net(x)
    BY <1>4, <2>1, <2>2, ExecuteMoves
  <2> SUFFICES ASSUME NEW tok \in Tokens
               PROVE  Net(Key(tok))' = SumFunctionOnSet(Holdings', OfStrike(tok))
    <3>1. \A tok \in Tokens : Book!NetQuantity(Key(tok))' = Net(Key(tok))'
      BY DEF ShapeInv, IsPosition, Net, Book!NetQuantity, Book!Held, Book!NewPosition
    <3> QED BY <3>1 DEF LedgersAgree, Holdings, OfStrike
  <2>4. /\ IsFiniteSet(OfStrike(tok)) /\ OfStrike(tok) \subseteq Symbols
        /\ \A s \in Symbols : Holdings[s] \in Int /\ Holdings'[s] \in Int
    BY SymbolsOfStrike DEF OfStrike, Holdings, ShapeInv, IsEntry
  <2>5. PICK f, g : f = Holdings /\ g = Holdings'
    OBVIOUS
  <2>6. /\ \A s \in Symbols \ {leg.symbol} : g[s] = f[s]
        /\ g[leg.symbol] = f[leg.symbol] + delta
    BY <2>3, <2>5 DEF Holdings
  <2>7. PICK T : T = OfStrike(tok)
    OBVIOUS
  <2>8. CASE tok = leg.tok
    <3>1. leg.symbol \in T
      BY <2>3, <2>7, <2>8 DEF OfStrike
    <3>2. SumFunctionOnSet(g, T) = SumFunctionOnSet(f, T) + delta
      <4>1. IsFiniteSet(T) /\ \A y \in T : f[y] \in Int /\ g[y] \in Int
        BY <2>4, <2>5, <2>7
      <4>2. \A y \in T \ {leg.symbol} : g[y] = f[y]
        BY <2>4, <2>6, <2>7
      <4> QED BY <2>3, <2>6, <3>1, <4>1, <4>2, SumMoves
    <3>3. Net(Key(tok)) = SumFunctionOnSet(f, T)
      BY <1>0, <2>5, <2>7
    <3>4. Net(Key(tok))' = Net(Key(tok)) + delta
      BY <2>3, <2>8 DEF Key
    <3> QED BY <2>5, <2>7, <3>2, <3>3, <3>4
  <2>9. CASE tok # leg.tok
    <3>1. \A y \in T : g[y] = f[y]
      BY <2>3, <2>6, <2>7, <2>9 DEF OfStrike
    <3>2. SumFunctionOnSet(g, T) = SumFunctionOnSet(f, T)
      BY <2>4, <2>7, <3>1, SumSame
    <3>3. Net(Key(tok)) = SumFunctionOnSet(f, T)
      BY <1>0, <2>5, <2>7
    <3>4. Key(tok) \in Book!Keys /\ Key(tok) # Key(leg.tok)
      BY <2>9 DEF Key, Book!Keys
    <3>5. Net(Key(tok))' = Net(Key(tok))
      <4>1. PICK k : k = Key(tok)
        OBVIOUS
      <4>2. Net(k)' = Net(k)
        BY <2>3, <3>4, <4>1
      <4> QED BY <4>1, <4>2 DEF Net, Key
    <3> QED BY <2>5, <2>7, <3>2, <3>3, <3>5
  <2> QED BY <2>8, <2>9
<1> QED BY <1>2, <1>3, <1>4 DEF Next
-----------------------------------------------------------------------------
(* Of a strike whose fills were all of one month, and whose position is    *)
(* not hidden, reconciliation counts what the ledger holds.                *)
LEMMA Reconciled ==
    ASSUME ShapeInv, UnmixedInv
    PROVE  ReconcileOk
<1> SUFFICES ASSUME NEW s \in Symbols, s[2] \notin mixed,
                    ~(Key(s[2]) \in DOMAIN positions /\ Key(s[2]) \in DOMAIN closed)
             PROVE  ledger[s].qty = Internal(s)
  BY Zenon DEF ReconcileOk, Discrepancies
<1> DEFINE T == {k \in Visible : SymbolOf(started[k[2]], k[2]) = s}
<1>1. Internal(s) = SumFunctionOnSet(Quantity, T)
  BY DEF Internal
<1>2. s = <<s[1], s[2]>> /\ s[2] \in Tokens /\ ledger[s].qty = Holding(s)
  BY SymbolPairs DEF UnmixedInv
<1>3. \A k \in Visible : k = Key(k[2]) /\ k \in DOMAIN positions
  BY DEF Visible, ShapeInv, Book!Keys, Key
<1>4. CASE Key(s[2]) \in DOMAIN positions /\ started[s[2]] = s[1]
  <2>1. T = {Key(s[2])}
    <3>1. Key(s[2]) \in T
      BY <1>2, <1>4 DEF Visible, SymbolOf, Key
    <3>2. \A k \in T : k = Key(s[2])
      BY <1>2, <1>3 DEF SymbolOf
    <3> QED BY <3>1, <3>2
  <2>2. Quantity[Key(s[2])] = positions[Key(s[2])].qty /\ positions[Key(s[2])].qty \in Int
    BY <1>4 DEF Quantity, ShapeInv, IsPosition
  <2>3. SumFunctionOnSet(Quantity, {Key(s[2])}) = Quantity[Key(s[2])]
    BY <2>2, SumSingle
  <2> HIDE DEF T
  <2> QED BY <1>1, <1>2, <1>4, <2>1, <2>2, <2>3 DEF Holding
<1>5. CASE ~(Key(s[2]) \in DOMAIN positions /\ started[s[2]] = s[1])
  <2>1. T = {}
    <3> SUFFICES ASSUME NEW k \in T PROVE FALSE
      OBVIOUS
    <3>1. k \in DOMAIN positions /\ k = Key(k[2]) /\ <<started[k[2]], k[2]>> = s
      BY <1>3 DEF SymbolOf
    <3>2. k[2] = s[2] /\ started[s[2]] = s[1]
      BY <1>2, <3>1
    <3> QED BY <1>5, <3>1, <3>2
  <2>2. SumFunctionOnSet(Quantity, {}) = 0
    BY SumEmpty
  <2> HIDE DEF T
  <2> QED BY <1>1, <1>2, <1>5, <2>1, <2>2 DEF Holding
<1> QED BY <1>4, <1>5
-----------------------------------------------------------------------------
(* As long as the calendar lasts, the shape is kept.                       *)
LEMMA ShapeHolds == Spec /\ []CalendarLasts => []ShapeInv
<1>1. ShapeInv /\ CalendarLasts /\ CalendarLasts' /\ [Next]_vars => ShapeInv'
  BY ShapeStep
<1> QED BY <1>1, ShapeInit, PTL DEF Spec

(* Ledger and book hold the same quantity of every strike, whatever was    *)
(* opened under one symbol and closed under another.                       *)
THEOREM LedgersAlwaysAgree == Spec /\ []CalendarLasts => []LedgersAgree
<1>1. ShapeInv /\ ShapeInv' /\ LedgersAgree /\ [Next]_vars => LedgersAgree'
  BY AgreeStep
<1> QED BY <1>1, AgreeInit, ShapeHolds, PTL DEF Spec

(* Reconciliation reports nothing but positions hidden by an archived      *)
(* entry and strikes that took fills of two months.                        *)
THEOREM ReconciliationExplained == Spec /\ []CalendarLasts => []ReconcileOk
<1>1. ShapeInv /\ UnmixedInv /\ [Next]_vars => UnmixedInv'
  BY UnmixedStep
<1>2. ShapeInv /\ UnmixedInv => ReconcileOk
  BY Reconciled
<1> QED BY <1>1, <1>2, UnmixedInit, ShapeHolds, PTL DEF Spec
-----------------------------------------------------------------------------
(* What is proved of the position book holds of the backtest's.            *)
BookFacts == INSTANCE PositionsProofs
                 WITH Strategies <- {S}

(* A list that is one longer for an append.                                *)
IsList(s) == Len(s) \in Nat /\ s = [n \in 1..Len(s) |-> s[n]]

(* A sequence over any set is a function on the numbers up to its length.  *)
LEMMA SeqIsList ==
    ASSUME NEW T, NEW t \in Seq(T)
    PROVE  IsList(t)
<1>1. t \in [1..Len(t) -> T] /\ Len(t) \in Nat
  OBVIOUS
<1> QED BY <1>1, Zenon DEF IsList

(* Appending adds one element and keeps the others in their places.        *)
LEMMA AppendedList ==
    ASSUME NEW s, IsList(s), NEW x
    PROVE  /\ IsList(Append(s, x)) /\ Len(Append(s, x)) = Len(s) + 1
           /\ \A n \in 1..Len(s) : Append(s, x)[n] = s[n]
           /\ Append(s, x)[Len(s) + 1] = x
<1> DEFINE T == {s[n] : n \in 1..Len(s)} \cup {x}
<1>1. s \in Seq(T) /\ x \in T
  BY DEF IsList
<1> HIDE DEF T
<1>2. /\ Append(s, x) \in Seq(T) /\ Len(Append(s, x)) = Len(s) + 1 /\ Len(s) \in Nat
      /\ \A n \in 1..Len(s) : Append(s, x)[n] = s[n]
      /\ Append(s, x)[Len(s) + 1] = x
  BY <1>1
<1> QED BY <1>2, SeqIsList

(* The tail of a list is a list, one shorter.                              *)
LEMMA TailOfList ==
    ASSUME NEW s, IsList(s), Len(s) > 0
    PROVE  IsList(Tail(s)) /\ Len(Tail(s)) = Len(s) - 1
<1> DEFINE T == {s[n] : n \in 1..Len(s)}
<1>1. s \in Seq(T) /\ s # <<>>
  BY DEF IsList
<1> HIDE DEF T
<1>2. Tail(s) \in Seq(T) /\ Len(Tail(s)) = Len(s) - 1 /\ Len(s) \in Nat
  BY <1>1
<1> QED BY <1>2, SeqIsList

(* A weighted average of whole prices of at least 1 is at least 1.         *)
LEMMA AverageAtLeastOne ==
    ASSUME NEW a \in Nat \ {0}, NEW b \in Nat \ {0}, NEW p \in Nat \ {0}, NEW r \in Nat \ {0}
    PROVE  (a * p + b * r) \div (a + b) \in Nat \ {0}
<1> DEFINE v == a * p + b * r
           n == a + b
<1>1. a * p \in Nat /\ b * r \in Nat /\ a * p >= a /\ b * r >= b
  OBVIOUS
<1>2. v \in Nat /\ n \in Nat /\ n > 0 /\ v >= n
  BY <1>1
<1> HIDE DEF v, n
<1>3. v \div n \in Nat /\ v \div n > 0
  BY <1>2
<1> QED BY <1>3 DEF v, n

(* A paper entry that holds something has a positive average price after   *)
(* any fill.                                                               *)
LEMMA EntryPriced ==
    ASSUME NEW pos, IsEntry(pos), pos.qty # 0 => pos.avg \in Nat \ {0},
           NEW delta \in Int \ {0}, NEW price \in Nat \ {0},
           UpdatePosition(pos, delta, price).qty # 0
    PROVE  UpdatePosition(pos, delta, price).avg \in Nat \ {0}
<1> DEFINE new == UpdatePosition(pos, delta, price)
<1>1. PICK q, a, p : pos = [qty |-> q, avg |-> a, pnl |-> p] /\ q \in Int
  BY DEF IsEntry
<1>2. CASE pos.qty = 0
  <2>1. new = [qty |-> delta, avg |-> price, pnl |-> p]
    BY <1>1, <1>2 DEF UpdatePosition, Opened
  <2> HIDE DEF new
  <2>2. new.avg = price
    BY <2>1
  <2> QED BY <2>2 DEF new
<1>3. CASE pos.qty # 0 /\ (pos.qty > 0 <=> delta > 0)
  <2> DEFINE value == (Magnitude(pos.qty) * pos.avg + Magnitude(delta) * price)
                          \div Magnitude(pos.qty + delta)
  <2>1. new = [pos EXCEPT !.qty = @ + delta, !.avg = value]
    BY <1>3 DEF UpdatePosition, Added
  <2>2. /\ Magnitude(pos.qty) \in Nat \ {0} /\ Magnitude(delta) \in Nat \ {0}
        /\ Magnitude(pos.qty + delta) = Magnitude(pos.qty) + Magnitude(delta)
    BY <1>1, <1>3 DEF Magnitude
  <2>3. value \in Nat \ {0}
    <3>1. PICK m, n, r : /\ m = Magnitude(pos.qty) /\ n = Magnitude(delta) /\ r = pos.avg
      OBVIOUS
    <3>2. m \in Nat \ {0} /\ n \in Nat \ {0} /\ r \in Nat \ {0}
      BY <1>3, <2>2, <3>1
    <3>3. (m * r + n * price) \div (m + n) \in Nat \ {0}
      BY <3>2, AverageAtLeastOne
    <3>4. value = (m * r + n * price) \div (m + n)
      BY <2>2, <3>1, Zenon
    <3> QED BY <3>3, <3>4, Zenon
  <2> HIDE DEF value, new
  <2>4. new.avg = value
    BY <1>1, <2>1
  <2> QED BY <2>3, <2>4 DEF new
<1>4. CASE pos.qty # 0 /\ ~(pos.qty > 0 <=> delta > 0)
  <2> DEFINE avg == IF pos.qty + delta = 0 THEN 0
                    ELSE IF Reversed(pos, delta) THEN price ELSE pos.avg
  <2>1. new = [qty |-> pos.qty + delta, avg |-> avg,
               pnl |-> Reduced(delta, price, pos).pnl]
    BY <1>4, Zenon DEF UpdatePosition, Reduced
  <2>2. new.qty # 0
    OBVIOUS
  <2> HIDE DEF avg, new
  <2>3. new.avg = avg /\ new.qty = pos.qty + delta
    BY <2>1
  <2> QED BY <1>4, <2>2, <2>3 DEF avg, new
<1> QED BY <1>2, <1>3, <1>4

(* Slippage leaves a price of at least 1.                                  *)
LEMMA SlippedPositive ==
    ASSUME NEW price \in Nat \ {0}, NEW side
    PROVE  SimulateFill(price, side) \in Nat \ {0}
<1>1. Slip \in Nat /\ Slip > 1
  BY PaperAssumption
<1> DEFINE d == price \div Slip
<1>2. d \in Nat /\ d < price
  BY <1>1
<1> HIDE DEF d
<1> QED BY <1>2 DEF SimulateFill, d
-----------------------------------------------------------------------------
(* The types of a backtest.                                                *)
IsPriced(pos, ltp) == pos.qty # 0 => pos.avg \in Nat \ {0} /\ ltp \in Nat \ {0}

TypeInv ==
    /\ feed \in [Tokens -> Nat]
    /\ \A s \in Symbols : IsPriced(ledger[s], ltps[s])
    /\ IsList(trades) /\ Len(trades) <= MaxHistory
    /\ BookFacts!BookInv
    /\ minute \in 0..Minutes + 1
    /\ IsList(report) /\ Len(report) <= NumDays

(* What the module's assumption says of the bounds and the prices.         *)
LEMMA Bounds ==
    /\ Prices \subseteq Nat \ {0} /\ MaxClosed \in Nat \ {0} /\ MaxHistory \in Nat \ {0}
    /\ Minutes \in Nat \ {0} /\ NumDays \in Nat \ {0} /\ Qtys \subseteq Nat \ {0}
BY BacktestAssumption, PaperAssumption

(* A quote is kept by the feed, by the paper broker, and marks the book.   *)
LEMMA MinuteFeed ==
    ASSUME TypeInv, NEW market \in Markets, NEW signal, NEW kept, Minute(market, signal, kept)
    PROVE  feed' \in [Tokens -> Nat]
<1>1. DOMAIN market \subseteq Tokens /\ \A tok \in DOMAIN market : market[tok] \in Nat
  BY BacktestAssumption
<1>2. feed' = [tok \in Tokens |-> IF tok \in DOMAIN market THEN market[tok] ELSE feed[tok]]
  BY DEF Minute
<1> QED BY <1>1, <1>2 DEF TypeInv

(* A minute quotes prices and leaves the paper entries priced.             *)
LEMMA MinutePriced ==
    ASSUME TypeInv, NEW market \in Markets, NEW signal, NEW kept, Minute(market, signal, kept)
    PROVE  \A s \in Symbols : IsPriced(ledger'[s], ltps'[s])
<1> DEFINE month == MonthOf[expiry]
           D == {SymbolOf(month, tok) : tok \in DOMAIN market}
           quotes == [s \in D |-> market[s[2]]]
<1>1. ledger' = ledger
  BY DEF Minute
<1>2. ltps' = [s \in Symbols |-> IF s \in DOMAIN quotes THEN quotes[s] ELSE ltps[s]]
  BY Zenon DEF Minute, SetLtps
<1>3. \A tok \in DOMAIN market : market[tok] \in Nat \ {0}
  BY BacktestAssumption
<1>4. \A s \in D : quotes[s] \in Nat \ {0}
  <2> SUFFICES ASSUME NEW s \in D PROVE market[s[2]] \in Nat \ {0}
    OBVIOUS
  <2>1. PICK tok \in DOMAIN market : s = <<month, tok>>
    BY DEF SymbolOf
  <2> QED BY <1>3, <2>1
<1>5. DOMAIN quotes = D
  OBVIOUS
<1> HIDE DEF D, quotes
<1>6. \A s \in Symbols : ltps'[s] = ltps[s] \/ ltps'[s] \in Nat \ {0}
  BY <1>2, <1>4, <1>5
<1> QED BY <1>1, <1>6 DEF TypeInv, IsPriced

(* A minute's ticks keep the position book's invariant.                    *)
LEMMA MinuteBook ==
    ASSUME TypeInv, NEW market \in Markets, NEW signal, NEW kept, Minute(market, signal, kept)
    PROVE  BookFacts!BookInv'
<1>1. feed' \in [Tokens -> Nat]
  BY MinuteFeed
<1>2. /\ UNCHANGED <<closed, closedOrder, cash, banked, last, trips, fills>>
      /\ positions' = [k \in DOMAIN positions |->
                           IF feed'[k[2]] = 0 THEN positions[k]
                           ELSE [positions[k] EXCEPT !.ltp = feed'[k[2]]]]
  BY DEF Minute
<1>3. BookFacts!TypeOK /\ BookFacts!BookConsistent
  BY DEF TypeInv, BookFacts!BookInv
<1>4. DOMAIN positions' = DOMAIN positions /\ DOMAIN positions \subseteq BookFacts!Keys
  BY <1>2, <1>3 DEF BookFacts!TypeOK
<1>5. ASSUME NEW k \in DOMAIN positions
      PROVE  positions'[k] \in BookFacts!Position /\ positions'[k].qty # 0
  <2>1. positions[k] \in [qty : Int, avg : Int, pnl : Int, ltp : Int] /\ positions[k].qty # 0
    BY <1>3 DEF BookFacts!TypeOK, BookFacts!BookConsistent, BookFacts!Position
  <2>2. PICK f \in Int : f = feed'[k[2]]
    <3>1. k[2] \in Tokens
      BY <1>4 DEF BookFacts!Keys
    <3> QED BY <1>1, <3>1
  <2>3. positions'[k] = IF f = 0 THEN positions[k] ELSE [positions[k] EXCEPT !.ltp = f]
    BY <1>2, <2>2
  <2>4. [positions[k] EXCEPT !.ltp = f] \in [qty : Int, avg : Int, pnl : Int, ltp : Int]
        /\ [positions[k] EXCEPT !.ltp = f].qty = positions[k].qty
    BY <2>1
  <2> QED BY <2>1, <2>3, <2>4 DEF BookFacts!Position
<1>6. /\ DOMAIN positions' \subseteq BookFacts!Keys
      /\ \A k \in DOMAIN positions' : positions'[k] \in BookFacts!Position
      /\ \A k \in DOMAIN positions' : positions'[k].qty # 0
  BY <1>4, <1>5
<1> QED BY <1>2, <1>3, <1>6 DEF BookFacts!BookInv, BookFacts!TypeOK, BookFacts!BookConsistent

(* The book of the backtest is the position book.                          *)
LEMMA SameFill ==
    ASSUME NEW k, NEW side, NEW qty, NEW price, Book!OnOrderFilled(k, side, qty, price)
    PROVE  BookFacts!OnOrderFilled(k, side, qty, price)
BY Zenon DEF Book!OnOrderFilled, BookFacts!OnOrderFilled,
    Book!UpdateFromFill, BookFacts!UpdateFromFill, Book!RecordFill, BookFacts!RecordFill,
    Book!Archive, BookFacts!Archive, Book!ArchiveOrder, BookFacts!ArchiveOrder,
    Book!Filled, BookFacts!Filled, Book!Average, BookFacts!Average,
    Book!Realized, BookFacts!Realized, Book!Reduces, BookFacts!Reduces,
    Book!Adds, BookFacts!Adds, Book!Held, BookFacts!Held,
    Book!NewPosition, BookFacts!NewPosition, Book!SignedQty, BookFacts!SignedQty,
    Book!Lesser, BookFacts!Lesser, Book!Abs, BookFacts!Abs

(* A leg is a fill of the position book, or nothing: it keeps the book's   *)
(* invariant.                                                              *)
LEMMA ExecuteBook ==
    ASSUME TypeInv, ShapeInv, ExecuteLeg
    PROVE  BookFacts!BookInv'
<1>1. PICK leg : leg = Head(legs)
  OBVIOUS
<1>2. leg \in Orders /\ leg.tok \in Tokens
  BY <1>1, ExecuteMoves
<1>3. leg.side \in BookFacts!Sides /\ leg.qty \in Qtys
  BY <1>2 DEF Orders, BookFacts!Sides
<1>4. PICK price : price = SimulateFill(feed[leg.tok], leg.side)
  OBVIOUS
<1>5. feed[leg.tok] > 0 /\ Book!OnOrderFilled(Key(leg.tok), leg.side, leg.qty, price)
  BY <1>1, <1>4, Zenon DEF ExecuteLeg
<1>6. price \in Int
  <2>1. PICK f \in Nat \ {0} : f = feed[leg.tok]
    BY <1>2, <1>5 DEF TypeInv
  <2> QED BY <1>4, <2>1, SlippedPositive
<1>7. PICK k \in BookFacts!Keys : k = Key(leg.tok)
  BY <1>2 DEF Key, BookFacts!Keys
<1>8. PICK side \in BookFacts!Sides, qty \in Qtys : side = leg.side /\ qty = leg.qty
  BY <1>3
<1>9. BookFacts!OnOrderFilled(k, side, qty, price)
  BY <1>5, <1>7, <1>8, SameFill
<1>10. BookFacts!BookInv
  BY DEF TypeInv
<1> QED BY <1>6, <1>9, <1>10, BookFacts!FillKeepsBook, BacktestAssumption

(* What a filled order leaves in the ledger has a price.                   *)
LEMMA ExecutePriced ==
    ASSUME TypeInv, ShapeInv, ExecuteLeg
    PROVE  /\ \A s \in Symbols : IsPriced(ledger'[s], ltps'[s])
           /\ IsList(trades') /\ Len(trades') <= MaxHistory
<1>1. PICK leg : leg = Head(legs)
  OBVIOUS
<1>2. /\ leg \in Orders /\ leg.tok \in Tokens /\ leg.symbol \in Symbols
      /\ Signed(leg.side, leg.qty) \in Int \ {0}
      /\ \A s \in Symbols \ {leg.symbol} : ledger'[s] = ledger[s]
  BY <1>1, ExecuteMoves
<1>3. PICK price : price = SimulateFill(feed[leg.tok], leg.side)
  OBVIOUS
<1>4. PICK delta \in Int \ {0} : delta = Signed(leg.side, leg.qty)
  BY <1>2
<1>5. /\ feed[leg.tok] > 0
      /\ SetLtps([s \in {leg.symbol} |-> price])
      /\ PlaceOrder(leg.symbol, leg.side, leg.qty, price)
  BY <1>1, <1>3, Zenon DEF ExecuteLeg
<1>6. price \in Nat \ {0}
  <2>1. PICK f \in Nat \ {0} : f = feed[leg.tok]
    BY <1>2, <1>5 DEF TypeInv
  <2> QED BY <1>3, <2>1, SlippedPositive
<1>7. PICK fill : fill = FillPrice(leg.symbol, leg.side, price)
  OBVIOUS
<1>8. /\ fill > 0
      /\ ledger' = [ledger EXCEPT ![leg.symbol] = UpdatePosition(ledger[leg.symbol], delta, fill)]
      /\ trades' = Recent(Append(trades, [symbol |-> leg.symbol, side |-> leg.side,
                                          qty |-> leg.qty, price |-> fill]))
  BY <1>4, <1>5, <1>7, Zenon DEF PlaceOrder
<1>9. fill \in Nat \ {0}
  <2>1. Slip \in Nat /\ Slip > 1
    BY PaperAssumption
  <2>2. PICK d \in Int : d = price \div Slip
    BY <1>6, <2>1
  <2>3. fill = price + d \/ fill = price - d
    <3>1. fill = price + Signed(leg.side, d)
      BY <1>6, <1>7, <2>2 DEF FillPrice, Slipped
    <3> QED BY <1>6, <2>2, <3>1 DEF Signed
  <2> QED BY <1>6, <1>8, <2>2, <2>3
<1>10. ltps'[leg.symbol] = price /\ \A s \in Symbols \ {leg.symbol} : ltps'[s] = ltps[s]
  <2>1. ltps' = [s \in Symbols |-> IF s \in {leg.symbol} THEN price ELSE ltps[s]]
    BY <1>5 DEF SetLtps
  <2> QED BY <1>2, <2>1
<1>11. PICK pos : pos = ledger[leg.symbol]
  OBVIOUS
<1>12. IsEntry(pos) /\ (pos.qty # 0 => pos.avg \in Nat \ {0}) /\ DOMAIN ledger = Symbols
  BY <1>2, <1>11 DEF ShapeInv, TypeInv, IsPriced
<1>13. UpdatePosition(pos, delta, fill).qty # 0 => UpdatePosition(pos, delta, fill).avg \in Nat \ {0}
  BY <1>9, <1>12, EntryPriced
<1>14. ledger'[leg.symbol] = UpdatePosition(pos, delta, fill)
  <2>1. PICK new : new = UpdatePosition(pos, delta, fill)
    OBVIOUS
  <2> QED BY <1>2, <1>8, <1>11, <1>12, <2>1
<1>15. ASSUME NEW s \in Symbols PROVE IsPriced(ledger'[s], ltps'[s])
  <2>1. CASE s = leg.symbol
    <3>1. IsPriced(UpdatePosition(pos, delta, fill), price)
      BY <1>6, <1>13 DEF IsPriced
    <3> QED BY <1>10, <1>14, <2>1, <3>1
  <2>2. CASE s # leg.symbol
    <3>1. ledger'[s] = ledger[s] /\ ltps'[s] = ltps[s]
      BY <1>2, <1>10, <2>2
    <3> QED BY <3>1 DEF TypeInv
  <2> QED BY <2>1, <2>2
<1>16. IsList(trades') /\ Len(trades') <= MaxHistory
  <2>1. PICK t : trades' = Recent(Append(trades, t))
    BY <1>8
  <2>2. PICK h : h = Append(trades, t)
    OBVIOUS
  <2>3. IsList(h) /\ Len(h) = Len(trades) + 1 /\ Len(trades) \in Nat
    BY <2>2, AppendedList DEF TypeInv, IsList
  <2>4. Len(h) <= MaxHistory + 1 /\ Len(h) \in Nat /\ MaxHistory \in Nat \ {0}
    BY <2>3, Bounds DEF TypeInv
  <2>5. CASE Len(h) > MaxHistory
    <3>1. IsList(Tail(h)) /\ Len(Tail(h)) = Len(h) - 1
      BY <2>3, <2>4, <2>5, TailOfList
    <3>2. trades' = Tail(h)
      BY <2>1, <2>2, <2>5 DEF Recent
    <3> QED BY <2>4, <3>1, <3>2
  <2>6. CASE ~(Len(h) > MaxHistory)
    <3>1. trades' = h
      BY <2>1, <2>2, <2>6 DEF Recent
    <3> QED BY <2>3, <2>4, <2>6, <3>1
  <2> QED BY <2>5, <2>6
<1> QED BY <1>15, <1>16
-----------------------------------------------------------------------------
(* The types at the start.                                                 *)
LEMMA TypeInit == Init => TypeInv
<1> SUFFICES ASSUME Init PROVE TypeInv
  OBVIOUS
<1>1. BookFacts!Init
  BY DEF Init, Book!Init, BookFacts!Init, Book!NewPosition, BookFacts!NewPosition,
         Book!Keys, BookFacts!Keys
<1>2. BookFacts!BookInv
  BY <1>1, BacktestAssumption, BookFacts!InitBook
<1>3. IsList(<<>>) /\ Len(<<>>) = 0
  <2>1. <<>> \in Seq({}) /\ Len(<<>>) = 0
    OBVIOUS
  <2> QED BY <2>1, SeqIsList
<1>4. \A s \in Symbols : IsPriced(ledger[s], ltps[s])
  BY DEF Init, PaperInit, Flat, IsPriced
<1>5. feed \in [Tokens -> Nat] /\ minute = 0 /\ report = <<>> /\ trades = <<>>
  BY DEF Init, PaperInit
<1> QED BY <1>2, <1>3, <1>4, <1>5, Bounds DEF TypeInv

(* Every step keeps the types.                                             *)
LEMMA TypeStep ==
    ASSUME TypeInv, ShapeInv, [Next]_vars
    PROVE  TypeInv'
<1>1. ASSUME NEW market \in Markets, NEW signal \in Signals, NEW kept \in BOOLEAN,
             Minute(market, signal, kept)
      PROVE  TypeInv'
  <2>1. feed' \in [Tokens -> Nat] /\ BookFacts!BookInv'
        /\ \A s \in Symbols : IsPriced(ledger'[s], ltps'[s])
    BY <1>1, MinuteFeed, MinuteBook, MinutePriced
  <2>2. UNCHANGED <<trades, report>> /\ minute' = minute + 1 /\ minute < Minutes
    BY <1>1 DEF Minute
  <2> QED BY <2>1, <2>2, Bounds DEF TypeInv
<1>2. CASE SkipLeg
  BY <1>2 DEF SkipLeg, bookVars, paperVars, TypeInv, BookFacts!BookInv, BookFacts!TypeOK,
              BookFacts!BookConsistent
<1>3. CASE ExecuteLeg
  <2>1. UNCHANGED <<feed, minute, report>>
    BY <1>3 DEF ExecuteLeg
  <2> QED BY <1>3, <2>1, ExecuteBook, ExecutePriced DEF TypeInv
<1>4. CASE EndDay
  <2>1. /\ minute' = Minutes + 1 /\ UNCHANGED <<feed, ledger, ltps, trades>>
        /\ UNCHANGED <<positions, closed, closedOrder, cash, banked, last, trips, fills>>
    BY <1>4 DEF EndDay, bookVars, paperVars
  <2>2. PICK row : report' = Append(report, row)
    BY <1>4 DEF EndDay
  <2>3. Len(report) < NumDays
    BY <1>4 DEF EndDay
  <2>4. IsList(report') /\ Len(report') <= NumDays
    <3>1. IsList(report') /\ Len(report') = Len(report) + 1
      BY <2>2, AppendedList DEF TypeInv
    <3> QED BY <2>3, <3>1, Bounds DEF TypeInv, IsList
  <2>5. BookFacts!BookInv'
    BY <2>1 DEF TypeInv, BookFacts!BookInv, BookFacts!TypeOK, BookFacts!BookConsistent
  <2> QED BY <2>1, <2>4, <2>5, Bounds DEF TypeInv
<1>5. CASE StartDay
  <2>1. minute' = 0 /\ UNCHANGED <<feed, ledger, ltps, trades, report>> /\ Book!ResetDaily
    BY <1>5 DEF StartDay, ResetDay, paperVars
  <2>2. BookFacts!ResetDaily
    BY <2>1 DEF Book!ResetDaily, BookFacts!ResetDaily, Book!Keys, BookFacts!Keys
  <2>3. BookFacts!BookInv'
    BY <2>2, BacktestAssumption, BookFacts!ResetKeepsBook DEF TypeInv
  <2> QED BY <2>1, <2>3, Bounds DEF TypeInv
<1>6. CASE UNCHANGED vars
  BY <1>6 DEF vars, bookVars, paperVars, engineVars, TypeInv, BookFacts!BookInv,
              BookFacts!TypeOK, BookFacts!BookConsistent
<1> QED BY <1>1, <1>2, <1>3, <1>4, <1>5, <1>6 DEF Next

(* The invariant implies the type invariant of the run.                    *)
LEMMA Typed == TypeInv /\ ShapeInv /\ CalendarLasts => TypeOK
<1> SUFFICES ASSUME TypeInv, ShapeInv, CalendarLasts PROVE TypeOK
  OBVIOUS
<1>1. \A s \in Symbols : ledger[s].qty # 0 => ledger[s].avg > 0 /\ ltps[s] > 0
  BY DEF TypeInv, IsPriced
<1>2. Book!TypeOK
  BY DEF TypeInv, BookFacts!BookInv, BookFacts!TypeOK, Book!TypeOK, Book!Keys, BookFacts!Keys,
         Book!Position, BookFacts!Position
<1>3. \A tok \in Tokens : started[tok] # 0 <=> Key(tok) \in DOMAIN positions
  BY DEF ShapeInv
<1>4. expiry \in Dates /\ day <= expiry
  BY ExpiryAfterDay DEF ShapeInv
<1> QED BY <1>1, <1>2, <1>3, <1>4 DEF TypeInv, TypeOK

(* Every variable of a backtest keeps its type: what the paper broker      *)
(* holds has a positive average and last price, however it was slipped and *)
(* reversed, the trade history stays within its bound, and the expiry is a *)
(* date of the calendar, not before the day.                               *)
THEOREM BacktestTypeCorrect == Spec /\ []CalendarLasts => []TypeOK
<1>1. TypeInv /\ ShapeInv /\ [Next]_vars => TypeInv'
  BY TypeStep
<1> QED BY <1>1, TypeInit, Typed, ShapeHolds, PTL DEF Spec
-----------------------------------------------------------------------------
(* The counts of the days.                                                 *)
Counts == [n \in DOMAIN report |-> report[n].count]
Counted == SumFunctionOnSet(Counts, DOMAIN report)

CountInv ==
    /\ minute = Minutes + 1 => legs = <<>>
    /\ dayStart \in Nat
    /\ \A n \in DOMAIN report : report[n].count \in Int
    /\ fills <= MaxHistory =>
           /\ Len(trades) = fills
           /\ Counted = IF minute = Minutes + 1 THEN fills ELSE dayStart

(* The counts of a list with one more row add up to the old sum and the    *)
(* new row's count.                                                        *)
LEMMA CountsAppended ==
    ASSUME NEW s, IsList(s), \A n \in 1..Len(s) : s[n].count \in Int,
           NEW x, x.count \in Int, NEW t, t = Append(s, x)
    PROVE  /\ \A n \in DOMAIN t : t[n].count \in Int
           /\ SumFunctionOnSet([n \in DOMAIN t |-> t[n].count], DOMAIN t)
                = SumFunctionOnSet([n \in DOMAIN s |-> s[n].count], DOMAIN s) + x.count
<1> DEFINE L == Len(s)
           f == [n \in DOMAIN s |-> s[n].count]
           g == [n \in DOMAIN t |-> t[n].count]
<1>1. /\ IsList(t) /\ Len(t) = L + 1 /\ \A n \in 1..L : t[n] = s[n]
      /\ t[L + 1] = x /\ L \in Nat
  BY AppendedList DEF IsList
<1>2. DOMAIN t = 1..L + 1 /\ DOMAIN s = 1..L
  BY <1>1, Zenon DEF IsList
<1>3. \A n \in DOMAIN t : t[n].count \in Int
  <2> SUFFICES ASSUME NEW n \in 1..L + 1 PROVE t[n].count \in Int
    BY <1>2
  <2>1. n \in 1..L \/ n = L + 1
    BY <1>1
  <2> QED BY <1>1, <2>1
<1>4. (\A n \in 1..L + 1 : g[n] \in Int) /\ g[L + 1] = x.count /\ \A n \in 1..L : g[n] = f[n]
  <2>1. \A n \in 1..L + 1 : g[n] = t[n].count
    BY <1>2
  <2>2. \A n \in 1..L : f[n] = s[n].count
    BY <1>2
  <2>3. L + 1 \in 1..L + 1 /\ \A n \in 1..L : n \in 1..L + 1
    BY <1>1
  <2> QED BY <1>1, <1>2, <1>3, <2>1, <2>2, <2>3
<1> HIDE DEF f, g
<1>5. IsFiniteSet(1..L) /\ IsFiniteSet(1..L + 1) /\ L + 1 \in 1..L + 1
      /\ (1..L + 1) \ {L + 1} = 1..L
  <2>1. IsFiniteSet(1..L) /\ IsFiniteSet(1..L + 1)
    BY <1>1, FS_Interval
  <2> QED BY <1>1, <2>1
<1>6. SumFunctionOnSet(g, 1..L + 1) = x.count + SumFunctionOnSet(g, 1..L)
  <2>1. PICK D, E, y : D = 1..L + 1 /\ E = 1..L /\ y = L + 1
    OBVIOUS
  <2>2. IsFiniteSet(D) /\ y \in D /\ D \ {y} = E /\ g[y] = x.count /\ \A n \in D : g[n] \in Int
    BY <1>4, <1>5, <2>1
  <2>3. SumFunctionOnSet(g, D) = g[y] + SumFunctionOnSet(g, D \ {y})
    BY <2>2, SumRemove
  <2> QED BY <2>1, <2>2, <2>3
<1>7. SumFunctionOnSet(g, 1..L) = SumFunctionOnSet(f, 1..L)
  BY <1>4, <1>5, SumSame
<1>8. SumFunctionOnSet(f, 1..L) \in Int
  <2>1. \A n \in 1..L : f[n] \in Int
    BY <1>1, <1>4
  <2> QED BY <1>5, <2>1, SumInt
<1>9. SumFunctionOnSet(g, DOMAIN t) = SumFunctionOnSet(f, DOMAIN s) + x.count
  BY <1>2, <1>6, <1>7, <1>8
<1> QED BY <1>3, <1>9 DEF f, g

(* No row has been written before the first day.                           *)
LEMMA CountInit == Init => CountInv
<1> SUFFICES ASSUME Init PROVE CountInv
  OBVIOUS
<1>1. legs = <<>> /\ report = <<>> /\ dayStart = 0 /\ fills = 0 /\ trades = <<>> /\ minute = 0
  BY DEF Init, Book!Init, PaperInit
<1>2. DOMAIN report = {} /\ Len(trades) = 0
  BY <1>1
<1>3. Counted = 0
  BY <1>2, SumEmpty, Zenon DEF Counted
<1> QED BY <1>1, <1>2, <1>3, Bounds DEF CountInv

(* A filled order adds one trade and one fill.                             *)
LEMMA ExecuteCounts ==
    ASSUME TypeInv, ExecuteLeg
    PROVE  /\ fills' = fills + 1 /\ UNCHANGED <<report, dayStart, minute>>
           /\ Len(trades) + 1 <= MaxHistory => Len(trades') = Len(trades) + 1
<1>1. PICK leg : leg = Head(legs)
  OBVIOUS
<1>2. PICK price : price = SimulateFill(feed[leg.tok], leg.side)
  OBVIOUS
<1>3. /\ UNCHANGED <<report, dayStart, minute>>
      /\ PlaceOrder(leg.symbol, leg.side, leg.qty, price)
      /\ Book!OnOrderFilled(Key(leg.tok), leg.side, leg.qty, price)
  BY <1>1, <1>2, Zenon DEF ExecuteLeg
<1>4. fills' = fills + 1
  BY <1>3, Zenon DEF Book!OnOrderFilled, Book!RecordFill
<1>5. PICK t : trades' = Recent(Append(trades, t))
  BY <1>3 DEF PlaceOrder
<1>6. PICK h : h = Append(trades, t)
  OBVIOUS
<1>7. Len(h) = Len(trades) + 1 /\ Len(trades) \in Nat
  BY <1>6, AppendedList DEF TypeInv, IsList
<1>8. Len(trades) + 1 <= MaxHistory => trades' = h
  BY <1>5, <1>6, <1>7, Bounds DEF Recent
<1> QED BY <1>3, <1>4, <1>7, <1>8

(* A row of the report counts the day's trades, and these are then counted *)
(* anew.                                                                   *)
LEMMA CountStep ==
    ASSUME TypeInv, CountInv, [Next]_vars
    PROVE  CountInv'
<1>0. fills \in Nat /\ minute \in 0..Minutes + 1 /\ Minutes \in Nat /\ MaxHistory \in Nat
      /\ IsList(trades) /\ Len(trades) \in Nat /\ IsList(report) /\ DOMAIN report = 1..Len(report)
  <2>1. fills \in Nat
    BY DEF TypeInv, BookFacts!BookInv, BookFacts!TypeOK
  <2>2. IsList(report) /\ IsList(trades) /\ Len(trades) \in Nat
    BY DEF TypeInv, IsList
  <2>3. DOMAIN report = 1..Len(report)
    BY <2>2, Zenon DEF IsList
  <2> QED BY <2>1, <2>2, <2>3, Bounds DEF TypeInv
<1>1. ASSUME \/ \E market \in Markets, signal \in Signals, kept \in BOOLEAN :
                    Minute(market, signal, kept)
             \/ SkipLeg
             \/ UNCHANGED vars
      PROVE  CountInv'
  <2>1. UNCHANGED <<trades, fills, report, dayStart>>
    BY <1>1 DEF Minute, SkipLeg, vars, paperVars, bookVars, engineVars
  <2>2. /\ minute' = Minutes + 1 <=> minute = Minutes + 1
        /\ minute' = Minutes + 1 => legs' = <<>>
    <3>1. CASE SkipLeg
      BY <3>1 DEF SkipLeg, CountInv
    <3>2. CASE UNCHANGED vars
      BY <3>2 DEF vars, engineVars, CountInv
    <3>3. CASE \E market \in Markets, signal \in Signals, kept \in BOOLEAN :
                    Minute(market, signal, kept)
      <4>1. minute' = minute + 1 /\ minute < Minutes
        BY <3>3 DEF Minute
      <4> QED BY <1>0, <4>1
    <3> QED BY <1>1, <3>1, <3>2, <3>3
  <2> QED BY <2>1, <2>2 DEF CountInv, Counted, Counts
<1>2. CASE ExecuteLeg
  <2>1. /\ fills' = fills + 1 /\ UNCHANGED <<report, dayStart, minute>>
        /\ Len(trades) + 1 <= MaxHistory => Len(trades') = Len(trades) + 1
    BY <1>2, ExecuteCounts
  <2>2. Counted' = Counted
    BY <2>1 DEF Counted, Counts
  <2>3. minute # Minutes + 1
    BY <1>2 DEF ExecuteLeg, CountInv
  <2> QED BY <1>0, <2>1, <2>2, <2>3 DEF CountInv
<1>3. CASE EndDay
  <2>1. /\ minute' = Minutes + 1 /\ minute = Minutes
        /\ UNCHANGED <<trades, fills, dayStart, legs>> /\ legs = <<>>
    BY <1>3 DEF EndDay, bookVars, paperVars
  <2> DEFINE row == [pnl |-> NetPnl, equity |-> running', count |-> Len(trades) - dayStart]
  <2>2. report' = Append(report, row)
    BY <1>3, Zenon DEF EndDay
  <2>3. row.count = Len(trades) - dayStart /\ row.count \in Int
    BY <1>0 DEF CountInv
  <2> HIDE DEF row
  <2>4. /\ \A n \in DOMAIN report' : report'[n].count \in Int
        /\ Counted' = Counted + row.count
    <3>1. PICK r, q : r = report' /\ q = report
      OBVIOUS
    <3>2. /\ \A n \in DOMAIN r : r[n].count \in Int
          /\ SumFunctionOnSet([n \in DOMAIN r |-> r[n].count], DOMAIN r)
                = SumFunctionOnSet([n \in DOMAIN q |-> q[n].count], DOMAIN q) + row.count
      BY <1>0, <2>2, <2>3, <3>1, CountsAppended DEF CountInv
    <3> QED BY <3>1, <3>2 DEF Counted, Counts
  <2>5. minute # Minutes + 1
    BY <1>0, <2>1
  <2> QED BY <1>0, <2>1, <2>3, <2>4, <2>5 DEF CountInv
<1>4. CASE StartDay
  <2>1. /\ minute' = 0 /\ minute = Minutes + 1 /\ UNCHANGED <<trades, report, fills>>
        /\ dayStart' = Len(trades)
    BY <1>4 DEF StartDay, ResetDay, Book!ResetDaily, paperVars
  <2>2. Counted' = Counted
    BY <2>1 DEF Counted, Counts
  <2> QED BY <1>0, <2>1, <2>2 DEF CountInv
<1> QED BY <1>1, <1>2, <1>3, <1>4 DEF Next
-----------------------------------------------------------------------------
(* Every average is whole: of the book and of the paper broker, for the    *)
(* order that is executed next.                                            *)
NextFill(leg) == FillPrice(leg.symbol, leg.side, SimulateFill(feed[leg.tok], leg.side))

WholeEntry(pos, delta, price) ==
    pos.qty # 0 /\ (pos.qty > 0 <=> delta > 0) =>
        UpdatePosition(pos, delta, price).avg * Magnitude(pos.qty + delta)
            = Magnitude(pos.qty) * pos.avg + Magnitude(delta) * price

WholeAverages ==
    legs # <<>> /\ feed[Head(legs).tok] > 0 =>
        /\ BookFacts!WholeAverage(BookFacts!Held(Key(Head(legs).tok)),
                                  BookFacts!SignedQty(Head(legs).side, Head(legs).qty),
                                  SimulateFill(feed[Head(legs).tok], Head(legs).side))
        /\ WholeEntry(ledger[Head(legs).symbol], Signed(Head(legs).side, Head(legs).qty),
                      NextFill(Head(legs)))

(* The money of the round trips since the reset and of what is open.       *)
Balance == [k \in Book!Keys |-> cash[k] + banked[k]]
Balanced == SumFunctionOnSet(Balance, Book!Keys)

(* No key is trimmed from the archive; it has the keys closed since the    *)
(* reset.                                                                  *)
ArchiveInv == \A k \in Book!Keys : k \in DOMAIN closed <=> trips[k] > 0

ReportInv ==
    /\ BookFacts!MoneyInv
    /\ ArchiveInv
    /\ {money, paid, charges, running} \subseteq Int
    /\ clean /\ minute # Minutes + 1 => running = (money - Balanced) - (paid - charges)
    /\ clean /\ minute = Minutes + 1 => running = money - paid /\ DOMAIN positions = {}

(* The book's keys are the strikes of the one strategy.                    *)
LEMMA KeysFinite ==
    IsFiniteSet(Book!Keys) /\ Cardinality(Book!Keys) = Cardinality(Tokens)
<1>1. IsFiniteSet(Tokens) /\ IsFiniteSet({S}) /\ Cardinality({S}) = 1
  BY BacktestAssumption, FS_Singleton
<1>2. IsFiniteSet({S} \X Tokens) /\ Cardinality({S} \X Tokens) = 1 * Cardinality(Tokens)
  BY <1>1, FS_Product
<1>3. Cardinality(Tokens) \in Nat
  BY <1>1, FS_CardinalityType
<1> QED BY <1>2, <1>3 DEF Book!Keys

(* Charges are a whole number of units.                                    *)
LEMMA ChargesInt ==
    ASSUME NEW turnover \in Int, NEW side \in {"BUY", "SELL"}
    PROVE  ChargesOf(turnover, side) \in Int
<1>1. BrokerageCap \in Int /\ LevyOn[side] \in Nat \ {0}
  BY BacktestAssumption
<1> DEFINE a == turnover \div 100
           b == turnover \div LevyOn[side]
<1>2. a \in Int /\ b \in Int
  BY <1>1
<1> HIDE DEF a, b
<1>3. Min({a, BrokerageCap}) \in Int
  <2>1. \E x \in {a, BrokerageCap} : \A y \in {a, BrokerageCap} : x <= y
    BY <1>1, <1>2
  <2>2. Min({a, BrokerageCap}) \in {a, BrokerageCap}
    BY <2>1, Zenon DEF Min
  <2> QED BY <1>1, <1>2, <2>2
<1> QED BY <1>2, <1>3 DEF ChargesOf, a, b

(* Closing a key trims no other from an archive with room for all keys.    *)
LEMMA NothingTrimmed ==
    ASSUME BookFacts!BookInv, Cardinality(Tokens) <= MaxClosed, NEW k \in Book!Keys,
           NEW pos, BookFacts!Archive(k, pos)
    PROVE  DOMAIN closed' = DOMAIN closed \cup {k}
<1> DEFINE order == BookFacts!ArchiveOrder(k)
<1>1. /\ closedOrder \in Seq(Book!Keys) /\ DOMAIN closed \subseteq Book!Keys
      /\ \A x \in DOMAIN closed : \E i \in 1..Len(closedOrder) : closedOrder[i] = x
      /\ \A i \in 1..Len(closedOrder) : closedOrder[i] \in DOMAIN closed
      /\ \A i, j \in 1..Len(closedOrder) : closedOrder[i] = closedOrder[j] => i = j
  BY DEF BookFacts!BookInv, BookFacts!TypeOK, BookFacts!BookConsistent, BookFacts!Keys, Book!Keys
<1>2. /\ order \in Seq(Book!Keys)
      /\ \A i, j \in 1..Len(order) : order[i] = order[j] => i = j
  <2>1. CASE k \in DOMAIN closed
    BY <1>1, <2>1 DEF BookFacts!ArchiveOrder
  <2>2. CASE k \notin DOMAIN closed
    <3>1. order = Append(closedOrder, k)
      BY <2>2 DEF BookFacts!ArchiveOrder
    <3> HIDE DEF order
    <3>2. /\ order \in Seq(Book!Keys) /\ Len(order) = Len(closedOrder) + 1
          /\ \A i \in 1..Len(closedOrder) : order[i] = closedOrder[i]
          /\ order[Len(closedOrder) + 1] = k /\ Len(closedOrder) \in Nat
      BY <1>1, <3>1
    <3>3. ASSUME NEW i \in 1..Len(order), NEW j \in 1..Len(order), order[i] = order[j]
          PROVE  i = j
      <4>1. /\ i \in 1..Len(closedOrder) \/ i = Len(closedOrder) + 1
            /\ j \in 1..Len(closedOrder) \/ j = Len(closedOrder) + 1
        BY <3>2
      <4>2. \A n \in 1..Len(closedOrder) : closedOrder[n] # k
        BY <1>1, <2>2
      <4> QED BY <1>1, <3>2, <3>3, <4>1, <4>2
    <3> QED BY <3>2, <3>3
  <2> QED BY <2>1, <2>2
<1> HIDE DEF order
<1>3. Len(order) \in Nat /\ Len(order) <= Cardinality(Book!Keys)
  <2> DEFINE N == 1..Len(order)
             f == [i \in N |-> order[i]]
  <2>1. Len(order) \in Nat /\ \A i \in N : order[i] \in Book!Keys
    BY <1>2
  <2>2. f \in Injection(N, Book!Keys)
    <3>1. f \in [N -> Book!Keys] /\ DOMAIN f = N /\ \A i \in N : f[i] = order[i]
      BY <2>1
    <3>2. \A i, j \in N : order[i] = order[j] => i = j
      BY <1>2
    <3> HIDE DEF f, N
    <3> QED BY <3>1, <3>2 DEF Injection, IsInjective
  <2>3. Cardinality(N) = Len(order)
    <3>1. PICK n \in Nat : n = Len(order)
      BY <2>1
    <3>2. Cardinality(1..n) = IF 1 > n THEN 0 ELSE n - 1 + 1
      BY FS_Interval
    <3>3. Cardinality(1..n) = n
      BY <3>2
    <3> QED BY <3>1, <3>3
  <2> HIDE DEF N, f
  <2>4. Cardinality(N) <= Cardinality(Book!Keys)
    BY <2>2, KeysFinite, FS_Injection
  <2> QED BY <2>1, <2>3, <2>4
<1>4. ~(Len(order) > MaxClosed)
  <2>1. Cardinality(Tokens) \in Nat /\ MaxClosed \in Nat
    BY BacktestAssumption, FS_CardinalityType
  <2> QED BY <1>3, <2>1, KeysFinite
<1>5. closed' = [x \in (DOMAIN closed \cup {k}) \ {} |-> IF x = k THEN pos.pnl ELSE closed[x]]
  BY <1>4, Zenon DEF BookFacts!Archive, order
<1> QED BY <1>5

(* What one order does to the money.                                       *)
LEMMA FillMoney ==
    ASSUME BookFacts!BookInv, BookFacts!MoneyInv, ArchiveInv, Cardinality(Tokens) <= MaxClosed,
           NEW k \in Book!Keys, NEW side \in BookFacts!Sides, NEW qty \in Qtys,
           NEW price \in Int, BookFacts!OnOrderFilled(k, side, qty, price),
           BookFacts!WholeAverage(BookFacts!Held(k), BookFacts!SignedQty(side, qty), price)
    PROVE  /\ BookFacts!MoneyInv' /\ ArchiveInv'
           /\ Balanced \in Int
           /\ Balanced' = Balanced - BookFacts!SignedQty(side, qty) * price
<1>1. k \in BookFacts!Keys /\ BookFacts!Keys = Book!Keys
  BY DEF BookFacts!Keys, Book!Keys
<1>2. BookFacts!MoneyInv'
  BY <1>1, BacktestAssumption, BookFacts!FillKeepsMoney
<1>3. PICK delta \in Int : delta = BookFacts!SignedQty(side, qty)
  BY BacktestAssumption, BookFacts!SignedQtyNonZero
<1>4. PICK spent \in Int : spent = delta * price
  BY <1>3
<1>5. PICK flat : flat = (BookFacts!Held(k).qty + delta = 0)
  OBVIOUS
<1>6. PICK pos : pos = BookFacts!Filled(BookFacts!Held(k), delta, price)
  OBVIOUS
<1>7. /\ BookFacts!UpdateFromFill(k, side, qty, price)
      /\ BookFacts!RecordFill(k, delta, price)
  BY <1>3, Zenon DEF BookFacts!OnOrderFilled
<1>8. /\ cash' = [cash EXCEPT ![k] = IF flat THEN 0 ELSE cash[k] - spent]
      /\ banked' = [banked EXCEPT ![k] = IF flat THEN banked[k] + (cash[k] - spent) ELSE banked[k]]
      /\ trips' = [trips EXCEPT ![k] = IF flat THEN trips[k] + 1 ELSE trips[k]]
  BY <1>4, <1>5, <1>7 DEF BookFacts!RecordFill
<1>9. cash \in [Book!Keys -> Int] /\ banked \in [Book!Keys -> Int] /\ trips \in [Book!Keys -> Nat]
  BY <1>1 DEF BookFacts!BookInv, BookFacts!TypeOK
<1>10. pos.qty = BookFacts!Held(k).qty + delta
  BY <1>6 DEF BookFacts!Filled
<1>11. ArchiveInv'
  <2>1. CASE pos.qty = 0
    <3>1. BookFacts!Archive(k, pos)
      BY <1>3, <1>6, <1>7, <2>1, Zenon DEF BookFacts!UpdateFromFill
    <3>2. DOMAIN closed' = DOMAIN closed \cup {k}
      BY <3>1, NothingTrimmed
    <3>3. trips'[k] > 0 /\ \A x \in Book!Keys \ {k} : trips'[x] = trips[x]
      <4>1. flat
        BY <1>5, <1>10, <2>1
      <4>2. trips' = [trips EXCEPT ![k] = trips[k] + 1]
        BY <1>8, <4>1
      <4> QED BY <1>9, <4>2
    <3> QED BY <3>2, <3>3 DEF ArchiveInv
  <2>2. CASE pos.qty # 0
    <3>1. closed' = closed
      BY <1>3, <1>6, <1>7, <2>2, Zenon DEF BookFacts!UpdateFromFill
    <3>2. trips' = trips
      BY <1>5, <1>8, <1>9, <1>10, <2>2
    <3> QED BY <3>1, <3>2 DEF ArchiveInv
  <2> QED BY <2>1, <2>2
<1>12. Balanced \in Int /\ Balanced' = Balanced - spent
  <2>1. PICK f, g : f = Balance /\ g = Balance'
    OBVIOUS
  <2>2. \A x \in Book!Keys : f[x] = cash[x] + banked[x] /\ g[x] = cash'[x] + banked'[x]
    BY <2>1 DEF Balance
  <2>3. \A x \in Book!Keys \ {k} : g[x] = f[x]
    <3>1. \A x \in Book!Keys \ {k} : cash'[x] = cash[x] /\ banked'[x] = banked[x]
      BY <1>8, <1>9
    <3> QED BY <2>2, <3>1
  <2>4. g[k] = f[k] + (-spent)
    <3>1. /\ cash'[k] = IF flat THEN 0 ELSE cash[k] - spent
          /\ banked'[k] = IF flat THEN banked[k] + (cash[k] - spent) ELSE banked[k]
          /\ cash[k] \in Int /\ banked[k] \in Int
      BY <1>8, <1>9
    <3>2. f[k] = cash[k] + banked[k] /\ g[k] = cash'[k] + banked'[k]
      BY <2>2
    <3> QED BY <3>1, <3>2
  <2>5. \A x \in Book!Keys : f[x] \in Int
    BY <1>9, <2>2
  <2>6. \A x \in Book!Keys : g[x] \in Int
    <3>1. f[k] + (-spent) \in Int
      BY <2>5
    <3> QED BY <2>3, <2>4, <2>5, <3>1
  <2>7. IsFiniteSet(Book!Keys) /\ -spent \in Int
    BY KeysFinite
  <2>8. SumFunctionOnSet(f, Book!Keys) \in Int
    BY <2>5, <2>7, SumInt
  <2>9. SumFunctionOnSet(g, Book!Keys) = SumFunctionOnSet(f, Book!Keys) + (-spent)
    BY <2>3, <2>4, <2>5, <2>6, <2>7, SumMoves
  <2>10. Balanced = SumFunctionOnSet(f, Book!Keys) /\ Balanced' = SumFunctionOnSet(g, Book!Keys)
    <3>1. Book!Keys' = Book!Keys
      BY DEF Book!Keys
    <3> QED BY <2>1, <3>1, Zenon DEF Balanced
  <2> QED BY <2>8, <2>9, <2>10
<1> QED BY <1>2, <1>3, <1>4, <1>11, <1>12

(* A leg moves money, what was paid in charges, and the book's account     *)
(* together.                                                               *)
LEMMA ExecuteMoney ==
    ASSUME TypeInv, ShapeInv, CountInv, ReportInv, WholeAverages, ExecuteLeg,
           Cardinality(Tokens) <= MaxClosed
    PROVE  ReportInv'
<1>1. PICK leg : leg = Head(legs)
  OBVIOUS
<1>2. leg \in Orders /\ leg.tok \in Tokens
  BY <1>1, ExecuteMoves
<1>3. leg.side \in BookFacts!Sides /\ leg.side \in {"BUY", "SELL"} /\ leg.qty \in Qtys
  BY <1>2 DEF Orders, BookFacts!Sides
<1>4. PICK price : price = SimulateFill(feed[leg.tok], leg.side)
  OBVIOUS
<1>5. /\ feed[leg.tok] > 0 /\ legs # <<>>
      /\ Book!OnOrderFilled(Key(leg.tok), leg.side, leg.qty, price)
      /\ charges' = charges + ChargesOf(leg.qty * price, leg.side)
      /\ RecordLeg(leg, price)
      /\ UNCHANGED <<minute, running>>
  BY <1>1, <1>4, Zenon DEF ExecuteLeg
<1>6. price \in Int
  <2>1. PICK f \in Nat \ {0} : f = feed[leg.tok]
    BY <1>2, <1>5 DEF TypeInv
  <2> QED BY <1>4, <2>1, SlippedPositive
<1>7. PICK k \in Book!Keys : k = Key(leg.tok)
  BY <1>2 DEF Key, Book!Keys
<1>8. PICK side \in BookFacts!Sides, qty \in Qtys : side = leg.side /\ qty = leg.qty
  BY <1>3
<1>9. BookFacts!OnOrderFilled(k, side, qty, price)
  BY <1>5, <1>7, <1>8, SameFill
<1>10. BookFacts!WholeAverage(BookFacts!Held(k), BookFacts!SignedQty(side, qty), price)
  BY <1>1, <1>4, <1>5, <1>7, <1>8 DEF WholeAverages
<1>11. PICK delta \in Int : delta = BookFacts!SignedQty(side, qty) /\ delta = Signed(leg.side, leg.qty)
  BY <1>8, BacktestAssumption, BookFacts!SignedQtyNonZero DEF BookFacts!SignedQty, Signed
<1>12. PICK spent \in Int : spent = delta * price
  BY <1>6, <1>11
<1>13. /\ BookFacts!MoneyInv' /\ ArchiveInv'
       /\ Balanced \in Int /\ Balanced' = Balanced - spent
  <2>1. BookFacts!BookInv /\ BookFacts!MoneyInv /\ ArchiveInv
    BY DEF TypeInv, ReportInv
  <2> QED BY <1>6, <1>9, <1>10, <1>11, <1>12, <2>1, FillMoney
<1>14. PICK fee \in Int : fee = ChargesOf(leg.qty * price, leg.side)
  <2>1. leg.qty * price \in Int
    <3>1. qty \in Int
      BY BacktestAssumption
    <3>2. qty * price \in Int
      BY <1>6, <3>1
    <3> QED BY <1>8, <3>2
  <2> QED BY <1>3, <2>1, ChargesInt
<1>15. /\ money' = money - spent /\ paid' = paid + fee /\ charges' = charges + fee
       /\ UNCHANGED <<minute, running, clean>>
  BY <1>5, <1>11, <1>12, <1>14 DEF RecordLeg
<1>16. minute # Minutes + 1
  BY <1>5 DEF CountInv
<1>17. {money, paid, charges, running} \subseteq Int
       /\ (clean => running = (money - Balanced) - (paid - charges))
  BY <1>16 DEF ReportInv
<1>18. {money', paid', charges', running'} \subseteq Int
       /\ (clean' => running' = (money' - Balanced') - (paid' - charges'))
  BY <1>13, <1>15, <1>17
<1> QED BY <1>13, <1>15, <1>16, <1>18 DEF ReportInv
-----------------------------------------------------------------------------
(* A day that ends flat, with one round trip a key, reports its money.     *)
LEMMA PnlInt ==
    ASSUME BookFacts!BookInv, charges \in Int
    PROVE  NetPnl \in Int
<1>1. /\ DOMAIN closed \subseteq Book!Keys /\ DOMAIN positions \subseteq Book!Keys
      /\ \A k \in DOMAIN closed : closed[k] \in Int
      /\ \A k \in DOMAIN positions : positions[k] \in [qty : Int, avg : Int, pnl : Int, ltp : Int]
  BY DEF BookFacts!BookInv, BookFacts!TypeOK, BookFacts!Keys, Book!Keys, BookFacts!Position
<1>2. IsFiniteSet(DOMAIN closed) /\ IsFiniteSet(Visible)
  BY <1>1, KeysFinite, FS_Subset DEF Visible
<1> DEFINE f == [k \in Visible |-> positions[k].pnl + Marked(positions[k])]
<1>3. ASSUME NEW k \in Visible PROVE f[k] \in Int
  <2>1. PICK pos \in [qty : Int, avg : Int, pnl : Int, ltp : Int] : pos = positions[k]
    BY <1>1 DEF Visible
  <2>2. Marked(pos) \in Int
    <3>1. pos.qty * (pos.ltp - pos.avg) \in Int
      BY <2>1
    <3>2. Book!Abs(pos.qty) * (pos.avg - pos.ltp) \in Int
      <4>1. Book!Abs(pos.qty) \in Int
        BY <2>1 DEF Book!Abs
      <4> QED BY <2>1, <4>1
    <3>3. 0 \in Int
      OBVIOUS
    <3> QED BY <3>1, <3>2, <3>3, Zenon DEF Marked, Book!Unrealized
  <2>3. pos.pnl + Marked(pos) \in Int
    BY <2>1, <2>2
  <2> QED BY <2>1, <2>3
<1> HIDE DEF f
<1>4. SumFunctionOnSet(f, Visible) \in Int /\ SumFunctionOnSet(closed, DOMAIN closed) \in Int
  BY <1>1, <1>2, <1>3, SumInt
<1>5. NetPnl = SumFunctionOnSet(closed, DOMAIN closed) + SumFunctionOnSet(f, Visible) - charges
  BY Zenon DEF NetPnl, f
<1> QED BY <1>4, <1>5

(* A day that ends flat: the book's realized P&L is the money of the day.  *)
LEMMA FlatDay ==
    ASSUME BookFacts!BookInv, BookFacts!MoneyInv, ArchiveInv, charges \in Int,
           DOMAIN positions = {}, \A k \in Book!Keys : trips[k] <= 1
    PROVE  Balanced \in Int /\ NetPnl = Balanced - charges
<1>1. /\ DOMAIN closed \subseteq Book!Keys /\ BookFacts!Keys = Book!Keys
      /\ cash \in [Book!Keys -> Int] /\ banked \in [Book!Keys -> Int]
      /\ trips \in [Book!Keys -> Nat]
  BY DEF BookFacts!BookInv, BookFacts!TypeOK, BookFacts!Keys, Book!Keys
<1>2. PICK f, D, K : f = Balance /\ D = DOMAIN closed /\ K = Book!Keys
  OBVIOUS
<1>3. \A k \in K : f[k] = cash[k] + banked[k]
  BY <1>2 DEF Balance
<1>4. \A k \in K : cash[k] = 0
  BY <1>1, <1>2 DEF BookFacts!MoneyInv
<1>5. \A k \in D : closed[k] = f[k]
  <2> SUFFICES ASSUME NEW k \in D PROVE closed[k] = f[k]
    OBVIOUS
  <2>1. k \in Book!Keys /\ trips[k] = 1
    BY <1>1, <1>2 DEF ArchiveInv
  <2>2. closed[k] = banked[k]
    BY <1>1, <1>2, <2>1 DEF BookFacts!MoneyInv
  <2> QED BY <1>1, <1>2, <1>3, <1>4, <2>1, <2>2
<1>6. \A k \in K \ D : f[k] = 0
  <2> SUFFICES ASSUME NEW k \in K \ D PROVE f[k] = 0
    OBVIOUS
  <2>1. trips[k] = 0
    BY <1>1, <1>2 DEF ArchiveInv
  <2>2. banked[k] = 0
    BY <1>1, <1>2, <2>1 DEF BookFacts!MoneyInv
  <2> QED BY <1>3, <1>4, <2>2
<1>7. /\ \A k \in K : f[k] \in Int
      /\ IsFiniteSet(K) /\ D \in SUBSET K /\ IsFiniteSet(D) /\ IsFiniteSet(K \ D)
  <2>1. \A k \in K : f[k] \in Int
    BY <1>1, <1>2, <1>3
  <2> QED BY <1>1, <1>2, <2>1, KeysFinite, FS_Subset
<1>8. SumFunctionOnSet(f, K) = SumFunctionOnSet(f, D) + SumFunctionOnSet(f, K \ D)
  BY <1>7, SumSplit
<1>9. SumFunctionOnSet(f, K \ D) = 0
  BY <1>6, <1>7, SumZero
<1>10. SumFunctionOnSet(closed, D) = SumFunctionOnSet(f, D)
  BY <1>5, <1>7, SumSame
<1>11. SumFunctionOnSet(f, K) \in Int /\ SumFunctionOnSet(f, D) \in Int
  BY <1>7, SumInt
<1>12. Visible = {}
  BY DEF Visible
<1>13. SumFunctionOnSet([k \in Visible |-> positions[k].pnl + Marked(positions[k])], Visible) = 0
  BY <1>12, SumEmpty, Zenon
<1>14. NetPnl = SumFunctionOnSet(closed, DOMAIN closed) + 0 - charges
  BY <1>13, Zenon DEF NetPnl
<1>15. Balanced = SumFunctionOnSet(f, K)
  BY <1>2, Zenon DEF Balanced
<1> QED BY <1>2, <1>8, <1>9, <1>10, <1>11, <1>14, <1>15

(* The report accounts for nothing at the start.                           *)
LEMMA ReportInit == Init => ReportInv
<1> SUFFICES ASSUME Init PROVE ReportInv
  OBVIOUS
<1>1. /\ DOMAIN positions = {} /\ DOMAIN closed = {}
      /\ cash = [k \in Book!Keys |-> 0] /\ banked = [k \in Book!Keys |-> 0]
      /\ last = [k \in Book!Keys |-> 0] /\ trips = [k \in Book!Keys |-> 0]
      /\ charges = 0 /\ minute = 0
      /\ money = 0 /\ paid = 0 /\ running = 0 /\ BookFacts!Keys = Book!Keys
  BY DEF Init, Book!Init, BookFacts!Keys, Book!Keys
<1>2. BookFacts!MoneyInv /\ ArchiveInv
  BY <1>1 DEF BookFacts!MoneyInv, ArchiveInv
<1>3. Balanced = 0
  <2>1. \A k \in Book!Keys : Balance[k] = 0
    BY <1>1 DEF Balance
  <2> QED BY <2>1, KeysFinite, SumZero DEF Balanced
<1>4. minute # Minutes + 1
  BY <1>1, Bounds
<1> QED BY <1>1, <1>2, <1>3, <1>4 DEF ReportInv

(* Every step keeps the account of the report: legs by the book's lemmas   *)
(* on money, the end of a day by those on flat days.                       *)
LEMMA ReportStep ==
    ASSUME TypeInv, ShapeInv, CountInv, ReportInv, WholeAverages, [Next]_vars,
           Cardinality(Tokens) <= MaxClosed
    PROVE  ReportInv'
<1>0. /\ BookFacts!BookInv /\ BookFacts!MoneyInv /\ ArchiveInv
      /\ money \in Int /\ paid \in Int /\ charges \in Int /\ running \in Int
      /\ minute \in 0..Minutes + 1 /\ Minutes \in Nat
  BY Bounds DEF TypeInv, ReportInv
<1>1. ASSUME NEW market \in Markets, NEW signal \in Signals, NEW kept \in BOOLEAN,
             Minute(market, signal, kept)
      PROVE  ReportInv'
  <2>1. /\ UNCHANGED <<closed, cash, banked, last, trips, charges, running, money, paid, clean>>
        /\ minute < Minutes /\ minute' = minute + 1
    BY <1>1 DEF Minute, pastVars
  <2>2. DOMAIN positions' = DOMAIN positions
    BY <1>1, MinuteMoves
  <2>3. BookFacts!MoneyInv'
    <3>1. \A k \in DOMAIN positions : BookFacts!Accounts(positions'[k], cash[k])
      <4> SUFFICES ASSUME NEW k \in DOMAIN positions
                   PROVE  BookFacts!Accounts(positions'[k], cash[k])
        OBVIOUS
      <4>1. positions[k] \in [qty : Int, avg : Int, pnl : Int, ltp : Int]
        BY <1>0 DEF BookFacts!BookInv, BookFacts!TypeOK, BookFacts!Position
      <4>2. PICK f : f = feed'[k[2]]
        OBVIOUS
      <4>3. positions'[k] = IF f = 0 THEN positions[k] ELSE [positions[k] EXCEPT !.ltp = f]
        BY <1>1, <4>2 DEF Minute
      <4>4. /\ positions'[k].qty = positions[k].qty /\ positions'[k].avg = positions[k].avg
            /\ positions'[k].pnl = positions[k].pnl
        BY <4>1, <4>3
      <4>5. BookFacts!Accounts(positions[k], cash[k])
        BY <1>0 DEF BookFacts!MoneyInv
      <4> QED BY <4>4, <4>5 DEF BookFacts!Accounts
    <3> QED BY <1>0, <2>1, <2>2, <3>1 DEF BookFacts!MoneyInv
  <2>4. minute # Minutes + 1 /\ minute' # Minutes + 1
    BY <1>0, <2>1
  <2>5. Balanced' = Balanced /\ Book!Keys' = Book!Keys
    BY <2>1 DEF Balanced, Balance, Book!Keys
  <2> QED BY <2>1, <2>3, <2>4, <2>5 DEF ReportInv, ArchiveInv
<1>2. CASE SkipLeg \/ UNCHANGED vars
  <2>1. UNCHANGED <<positions, closed, cash, banked, last, trips, charges, running, money, paid,
                    clean, minute>>
    BY <1>2 DEF SkipLeg, vars, bookVars, engineVars, pastVars
  <2>2. Balanced' = Balanced /\ Book!Keys' = Book!Keys
    BY <2>1 DEF Balanced, Balance, Book!Keys
  <2> QED BY <2>1, <2>2 DEF ReportInv, ArchiveInv, BookFacts!MoneyInv
<1>3. CASE ExecuteLeg
  BY <1>3, ExecuteMoney
<1>4. CASE EndDay
  <2>1. /\ UNCHANGED <<positions, closed, cash, banked, last, trips, charges, money, paid>>
        /\ minute = Minutes /\ minute' = Minutes + 1 /\ running' = running + NetPnl
        /\ clean' = (/\ clean /\ DOMAIN positions = {}
                      /\ \A k \in Book!Keys : trips[k] <= 1)
    BY <1>4 DEF EndDay, bookVars
  <2>2. NetPnl \in Int
    BY <1>0, PnlInt
  <2>3. ASSUME clean' PROVE running' = money - paid /\ DOMAIN positions = {}
    <3>1. Balanced \in Int /\ NetPnl = Balanced - charges
      <4>1. DOMAIN positions = {} /\ \A k \in Book!Keys : trips[k] <= 1
        BY <2>1, <2>3, Zenon
      <4> QED BY <1>0, <4>1, FlatDay
    <3>2. clean /\ minute # Minutes + 1 /\ DOMAIN positions = {}
      <4>1. minute # Minutes + 1
        BY <1>0, <2>1
      <4>2. clean /\ DOMAIN positions = {}
        BY <2>1, <2>3, Zenon
      <4> QED BY <4>1, <4>2
    <3>3. running = (money - Balanced) - (paid - charges)
      BY <3>2 DEF ReportInv
    <3> QED BY <1>0, <2>1, <3>1, <3>2, <3>3
  <2>4. BookFacts!MoneyInv' /\ ArchiveInv'
    BY <1>0, <2>1 DEF BookFacts!MoneyInv, ArchiveInv
  <2>5. running' \in Int
    BY <1>0, <2>1, <2>2
  <2> QED BY <1>0, <2>1, <2>3, <2>4, <2>5 DEF ReportInv
<1>5. CASE StartDay
  <2>1. /\ Book!ResetDaily /\ charges' = 0 /\ minute = Minutes + 1 /\ minute' = 0
        /\ UNCHANGED <<running, money, paid, clean>>
    BY <1>5 DEF StartDay, ResetDay, pastVars
  <2>2. /\ DOMAIN closed' = {} /\ banked' = [k \in Book!Keys |-> 0]
        /\ trips' = [k \in Book!Keys |-> 0] /\ UNCHANGED <<positions, cash, last>>
        /\ BookFacts!Keys = Book!Keys
    BY <2>1 DEF Book!ResetDaily, BookFacts!Keys, Book!Keys
  <2>3. BookFacts!MoneyInv' /\ ArchiveInv'
    BY <1>0, <2>2 DEF BookFacts!MoneyInv, ArchiveInv
  <2>4. ASSUME clean PROVE Balanced' = 0
    <3>1. DOMAIN positions = {}
      BY <2>1, <2>4 DEF ReportInv
    <3>2. \A k \in Book!Keys : cash'[k] + banked'[k] = 0
      BY <1>0, <2>2, <3>1 DEF BookFacts!MoneyInv
    <3>3. PICK g : g = Balance'
      OBVIOUS
    <3>4. Book!Keys' = Book!Keys /\ \A k \in Book!Keys : g[k] = 0
      BY <3>2, <3>3 DEF Balance, Book!Keys
    <3>5. SumFunctionOnSet(g, Book!Keys) = 0
      BY <3>4, KeysFinite, SumZero
    <3> QED BY <3>3, <3>4, <3>5, Zenon DEF Balanced
  <2>5. clean => running = money - paid
    BY <2>1 DEF ReportInv
  <2>6. minute' # Minutes + 1
    BY <1>0, <2>1
  <2>7. clean' => running' = (money' - Balanced') - (paid' - charges')
    BY <1>0, <2>1, <2>4, <2>5
  <2> QED BY <1>0, <2>1, <2>3, <2>6, <2>7 DEF ReportInv
<1> QED BY <1>1, <1>2, <1>3, <1>4, <1>5 DEF Next

(* The results of a backtest add up.  The archive must have room for every *)
(* instrument: a trimmed entry's P&L is lost to the day's report.          *)
THEOREM ReportAddsUp ==
    ASSUME Cardinality(Tokens) <= MaxClosed
    PROVE  Spec /\ []CalendarLasts /\ []WholeAverages => []ReportExact
<1>1. Spec /\ []CalendarLasts => []TypeInv
  <2>1. TypeInv /\ ShapeInv /\ [Next]_vars => TypeInv'
    BY TypeStep
  <2> QED BY <2>1, TypeInit, ShapeHolds, PTL DEF Spec
<1>2. TypeInv /\ CountInv /\ [Next]_vars => CountInv'
  BY CountStep
<1>3. TypeInv /\ ShapeInv /\ CountInv /\ ReportInv /\ WholeAverages /\ [Next]_vars => ReportInv'
  BY ReportStep
<1>4. CountInv /\ ReportInv => ReportExact
  BY DEF CountInv, ReportInv, ReportExact, Counted, Counts
<1> QED BY <1>1, <1>2, <1>3, <1>4, CountInit, ReportInit, ShapeHolds, PTL DEF Spec
-----------------------------------------------------------------------------
(* The fold of the trade history, unfolded.                                *)
NoLots == [lots |-> <<>>, pnl |-> 0]

MatchesOver(symbol, h, D, it) ==
    it = [s \in SUBSET D |-> IF s = {} THEN NoLots
                            ELSE Take(symbol, it[s \ {Max(s)}], h[Max(s)])]

(* The matching of a history is the library's fold over its indices,       *)
(* spelled out.                                                            *)
LEMMA MatchIs ==
    ASSUME NEW symbol, NEW h
    PROVE  Matching(symbol, h) = (CHOOSE it : MatchesOver(symbol, h, DOMAIN h, it))[DOMAIN h]
BY DEF Matching, FoldLeft, MapThenFoldSet, MatchesOver, NoLots

(* What a history is indexed by.                                          *)
IndexSet(D) == IsFiniteSet(D) /\ D \subseteq Nat

(* The greatest index the fold picks is one of the indices.                *)
LEMMA MaxIn ==
    ASSUME NEW D, IndexSet(D), NEW s \in SUBSET D, s # {}
    PROVE  Max(s) \in s /\ \A n \in s : n <= Max(s)
<1>1. IsFiniteSet(s) /\ s \subseteq Nat
  BY FS_Subset DEF IndexSet
<1>2. PICK x \in s : \A d \in s : d <= x
  BY <1>1, Greatest
<1>3. \A d \in s : x >= d
  <2>1. \A d \in s : x \in Nat /\ d \in Nat
    BY <1>1
  <2> QED BY <1>2, <2>1
<1>4. Max(s) \in s /\ \A d \in s : Max(s) >= d
  BY <1>3 DEF Max
<1>5. \A d \in s : Max(s) \in Nat /\ d \in Nat
  BY <1>1, <1>4
<1> QED BY <1>4, <1>5

(* What the iteration of the fold yields on a set of indices.              *)
LEMMA MatchesAt ==
    ASSUME NEW symbol, NEW h, NEW D, NEW it, MatchesOver(symbol, h, D, it), NEW s \in SUBSET D
    PROVE  /\ s = {} => it[s] = NoLots
           /\ s # {} => it[s] = Take(symbol, it[s \ {Max(s)}], h[Max(s)])
<1> DEFINE Body(u) == IF u = {} THEN NoLots ELSE Take(symbol, it[u \ {Max(u)}], h[Max(u)])
<1>1. it = [u \in SUBSET D |-> Body(u)]
  BY DEF MatchesOver
<1>2. it[s] = Body(s)
  <2> HIDE DEF Body
  <2> QED BY <1>1
<1> QED BY <1>2

(* Two iterations that agree with the fold's equation agree on every set   *)
(* of indices: a least set on which they differ has a smaller one.         *)
LEMMA MatchesAgree ==
    ASSUME NEW symbol, NEW D, IndexSet(D), NEW T \in SUBSET D,
           NEW h, NEW g, \A n \in T : h[n] = g[n],
           NEW it, MatchesOver(symbol, h, D, it), NEW jt, MatchesOver(symbol, g, T, jt)
    PROVE  it[T] = jt[T]
<1> DEFINE Bad == {s \in SUBSET T : it[s] # jt[s]}
<1>1. Bad # {} => FALSE
  <2> SUFFICES ASSUME Bad # {} PROVE FALSE
    OBVIOUS
  <2>1. IsFiniteSet(T) /\ Bad \subseteq SUBSET T
    BY FS_Subset DEF IndexSet
  <2>2. PICK s \in Bad : \A u \in Bad : ~(u \subseteq s /\ s # u)
    <3> HIDE DEF Bad
    <3> QED BY <2>1, Minimal
  <2>3. s \in SUBSET T /\ s \in SUBSET D /\ it[s] # jt[s]
    OBVIOUS
  <2>4. s # {}
    BY <2>3, MatchesAt
  <2>5. Max(s) \in s
    BY <2>3, <2>4, MaxIn
  <2>6. s \ {Max(s)} \in SUBSET T /\ s \ {Max(s)} # s /\ h[Max(s)] = g[Max(s)]
    BY <2>3, <2>5
  <2>7. it[s \ {Max(s)}] = jt[s \ {Max(s)}]
    BY <2>2, <2>6
  <2>8. /\ it[s] = Take(symbol, it[s \ {Max(s)}], h[Max(s)])
        /\ jt[s] = Take(symbol, jt[s \ {Max(s)}], g[Max(s)])
    <3> HIDE DEF Bad
    <3>1. it[s] = Take(symbol, it[s \ {Max(s)}], h[Max(s)])
      BY <2>3, <2>4, MatchesAt
    <3>2. jt[s] = Take(symbol, jt[s \ {Max(s)}], g[Max(s)])
      BY <2>3, <2>4, MatchesAt
    <3> QED BY <3>1, <3>2
  <2> QED BY <2>3, <2>6, <2>7, <2>8, Zenon
<1> QED BY <1>1

(* Some function satisfies the fold's equation, so that the choice of one  *)
(* is a choice of something.                                               *)
LEMMA MatchesExist ==
    ASSUME NEW symbol, NEW h, NEW D, IndexSet(D)
    PROVE  \E it : MatchesOver(symbol, h, D, it)
<1> DEFINE Bad == {T \in SUBSET D : ~ \E it : MatchesOver(symbol, h, T, it)}
<1>1. Bad # {} => FALSE
  <2> SUFFICES ASSUME Bad # {} PROVE FALSE
    OBVIOUS
  <2>1. PICK T \in Bad : \A u \in Bad : ~(u \subseteq T /\ T # u)
    <3>1. Bad \subseteq SUBSET D
      OBVIOUS
    <3> HIDE DEF Bad
    <3>2. IsFiniteSet(D)
      BY DEF IndexSet
    <3> QED BY <3>1, <3>2, Minimal
  <2>2. T \in SUBSET D /\ ~ \E it : MatchesOver(symbol, h, T, it)
    OBVIOUS
  <2>3. \A s \in SUBSET T : s # T => \E it : MatchesOver(symbol, h, s, it)
    BY <2>1, <2>2
  <2> DEFINE J(s) == CHOOSE it : MatchesOver(symbol, h, s, it)
             At(s) == IF s = {} THEN NoLots
                      ELSE Take(symbol, J(s \ {Max(s)})[s \ {Max(s)}], h[Max(s)])
             it == [s \in SUBSET T |-> At(s)]
  <2>4. ASSUME NEW s \in SUBSET T, s # T PROVE MatchesOver(symbol, h, s, J(s))
    BY <2>3, <2>4
  <2>5. ASSUME NEW s \in SUBSET T, s # {}
        PROVE  Max(s) \in s /\ s \ {Max(s)} \in SUBSET T /\ s \ {Max(s)} # T
    <3>1. Max(s) \in s
      BY <2>2, <2>5, MaxIn
    <3> QED BY <3>1
  <2>6. \A s \in SUBSET T : it[s] = At(s)
    <3> HIDE DEF At
    <3> QED OBVIOUS
  <2> HIDE DEF J, Bad
  <2>7. ASSUME NEW s \in SUBSET T, s # T PROVE it[s] = J(s)[s]
    <3>1. IndexSet(s) /\ MatchesOver(symbol, h, s, J(s))
      BY <2>2, <2>4, <2>7, FS_Subset DEF IndexSet
    <3>2. s \in SUBSET s
      OBVIOUS
    <3>3. CASE s = {}
      <4>1. J(s)[s] = NoLots
        BY <3>1, <3>2, <3>3, MatchesAt
      <4>2. At(s) = NoLots
        BY <3>3
      <4> HIDE DEF it, At
      <4> QED BY <2>6, <4>1, <4>2
    <3>4. CASE s # {}
      <4> DEFINE u == s \ {Max(s)}
      <4>1. u \in SUBSET s /\ u \in SUBSET T /\ u # T
        BY <2>5, <3>4
      <4>2. J(s)[s] = Take(symbol, J(s)[u], h[Max(s)])
        <5> HIDE DEF it, At
        <5> QED BY <3>1, <3>2, <3>4, MatchesAt
      <4>3. MatchesOver(symbol, h, u, J(u))
        BY <2>4, <4>1
      <4>4. J(s)[u] = J(u)[u]
        <5> HIDE DEF u, it, At
        <5> QED BY <3>1, <4>1, <4>3, MatchesAgree
      <4>5. At(s) = Take(symbol, J(u)[u], h[Max(s)])
        BY <3>4
      <4>6. it[s] = At(s)
        BY <2>6
      <4> HIDE DEF it, At, u
      <4> QED BY <4>2, <4>4, <4>5, <4>6, Zenon
    <3> QED BY <3>3, <3>4
  <2>8. ASSUME NEW s \in SUBSET T
        PROVE  it[s] = IF s = {} THEN NoLots ELSE Take(symbol, it[s \ {Max(s)}], h[Max(s)])
    <3>1. CASE s = {}
      <4>1. At(s) = NoLots
        BY <3>1
      <4> HIDE DEF it, At
      <4> QED BY <2>6, <3>1, <4>1
    <3>2. CASE s # {}
      <4> DEFINE u == s \ {Max(s)}
      <4>1. u \in SUBSET T /\ u # T
        BY <2>5, <3>2
      <4>2. it[u] = J(u)[u]
        <5> HIDE DEF it, u
        <5> QED BY <2>7, <4>1
      <4>3. At(s) = Take(symbol, J(u)[u], h[Max(s)])
        BY <3>2
      <4>4. it[s] = At(s)
        BY <2>6
      <4>5. it[s] = Take(symbol, it[u], h[Max(s)])
        <5> HIDE DEF it, At, u
        <5> QED BY <4>2, <4>3, <4>4, Zenon
      <4> HIDE DEF it
      <4> QED BY <3>2, <4>5
    <3> QED BY <3>1, <3>2
  <2>9. it = [s \in SUBSET T |-> it[s]]
    OBVIOUS
  <2>10. MatchesOver(symbol, h, T, it)
    <3> HIDE DEF it
    <3>1. it = [s \in SUBSET T |-> IF s = {} THEN NoLots
                                   ELSE Take(symbol, it[s \ {Max(s)}], h[Max(s)])]
      BY <2>8, <2>9
    <3> QED BY <3>1, Zenon DEF MatchesOver
  <2> QED BY <2>2, <2>10
<1>2. D \in SUBSET D /\ D \notin Bad
  BY <1>1
<1> QED BY <1>2

(* Matching starts without lots, and takes the trades one at a time.       *)
LEMMA MatchEmpty == ASSUME NEW symbol PROVE Matching(symbol, <<>>) = NoLots
<1>1. PICK D : D = DOMAIN <<>>
  OBVIOUS
<1>2. D = {} /\ IndexSet(D)
  BY <1>1, FS_EmptySet DEF IndexSet
<1> DEFINE J == CHOOSE it : MatchesOver(symbol, <<>>, D, it)
<1>3. MatchesOver(symbol, <<>>, D, J)
  BY <1>2, MatchesExist
<1>4. Matching(symbol, <<>>) = J[D]
  BY <1>1, MatchIs
<1> HIDE DEF J
<1>5. J[D] = NoLots
  BY <1>2, <1>3, MatchesAt
<1> QED BY <1>4, <1>5

(* The matching of a history with one more trade is one Take from the      *)
(* matching before it.                                                     *)
LEMMA MatchAppend ==
    ASSUME NEW symbol, NEW s, IsList(s), NEW x
    PROVE  Matching(symbol, Append(s, x)) = Take(symbol, Matching(symbol, s), x)
<1>1. PICK t, L : t = Append(s, x) /\ L = Len(s)
  OBVIOUS
<1>2. /\ IsList(t) /\ Len(t) = L + 1 /\ \A n \in 1..L : t[n] = s[n]
      /\ t[L + 1] = x /\ L \in Nat
  BY <1>1, AppendedList DEF IsList
<1>3. DOMAIN t = 1..L + 1 /\ DOMAIN s = 1..L
  BY <1>1, <1>2, Zenon DEF IsList
<1>4. PICK D, E, y : D = 1..L + 1 /\ E = 1..L /\ y = L + 1
  OBVIOUS
<1>5. /\ IndexSet(D) /\ IndexSet(E)
      /\ E \in SUBSET D /\ y \in D /\ D \ {y} = E /\ \A n \in D : n <= y
  <2>1. IsFiniteSet(D) /\ IsFiniteSet(E)
    BY <1>2, <1>4, FS_Interval
  <2> QED BY <1>2, <1>4, <2>1 DEF IndexSet
<1> DEFINE J == CHOOSE it : MatchesOver(symbol, t, D, it)
           K == CHOOSE it : MatchesOver(symbol, s, E, it)
<1>6. MatchesOver(symbol, t, D, J) /\ MatchesOver(symbol, s, E, K)
  BY <1>5, MatchesExist
<1>7. Matching(symbol, t) = J[D] /\ Matching(symbol, s) = K[E]
  <2>1. DOMAIN t = D /\ DOMAIN s = E
    BY <1>3, <1>4
  <2> QED BY <2>1, MatchIs
<1> HIDE DEF J, K
<1>8. J[E] = K[E]
  <2>1. \A n \in E : t[n] = s[n]
    BY <1>2, <1>4
  <2> QED BY <1>5, <1>6, <2>1, MatchesAgree
<1>9. Max(D) = y
  <2>1. D \in SUBSET D /\ D # {}
    BY <1>5
  <2>2. Max(D) \in D /\ \A n \in D : n <= Max(D)
    BY <1>5, <2>1, MaxIn
  <2>3. Max(D) <= y /\ y <= Max(D) /\ y \in Nat /\ Max(D) \in Nat
    BY <1>5, <2>2 DEF IndexSet
  <2> QED BY <2>3
<1>10. J[D] = Take(symbol, J[D \ {Max(D)}], t[Max(D)])
  <2>1. D \in SUBSET D /\ D # {}
    BY <1>5
  <2> QED BY <1>6, <2>1, MatchesAt
<1>11. t[y] = x
  BY <1>2, <1>4
<1> QED BY <1>1, <1>5, <1>7, <1>8, <1>9, <1>10, <1>11, Zenon
-----------------------------------------------------------------------------
(* Lots bought and not sold yet, in number and in money.                   *)
IsLot(lot) ==
    \E a, b : \E q \in Nat, p \in Int :
        lot = [symbol |-> a, side |-> b, qty |-> q, price |-> p]

LotQtys(lots) == [n \in DOMAIN lots |-> lots[n].qty]
LotCosts(lots) == [n \in DOMAIN lots |-> lots[n].qty * lots[n].price]

Sound(match, qty, cashed) ==
    /\ match = [lots |-> match.lots, pnl |-> match.pnl]
    /\ IsList(match.lots) /\ \A n \in DOMAIN match.lots : IsLot(match.lots[n])
    /\ SumFunctionOnSet(LotQtys(match.lots), DOMAIN match.lots) = qty
    /\ match.pnl = cashed + SumFunctionOnSet(LotCosts(match.lots), DOMAIN match.lots)

(* The fields of a lot are numbers.                                        *)
LEMMA LotTypes ==
    ASSUME NEW lot, IsLot(lot)
    PROVE  lot.qty \in Nat /\ lot.price \in Int /\ lot.qty * lot.price \in Int
<1>1. PICK a, b : \E q \in Nat, p \in Int :
              lot = [symbol |-> a, side |-> b, qty |-> q, price |-> p]
  BY DEF IsLot
<1>2. lot.qty \in Nat /\ lot.price \in Int
  BY <1>1
<1> QED BY <1>2

(* What is sold of a lot leaves a lot.                                     *)
LEMMA LotSold ==
    ASSUME NEW lot, IsLot(lot), NEW t \in Nat, t <= lot.qty
    PROVE  /\ IsLot([lot EXCEPT !.qty = @ - t])
           /\ [lot EXCEPT !.qty = @ - t].qty = lot.qty - t
           /\ [lot EXCEPT !.qty = @ - t].price = lot.price
<1>1. PICK a, b : \E x \in Nat, y \in Int :
              lot = [symbol |-> a, side |-> b, qty |-> x, price |-> y]
  BY DEF IsLot
<1>2. PICK q \in Nat, p \in Int : lot = [symbol |-> a, side |-> b, qty |-> q, price |-> p]
  BY <1>1
<1>3. PICK r \in Nat : r = q - t
  BY <1>2
<1>4. [lot EXCEPT !.qty = @ - t] = [symbol |-> a, side |-> b, qty |-> r, price |-> p]
  BY <1>2, <1>3
<1>5. PICK new : new = [symbol |-> a, side |-> b, qty |-> r, price |-> p]
  OBVIOUS
<1>6. new.qty = r /\ new.price = p /\ lot.qty = q /\ lot.price = p
  BY <1>2, <1>5
<1>7. IsLot(new)
  BY <1>5, Zenon DEF IsLot
<1> QED BY <1>3, <1>4, <1>5, <1>6, <1>7

(* A sum over a list, one term longer.                                     *)
LEMMA SumAppended ==
    ASSUME NEW n \in Nat, NEW f, NEW g, \A m \in 1..n : f[m] \in Int /\ g[m] = f[m],
           g[n + 1] \in Int
    PROVE  SumFunctionOnSet(g, 1..n + 1) = SumFunctionOnSet(f, 1..n) + g[n + 1]
<1>1. \A m \in 1..n + 1 : g[m] \in Int
  <2> SUFFICES ASSUME NEW m \in 1..n + 1 PROVE g[m] \in Int
    OBVIOUS
  <2>1. m \in 1..n \/ m = n + 1
    OBVIOUS
  <2> QED BY <2>1
<1>2. SumFunctionOnSet(g, 1..n + 1) = SumFunctionOnSet(g, 1..n) + g[n + 1]
  BY <1>1, SumNext
<1>3. PICK E : E = 1..n
  OBVIOUS
<1>4. IsFiniteSet(E) /\ \A m \in E : g[m] \in Int /\ g[m] = f[m]
  BY <1>1, <1>3, FS_Interval
<1>5. SumFunctionOnSet(g, E) = SumFunctionOnSet(f, E)
  BY <1>4, SumSame
<1> QED BY <1>2, <1>3, <1>5

(* A purchase adds its lot.                                                *)
LEMMA BoughtSound ==
    ASSUME NEW match, NEW qty \in Int, NEW cashed \in Int, Sound(match, qty, cashed),
           NEW trade, IsLot(trade)
    PROVE  Sound(Bought(match, trade), qty + trade.qty, cashed - trade.qty * trade.price)
<1>1. PICK s, t, L : s = match.lots /\ t = Append(s, trade) /\ L = Len(s)
  OBVIOUS
<1>2. /\ IsList(s) /\ \A n \in DOMAIN s : IsLot(s[n])
      /\ SumFunctionOnSet(LotQtys(s), DOMAIN s) = qty
      /\ match.pnl = cashed + SumFunctionOnSet(LotCosts(s), DOMAIN s)
      /\ match = [lots |-> s, pnl |-> match.pnl]
  BY <1>1, Zenon DEF Sound
<1>3. PICK pnl : pnl = match.pnl
  OBVIOUS
<1>4. Bought(match, trade) = [lots |-> t, pnl |-> pnl]
  <2>1. match = [lots |-> s, pnl |-> pnl]
    BY <1>2, <1>3
  <2> QED BY <1>1, <2>1 DEF Bought
<1>5. /\ IsList(t) /\ Len(t) = L + 1 /\ \A n \in 1..L : t[n] = s[n]
      /\ t[L + 1] = trade /\ L \in Nat
  BY <1>1, <1>2, AppendedList DEF IsList
<1>6. DOMAIN t = 1..L + 1 /\ DOMAIN s = 1..L
  BY <1>1, <1>2, <1>5, Zenon DEF IsList
<1>7. \A n \in DOMAIN t : IsLot(t[n])
  <2> SUFFICES ASSUME NEW n \in 1..L + 1 PROVE IsLot(t[n])
    BY <1>6
  <2>1. n \in 1..L \/ n = L + 1
    BY <1>5
  <2> QED BY <1>2, <1>5, <1>6, <2>1
<1>8. PICK f, g, c, d : f = LotQtys(s) /\ g = LotQtys(t) /\ c = LotCosts(s) /\ d = LotCosts(t)
  OBVIOUS
<1>9. /\ \A n \in 1..L : f[n] = s[n].qty /\ c[n] = s[n].qty * s[n].price
      /\ \A n \in 1..L + 1 : g[n] = t[n].qty /\ d[n] = t[n].qty * t[n].price
  BY <1>6, <1>8 DEF LotQtys, LotCosts
<1>10. \A n \in 1..L : f[n] \in Int /\ c[n] \in Int /\ g[n] = f[n] /\ d[n] = c[n]
  <2> SUFFICES ASSUME NEW n \in 1..L
               PROVE  f[n] \in Int /\ c[n] \in Int /\ g[n] = f[n] /\ d[n] = c[n]
    OBVIOUS
  <2>1. n \in 1..L + 1 /\ t[n] = s[n]
    BY <1>5
  <2>2. s[n].qty \in Nat /\ s[n].qty * s[n].price \in Int
    BY <1>2, <1>6, LotTypes
  <2>3. f[n] = s[n].qty /\ c[n] = s[n].qty * s[n].price
    BY <1>9
  <2>4. g[n] = s[n].qty /\ d[n] = s[n].qty * s[n].price
    BY <1>9, <2>1
  <2> QED BY <2>2, <2>3, <2>4
<1>11. /\ trade.qty \in Int /\ trade.qty * trade.price \in Int
       /\ g[L + 1] = trade.qty /\ d[L + 1] = trade.qty * trade.price
  <2>1. trade.qty \in Nat /\ trade.qty * trade.price \in Int
    BY LotTypes
  <2>2. L + 1 \in 1..L + 1
    BY <1>5
  <2> QED BY <1>5, <1>9, <2>1, <2>2
<1>12. /\ SumFunctionOnSet(g, DOMAIN t) = SumFunctionOnSet(f, DOMAIN s) + trade.qty
       /\ SumFunctionOnSet(d, DOMAIN t) = SumFunctionOnSet(c, DOMAIN s)
                                            + trade.qty * trade.price
  BY <1>5, <1>6, <1>10, <1>11, SumAppended
<1>13. SumFunctionOnSet(c, DOMAIN s) \in Int
  <2>1. PICK E : E = DOMAIN s
    OBVIOUS
  <2>2. IsFiniteSet(1..L) /\ \A n \in 1..L : c[n] \in Int
    BY <1>5, <1>10, FS_Interval
  <2>3. IsFiniteSet(E) /\ \A n \in E : c[n] \in Int
    BY <1>6, <2>1, <2>2, Zenon
  <2> QED BY <2>1, <2>3, SumInt
<1>14. /\ SumFunctionOnSet(LotQtys(t), DOMAIN t) = qty + trade.qty
       /\ pnl = (cashed - trade.qty * trade.price) + SumFunctionOnSet(LotCosts(t), DOMAIN t)
  <2>1. SumFunctionOnSet(g, DOMAIN t) = qty + trade.qty
    BY <1>2, <1>8, <1>12
  <2>2. PICK x, y, z : /\ x = SumFunctionOnSet(c, DOMAIN s) /\ y = trade.qty * trade.price
                       /\ z = SumFunctionOnSet(d, DOMAIN t)
    OBVIOUS
  <2>3. x \in Int /\ y \in Int /\ z = x + y /\ pnl = cashed + x
    <3>1. x \in Int /\ y \in Int /\ pnl = cashed + x
      BY <1>2, <1>3, <1>8, <1>11, <1>13, <2>2, Zenon
    <3>2. z = x + y
      BY <1>12, <2>2, Zenon
    <3> QED BY <3>1, <3>2
  <2>4. pnl = (cashed - y) + z
    BY <2>3
  <2> QED BY <1>8, <2>1, <2>2, <2>4
<1>15. PICK new : new = [lots |-> t, pnl |-> pnl]
  OBVIOUS
<1>16. new.lots = t /\ new.pnl = pnl
  BY <1>15
<1>17. Sound(new, qty + trade.qty, cashed - trade.qty * trade.price)
  BY <1>5, <1>7, <1>14, <1>15, <1>16, Zenon DEF Sound
<1> QED BY <1>4, <1>15, <1>17, Zenon
-----------------------------------------------------------------------------
(* A sale takes from the lots, the oldest first, what it needs.            *)
Lower(a, b) == IF a <= b THEN a ELSE b

(* The smaller of two numbers.                                             *)
LEMMA MinPair ==
    ASSUME NEW a \in Int, NEW b \in Int
    PROVE  Min({a, b}) = Lower(a, b)
<1>1. \E x \in {a, b} : \A y \in {a, b} : x <= y
  OBVIOUS
<1>2. Min({a, b}) \in {a, b} /\ \A y \in {a, b} : Min({a, b}) <= y
  BY <1>1, Zenon DEF Min
<1>3. PICK m : m = Min({a, b})
  OBVIOUS
<1>4. (m = a \/ m = b) /\ m <= a /\ m <= b
  BY <1>2, <1>3
<1> QED BY <1>3, <1>4 DEF Lower

(* A number, or zero if it is negative.                                    *)
LEMMA MaxZero ==
    ASSUME NEW b \in Int
    PROVE  Max({0, b}) = IF b > 0 THEN b ELSE 0
<1>1. \E x \in {0, b} : \A y \in {0, b} : x >= y
  OBVIOUS
<1>2. Max({0, b}) \in {0, b} /\ \A y \in {0, b} : Max({0, b}) >= y
  BY <1>1, Zenon DEF Max
<1>3. PICK m : m = Max({0, b})
  OBVIOUS
<1>4. (m = 0 \/ m = b) /\ m >= 0 /\ m >= b
  BY <1>2, <1>3
<1> QED BY <1>3, <1>4

(* What a sale of qty takes from the lot n, when f has the lots' sizes.    *)
Taken(f, qty, n) ==
    LET left == qty - SumFunctionOnSet(f, 1..n - 1)
    IN  Lower(f[n], IF left > 0 THEN left ELSE 0)

(* What a sale takes from the lots up to one of them.                      *)
LotSizes(f, lots, L) == \A m \in 1..L : f[m] = lots[m].qty /\ f[m] \in Nat

(* The profit of a sale, as a sum over the lots it takes from.             *)
LEMMA MatchedIs ==
    ASSUME NEW lots, NEW L \in Nat, NEW f, LotSizes(f, lots, L),
           NEW qty \in Nat, NEW n \in 1..L
    PROVE  /\ SumFunctionOnSet(f, 1..n - 1) \in Nat
           /\ Matched(lots, qty, n) = Taken(f, qty, n)
<1>1. PICK D : D = 1..n - 1
  OBVIOUS
<1> DEFINE g == [m \in D |-> lots[m].qty]
<1>2. IsFiniteSet(D)
  <2>1. n - 1 \in Int /\ 1 \in Int
    OBVIOUS
  <2> QED BY <1>1, <2>1, FS_Interval
<1>3. \A m \in D : g[m] = f[m] /\ f[m] \in Nat
  <2> SUFFICES ASSUME NEW m \in D PROVE g[m] = f[m] /\ f[m] \in Nat
    OBVIOUS
  <2>1. m \in 1..L
    BY <1>1
  <2> QED BY <2>1 DEF LotSizes
<1>4. \A m \in D : g[m] \in Int /\ f[m] \in Int
  BY <1>3
<1> HIDE DEF g
<1>5. SumFunctionOnSet(g, D) = SumFunctionOnSet(f, D)
  BY <1>2, <1>3, <1>4, SumSame
<1>6. SumFunctionOnSet(f, D) \in Nat
  BY <1>2, <1>3, SumNat
<1>7. PICK left : left = qty - SumFunctionOnSet(f, D)
  OBVIOUS
<1>8. left \in Int
  BY <1>6, <1>7
<1>9. Matched(lots, qty, n) = Min({lots[n].qty, Max({0, qty - SumFunctionOnSet(g, D)})})
  BY <1>1, Zenon DEF Matched, g
<1>10. Matched(lots, qty, n) = Min({f[n], Max({0, left})})
  <2>1. lots[n].qty = f[n]
    BY DEF LotSizes
  <2> QED BY <1>5, <1>7, <1>9, <2>1, Zenon
<1>11. PICK rest : rest = IF left > 0 THEN left ELSE 0
  OBVIOUS
<1>12. Max({0, left}) = rest /\ rest \in Int /\ f[n] \in Int
  BY <1>8, <1>11, MaxZero DEF LotSizes
<1>13. Matched(lots, qty, n) = Lower(f[n], rest)
  BY <1>10, <1>12, MinPair
<1> QED BY <1>1, <1>6, <1>7, <1>11, <1>13 DEF Taken

(* A sale takes from the first lots what it needs or all they have. By the *)
(* least place at which this fails.                                        *)
LEMMA TakenUpto ==
    ASSUME NEW L \in Nat, NEW f, \A m \in 1..L : f[m] \in Nat, NEW qty \in Nat,
           NEW took, \A n \in 1..L :
               /\ SumFunctionOnSet(f, 1..n - 1) \in Nat
               /\ took[n] = Taken(f, qty, n)
    PROVE  /\ \A n \in 1..L : took[n] \in Nat /\ took[n] <= f[n]
           /\ SumFunctionOnSet(took, 1..L) = Lower(qty, SumFunctionOnSet(f, 1..L))
<1>1. ASSUME NEW n \in 1..L PROVE took[n] \in Nat /\ took[n] <= f[n]
  <2>1. PICK left : left = qty - SumFunctionOnSet(f, 1..n - 1)
    OBVIOUS
  <2>2. left \in Int /\ f[n] \in Nat
    BY <2>1
  <2>3. took[n] = Lower(f[n], IF left > 0 THEN left ELSE 0)
    BY <2>1 DEF Taken
  <2> QED BY <2>2, <2>3 DEF Lower
<1> DEFINE Bad == {k \in 0..L : SumFunctionOnSet(took, 1..k)
                                   # Lower(qty, SumFunctionOnSet(f, 1..k))}
<1>2. Bad # {} => FALSE
  <2> SUFFICES ASSUME Bad # {} PROVE FALSE
    OBVIOUS
  <2>1. Bad \subseteq Nat
    OBVIOUS
  <2>2. PICK k \in Bad : \A m \in Bad : k <= m
    <3> HIDE DEF Bad
    <3> QED BY <2>1, Least
  <2>3. k \in 0..L /\ SumFunctionOnSet(took, 1..k) # Lower(qty, SumFunctionOnSet(f, 1..k))
    OBVIOUS
  <2>4. k # 0
    <3>1. 1..0 = {}
      OBVIOUS
    <3>2. SumFunctionOnSet(took, 1..0) = 0 /\ SumFunctionOnSet(f, 1..0) = 0
      BY <3>1, SumEmpty, Zenon
    <3>3. Lower(qty, 0) = 0
      BY DEF Lower
    <3> QED BY <2>3, <3>2, <3>3, Zenon
  <2>5. PICK j \in Nat : k = j + 1
    <3>1. k - 1 \in Nat /\ k = (k - 1) + 1
      BY <2>3, <2>4
    <3> QED BY <3>1
  <2>6. j \in 0..L /\ ~(k <= j) /\ j + 1 \in 1..L /\ (j + 1) - 1 = j
    BY <2>3, <2>5
  <2>7. SumFunctionOnSet(took, 1..j) = Lower(qty, SumFunctionOnSet(f, 1..j))
    <3>1. j \notin Bad
      <4> HIDE DEF Bad
      <4> QED BY <2>2, <2>6
    <3> QED BY <2>6, <3>1
  <2> HIDE DEF Bad
  <2>8. \A m \in 1..j + 1 : f[m] \in Int /\ took[m] \in Int
    <3> SUFFICES ASSUME NEW m \in 1..j + 1 PROVE f[m] \in Int /\ took[m] \in Int
      OBVIOUS
    <3>1. m \in 1..L
      BY <2>6
    <3> QED BY <1>1, <3>1
  <2>9. /\ SumFunctionOnSet(took, 1..j + 1) = SumFunctionOnSet(took, 1..j) + took[j + 1]
        /\ SumFunctionOnSet(f, 1..j + 1) = SumFunctionOnSet(f, 1..j) + f[j + 1]
    BY <2>8, SumNext
  <2>10. PICK x, y, a, b : /\ x = SumFunctionOnSet(f, 1..j) /\ y = SumFunctionOnSet(took, 1..j)
                           /\ a = f[j + 1] /\ b = took[j + 1]
    OBVIOUS
  <2>11. /\ x \in Nat /\ a \in Nat /\ y = Lower(qty, x)
         /\ b = LET left == qty - x IN Lower(a, IF left > 0 THEN left ELSE 0)
    <3>1. PICK n \in 1..L : n = j + 1 /\ n - 1 = j
      BY <2>6
    <3>2. /\ SumFunctionOnSet(f, 1..n - 1) \in Nat
          /\ took[n] = LET left == qty - SumFunctionOnSet(f, 1..n - 1)
                       IN  Lower(f[n], IF left > 0 THEN left ELSE 0)
      BY DEF Taken
    <3>3. f[n] \in Nat
      OBVIOUS
    <3> QED BY <2>7, <2>10, <3>1, <3>2, <3>3
  <2>12. y + b = Lower(qty, x + a)
    BY <2>11 DEF Lower
  <2>13. /\ SumFunctionOnSet(took, 1..k) = y + b
         /\ SumFunctionOnSet(f, 1..k) = x + a
    BY <2>5, <2>9, <2>10, Zenon
  <2> QED BY <2>3, <2>12, <2>13, Zenon
<1>3. L \in 0..L /\ L \notin Bad
  BY <1>2
<1> QED BY <1>1, <1>3
-----------------------------------------------------------------------------
(* A sale of no more than is held takes it from the lots.                  *)
LEMMA SoldSound ==
    ASSUME NEW match, NEW qty \in Int, NEW cashed \in Int, Sound(match, qty, cashed),
           NEW trade, IsLot(trade), trade.qty <= qty
    PROVE  Sound(Sold(match, trade), qty - trade.qty, cashed + trade.qty * trade.price)
<1>1. PICK s, L : s = match.lots /\ L = Len(s)
  OBVIOUS
<1>2. /\ IsList(s) /\ \A n \in DOMAIN s : IsLot(s[n])
      /\ SumFunctionOnSet(LotQtys(s), DOMAIN s) = qty
      /\ match.pnl = cashed + SumFunctionOnSet(LotCosts(s), DOMAIN s)
  BY <1>1, Zenon DEF Sound
<1>3. DOMAIN s = 1..L /\ L \in Nat
  BY <1>1, <1>2, Zenon DEF IsList
<1>4. PICK q, p : q = trade.qty /\ p = trade.price
  OBVIOUS
<1>5. q \in Nat /\ p \in Int /\ q * p \in Int
  BY <1>4, LotTypes
<1>6. PICK f, c : f = LotQtys(s) /\ c = LotCosts(s)
  OBVIOUS
<1>7. PICK took : took = [n \in DOMAIN s |-> Matched(s, q, n)]
  OBVIOUS
<1>8. PICK gain : gain = [n \in DOMAIN s |-> took[n] * (p - s[n].price)]
  OBVIOUS
<1>9. PICK t : t = [n \in DOMAIN s |-> [s[n] EXCEPT !.qty = @ - took[n]]]
  OBVIOUS
<1>10. PICK pnl : pnl = match.pnl + SumFunctionOnSet(gain, DOMAIN s)
  OBVIOUS
<1>11. Sold(match, trade) = [lots |-> t, pnl |-> pnl]
  BY <1>1, <1>4, <1>7, <1>8, <1>9, <1>10, Zenon DEF Sold
<1>12. \A n \in 1..L : /\ f[n] = s[n].qty /\ f[n] \in Nat /\ s[n].price \in Int
                       /\ c[n] = f[n] * s[n].price /\ c[n] \in Int
  <2> SUFFICES ASSUME NEW n \in 1..L
               PROVE  /\ f[n] = s[n].qty /\ f[n] \in Nat /\ s[n].price \in Int
                      /\ c[n] = f[n] * s[n].price /\ c[n] \in Int
    OBVIOUS
  <2>1. s[n].qty \in Nat /\ s[n].price \in Int /\ s[n].qty * s[n].price \in Int
    BY <1>2, <1>3, LotTypes
  <2>2. f[n] = s[n].qty /\ c[n] = s[n].qty * s[n].price
    BY <1>3, <1>6 DEF LotQtys, LotCosts
  <2> QED BY <2>1, <2>2
<1>13. \A n \in 1..L :
           /\ SumFunctionOnSet(f, 1..n - 1) \in Nat
           /\ took[n] = Taken(f, q, n)
  <2> SUFFICES ASSUME NEW n \in 1..L
               PROVE  /\ SumFunctionOnSet(f, 1..n - 1) \in Nat
                      /\ took[n] = Taken(f, q, n)
    OBVIOUS
  <2>1. \A m \in 1..L : f[m] = s[m].qty /\ f[m] \in Nat
    BY <1>12
  <2>2. took[n] = Matched(s, q, n)
    BY <1>3, <1>7
  <2>3. /\ SumFunctionOnSet(f, 1..n - 1) \in Nat
        /\ Matched(s, q, n) = Taken(f, q, n)
    <3>1. L \in Nat /\ q \in Nat
      BY <1>3, <1>5
    <3>2. LotSizes(f, s, L)
      BY <2>1 DEF LotSizes
    <3>3. SumFunctionOnSet(f, 1..n - 1) \in Nat
      BY <3>1, <3>2, MatchedIs
    <3>4. Matched(s, q, n) = Taken(f, q, n)
      BY <3>1, <3>2, MatchedIs
    <3> QED BY <3>3, <3>4
  <2> QED BY <2>2, <2>3
<1>14. /\ \A n \in 1..L : took[n] \in Nat /\ took[n] <= f[n]
       /\ SumFunctionOnSet(took, 1..L) = Lower(q, SumFunctionOnSet(f, 1..L))
  <2>1. \A m \in 1..L : f[m] \in Nat
    BY <1>12
  <2> QED BY <1>3, <1>5, <1>13, <2>1, TakenUpto
<1>15. SumFunctionOnSet(f, 1..L) = qty /\ SumFunctionOnSet(took, 1..L) = q
  <2>1. SumFunctionOnSet(f, 1..L) = qty
    BY <1>2, <1>3, <1>6, Zenon
  <2>2. Lower(q, qty) = q
    BY <1>4 DEF Lower
  <2> QED BY <1>14, <2>1, <2>2, Zenon
<1>16. \A n \in 1..L : /\ IsLot(t[n]) /\ t[n].qty = f[n] - took[n]
                       /\ t[n].price = s[n].price
  <2> SUFFICES ASSUME NEW n \in 1..L
               PROVE  IsLot(t[n]) /\ t[n].qty = f[n] - took[n] /\ t[n].price = s[n].price
    OBVIOUS
  <2>1. PICK lot, k : lot = s[n] /\ k = took[n]
    OBVIOUS
  <2>2. IsLot(lot) /\ k \in Nat /\ k <= lot.qty /\ lot.qty = f[n]
    BY <1>2, <1>3, <1>12, <1>14, <2>1
  <2>3. t[n] = [lot EXCEPT !.qty = @ - k]
    BY <1>3, <1>9, <2>1
  <2>4. /\ IsLot([lot EXCEPT !.qty = @ - k])
        /\ [lot EXCEPT !.qty = @ - k].qty = lot.qty - k
        /\ [lot EXCEPT !.qty = @ - k].price = lot.price
    BY <2>2, LotSold
  <2> QED BY <2>1, <2>2, <2>3, <2>4, Zenon
<1>17. IsList(t) /\ DOMAIN t = 1..L /\ Len(t) = L
  <2>1. DOMAIN t = 1..L
    BY <1>3, <1>9
  <2> DEFINE T == {t[n] : n \in 1..L}
  <2>2. t \in [1..L -> T]
    BY <1>3, <1>9
  <2>3. t \in Seq(T) /\ Len(t) = L
    <3> HIDE DEF T
    <3> QED BY <1>3, <2>2
  <2> HIDE DEF T
  <2> QED BY <2>1, <2>3, SeqIsList
<1>18. PICK g, d : g = LotQtys(t) /\ d = LotCosts(t)
  OBVIOUS
<1>19. \A n \in 1..L : g[n] = f[n] - took[n] /\ d[n] = g[n] * s[n].price
  <2> SUFFICES ASSUME NEW n \in 1..L
               PROVE  g[n] = f[n] - took[n] /\ d[n] = g[n] * s[n].price
    OBVIOUS
  <2>1. g[n] = t[n].qty /\ d[n] = t[n].qty * t[n].price
    BY <1>17, <1>18 DEF LotQtys, LotCosts
  <2>2. t[n].qty = f[n] - took[n] /\ t[n].price = s[n].price
    BY <1>16
  <2> QED BY <2>1, <2>2, Zenon
<1>20. PICK E : E = 1..L
  OBVIOUS
<1>21. IsFiniteSet(E)
  BY <1>3, <1>20, FS_Interval
<1>22. SumFunctionOnSet(g, E) = qty - q
  <2>1. \A n \in E : g[n] \in Int /\ took[n] \in Int /\ f[n] = g[n] + took[n]
    <3> SUFFICES ASSUME NEW n \in E
                 PROVE  g[n] \in Int /\ took[n] \in Int /\ f[n] = g[n] + took[n]
      OBVIOUS
    <3>1. f[n] \in Nat /\ took[n] \in Nat /\ g[n] = f[n] - took[n]
      BY <1>12, <1>14, <1>19, <1>20
    <3> QED BY <3>1
  <2>2. SumFunctionOnSet(f, E) = SumFunctionOnSet(g, E) + SumFunctionOnSet(took, E)
    BY <1>21, <2>1, SumPlus
  <2>3. SumFunctionOnSet(g, E) \in Int
    BY <1>21, <2>1, SumInt
  <2>4. SumFunctionOnSet(f, E) = qty /\ SumFunctionOnSet(took, E) = q
    BY <1>15, <1>20
  <2> QED BY <1>5, <2>2, <2>3, <2>4
<1>23. /\ SumFunctionOnSet(gain, E) + SumFunctionOnSet(c, E) = q * p + SumFunctionOnSet(d, E)
       /\ SumFunctionOnSet(gain, E) \in Int /\ SumFunctionOnSet(c, E) \in Int
       /\ SumFunctionOnSet(d, E) \in Int
  <2>1. PICK w : w = [n \in E |-> p * took[n]]
    OBVIOUS
  <2>2. PICK h : h = [n \in E |-> gain[n] + c[n]]
    OBVIOUS
  <2>3. \A n \in E : /\ gain[n] \in Int /\ c[n] \in Int /\ h[n] = gain[n] + c[n]
                     /\ w[n] \in Int /\ d[n] \in Int /\ h[n] = w[n] + d[n]
                     /\ took[n] \in Int /\ w[n] = p * took[n]
    <3> SUFFICES ASSUME NEW n \in E
                 PROVE  /\ gain[n] \in Int /\ c[n] \in Int /\ h[n] = gain[n] + c[n]
                        /\ w[n] \in Int /\ d[n] \in Int /\ h[n] = w[n] + d[n]
                        /\ took[n] \in Int /\ w[n] = p * took[n]
      OBVIOUS
    <3>1. PICK a, k, r : a = f[n] /\ k = took[n] /\ r = s[n].price
      OBVIOUS
    <3>2. a \in Nat /\ k \in Nat /\ r \in Int /\ c[n] = a * r
      BY <1>12, <1>14, <1>20, <3>1
    <3>3. gain[n] = k * (p - r) /\ d[n] = (a - k) * r
      <4>1. gain[n] = k * (p - r)
        BY <1>3, <1>8, <1>20, <3>1
      <4>2. g[n] = a - k /\ d[n] = g[n] * r
        BY <1>19, <1>20, <3>1
      <4> QED BY <4>1, <4>2
    <3>4. h[n] = gain[n] + c[n] /\ w[n] = p * k
      BY <2>1, <2>2, <3>1
    <3>5. /\ k * (p - r) \in Int /\ a * r \in Int /\ p * k \in Int /\ (a - k) * r \in Int
          /\ k * (p - r) + a * r = p * k + (a - k) * r
      <4>1. /\ k * (p - r) = p * k - k * r /\ (a - k) * r = a * r - k * r
            /\ p * k \in Int /\ k * r \in Int /\ a * r \in Int
        BY <1>5, <3>2
      <4>2. PICK x, y, z : x = p * k /\ y = k * r /\ z = a * r
        OBVIOUS
      <4>3. PICK u, v : u = k * (p - r) /\ v = (a - k) * r
        OBVIOUS
      <4>4. x \in Int /\ y \in Int /\ z \in Int /\ u = x - y /\ v = z - y
        BY <4>1, <4>2, <4>3, Zenon
      <4>5. u \in Int /\ v \in Int /\ u + z = x + v
        BY <4>4
      <4> QED BY <4>2, <4>3, <4>4, <4>5, Zenon
    <3>6. gain[n] \in Int /\ c[n] \in Int /\ w[n] \in Int /\ d[n] \in Int
      BY <3>2, <3>3, <3>4, <3>5, Zenon
    <3>7. h[n] = w[n] + d[n]
      BY <3>2, <3>3, <3>4, <3>5, Zenon
    <3>8. took[n] \in Int /\ w[n] = p * took[n]
      <4>1. k \in Int
        BY <3>2
      <4> QED BY <3>1, <3>4, <4>1, Zenon
    <3> QED BY <3>4, <3>6, <3>7, <3>8
  <2>4. SumFunctionOnSet(h, E) = SumFunctionOnSet(gain, E) + SumFunctionOnSet(c, E)
    BY <1>21, <2>3, SumPlus
  <2>5. SumFunctionOnSet(h, E) = SumFunctionOnSet(w, E) + SumFunctionOnSet(d, E)
    BY <1>21, <2>3, SumPlus
  <2>6. SumFunctionOnSet(w, E) = p * SumFunctionOnSet(took, E)
    BY <1>5, <1>21, <2>3, SumTimes
  <2>7. SumFunctionOnSet(took, E) = q
    BY <1>15, <1>20
  <2>8. /\ SumFunctionOnSet(gain, E) \in Int /\ SumFunctionOnSet(c, E) \in Int
        /\ SumFunctionOnSet(d, E) \in Int
    BY <1>21, <2>3, SumInt
  <2>9. p * q = q * p
    BY <1>5
  <2> QED BY <2>4, <2>5, <2>6, <2>7, <2>8, <2>9, Zenon
<1>24. pnl = (cashed + q * p) + SumFunctionOnSet(d, E)
  <2>1. PICK x, y, z, b : /\ x = SumFunctionOnSet(gain, E) /\ y = SumFunctionOnSet(c, E)
                          /\ z = SumFunctionOnSet(d, E) /\ b = q * p
    OBVIOUS
  <2>2. x \in Int /\ y \in Int /\ z \in Int /\ x + y = b + z /\ b \in Int
    BY <1>5, <1>23, <2>1, Zenon
  <2>3. pnl = (cashed + y) + x
    BY <1>2, <1>3, <1>6, <1>10, <1>20, <2>1, Zenon
  <2>4. pnl = (cashed + b) + z
    BY <2>2, <2>3
  <2> QED BY <2>1, <2>4, Zenon
<1>25. PICK new : new = [lots |-> t, pnl |-> pnl]
  OBVIOUS
<1>26. new.lots = t /\ new.pnl = pnl
  BY <1>25
<1>27. /\ SumFunctionOnSet(LotQtys(t), DOMAIN t) = qty - trade.qty
       /\ pnl = (cashed + trade.qty * trade.price) + SumFunctionOnSet(LotCosts(t), DOMAIN t)
  BY <1>4, <1>17, <1>18, <1>20, <1>22, <1>24, Zenon
<1>28. \A n \in DOMAIN t : IsLot(t[n])
  BY <1>16, <1>17, Zenon
<1>29. Sound(new, qty - trade.qty, cashed + trade.qty * trade.price)
  BY <1>17, <1>25, <1>26, <1>27, <1>28, Zenon DEF Sound
<1> QED BY <1>11, <1>25, <1>29, Zenon

(* Nothing held, no money in lots: what was matched is what was received.  *)
LEMMA NothingLeft ==
    ASSUME NEW match, NEW cashed \in Int, Sound(match, 0, cashed)
    PROVE  match.pnl = cashed
<1>1. PICK s, L : s = match.lots /\ L = Len(s)
  OBVIOUS
<1>2. /\ IsList(s) /\ \A n \in DOMAIN s : IsLot(s[n])
      /\ SumFunctionOnSet(LotQtys(s), DOMAIN s) = 0
      /\ match.pnl = cashed + SumFunctionOnSet(LotCosts(s), DOMAIN s)
  BY <1>1, Zenon DEF Sound
<1>3. DOMAIN s = 1..L /\ L \in Nat
  <2>1. IsList(s) /\ L = Len(s)
    BY <1>1, <1>2
  <2> QED BY <2>1, Zenon DEF IsList
<1> DEFINE E == DOMAIN s
<1>4. PICK f, c : f = LotQtys(s) /\ c = LotCosts(s)
  OBVIOUS
<1>5. IsFiniteSet(E)
  <2>1. L \in Int /\ 1 \in Int
    BY <1>3
  <2>2. IsFiniteSet(1..L)
    BY <2>1, FS_Interval
  <2> QED BY <1>3, <2>2, Zenon
<1> HIDE DEF E
<1>6. \A n \in E : f[n] = s[n].qty /\ c[n] = s[n].qty * s[n].price
  BY <1>4 DEF LotQtys, LotCosts, E
<1>7. \A n \in E : f[n] \in Nat /\ s[n].price \in Int
  BY <1>2, <1>6, LotTypes DEF E
<1>8. \A n \in E : f[n] = 0
  <2>1. SumFunctionOnSet(f, E) = 0
    BY <1>2, <1>4, Zenon DEF E
  <2> QED BY <1>5, <1>7, <2>1, SumNothing
<1>9. \A n \in E : c[n] = 0
  <2> SUFFICES ASSUME NEW n \in E PROVE c[n] = 0
    OBVIOUS
  <2>1. PICK r \in Int : r = s[n].price
    BY <1>7
  <2>2. c[n] = 0 * r
    BY <1>6, <1>8, <2>1
  <2> QED BY <2>2
<1>10. SumFunctionOnSet(c, E) = 0
  BY <1>5, <1>9, SumZero
<1>11. match.pnl = cashed + 0
  BY <1>2, <1>4, <1>10, Zenon DEF E
<1> QED BY <1>11
-----------------------------------------------------------------------------
(* The paper broker's account of one symbol.                               *)
LEMMA SameSide ==
    ASSUME NEW q \in Int, NEW d \in Int, NEW a \in Int, NEW price \in Int, NEW v \in Int,
           (q > 0 /\ d > 0) \/ (q < 0 /\ d < 0),
           v * Magnitude(q + d) = Magnitude(q) * a + Magnitude(d) * price
    PROVE  (q + d) * v = q * a + d * price
<1>1. CASE q > 0 /\ d > 0
  <2>1. Magnitude(q + d) = q + d /\ Magnitude(q) = q /\ Magnitude(d) = d
    BY <1>1 DEF Magnitude
  <2>2. v * (q + d) = q * a + d * price
    BY <2>1, Zenon
  <2>3. v * (q + d) = (q + d) * v
    OBVIOUS
  <2> QED BY <2>2, <2>3, Zenon
<1>2. CASE q < 0 /\ d < 0
  <2>1. Magnitude(q + d) = -(q + d) /\ Magnitude(q) = -q /\ Magnitude(d) = -d
    BY <1>2 DEF Magnitude
  <2>2. v * (-(q + d)) = (-q) * a + (-d) * price
    BY <2>1, Zenon
  <2>3. /\ v * (-(q + d)) = -((q + d) * v) /\ (-q) * a = -(q * a)
        /\ (-d) * price = -(d * price)
    OBVIOUS
  <2>4. PICK x, y, z : x = (q + d) * v /\ y = q * a /\ z = d * price
    OBVIOUS
  <2>5. x \in Int /\ y \in Int /\ z \in Int
    BY <2>4
  <2>6. -x = (-y) + (-z)
    BY <2>2, <2>3, <2>4, Zenon
  <2>7. x = y + z
    BY <2>5, <2>6
  <2> QED BY <2>4, <2>7, Zenon
<1> QED BY <1>1, <1>2

(* A closing trade realizes its quantity at the difference of price and    *)
(* average.                                                                *)
Closing(q, d) == Lower(Magnitude(q), Magnitude(d))
Gain(q, a, price) == IF q > 0 THEN price - a ELSE a - price
NewAvg(q, d, a, price) ==
    IF q + d = 0 THEN 0 ELSE IF Magnitude(d) > Magnitude(q) THEN price ELSE a

(* A fill against what is held realizes its difference to the average      *)
(* price, for the lots it closes.                                          *)
LEMMA OtherSide ==
    ASSUME NEW q \in Int, NEW d \in Int, NEW a \in Int, NEW price \in Int,
           (q > 0 /\ d < 0) \/ (q < 0 /\ d > 0)
    PROVE  /\ NewAvg(q, d, a, price) \in Int /\ Closing(q, d) * Gain(q, a, price) \in Int
           /\ q * a + Closing(q, d) * Gain(q, a, price)
                 = (q + d) * NewAvg(q, d, a, price) - d * price
<1>0. PICK closing, gain, avg : /\ closing = Closing(q, d) /\ gain = Gain(q, a, price)
                                /\ avg = NewAvg(q, d, a, price)
  OBVIOUS
<1> SUFFICES /\ avg \in Int /\ closing * gain \in Int
             /\ q * a + closing * gain = (q + d) * avg - d * price
  BY <1>0, Zenon
<1>1. CASE q + d = 0
  <2>1. d = -q /\ avg = 0
    BY <1>0, <1>1 DEF NewAvg
  <2>2. CASE q > 0
    <3>1. closing = q /\ gain = price - a
      BY <1>0, <2>1, <2>2 DEF Magnitude, Lower, Closing, Gain
    <3>2. q * a + q * (price - a) = 0 * 0 - (-q) * price
      OBVIOUS
    <3>3. q * (price - a) \in Int /\ q + (-q) = 0
      OBVIOUS
    <3> QED BY <2>1, <3>1, <3>2, <3>3
  <2>3. CASE q < 0
    <3>1. closing = -q /\ gain = a - price
      BY <1>0, <2>1, <2>3 DEF Magnitude, Lower, Closing, Gain
    <3>2. q * a + (-q) * (a - price) = 0 * 0 - (-q) * price
      OBVIOUS
    <3>3. (-q) * (a - price) \in Int /\ q + (-q) = 0
      OBVIOUS
    <3> QED BY <2>1, <3>1, <3>2, <3>3
  <2> QED BY <2>2, <2>3
<1>2. CASE q + d # 0 /\ Magnitude(d) > Magnitude(q)
  <2>1. avg = price
    BY <1>0, <1>2 DEF NewAvg
  <2>2. CASE q > 0
    <3>1. closing = q /\ gain = price - a
      BY <1>0, <1>2, <2>2 DEF Magnitude, Lower, Closing, Gain
    <3>2. q * a + q * (price - a) = (q + d) * price - d * price
      OBVIOUS
    <3>3. q * (price - a) \in Int
      OBVIOUS
    <3> QED BY <2>1, <3>1, <3>2, <3>3
  <2>3. CASE q < 0
    <3>1. closing = -q /\ gain = a - price
      BY <1>0, <1>2, <2>3 DEF Magnitude, Lower, Closing, Gain
    <3>2. q * a + (-q) * (a - price) = (q + d) * price - d * price
      OBVIOUS
    <3>3. (-q) * (a - price) \in Int
      OBVIOUS
    <3> QED BY <2>1, <3>1, <3>2, <3>3
  <2> QED BY <2>2, <2>3
<1>3. CASE q + d # 0 /\ ~(Magnitude(d) > Magnitude(q))
  <2>1. avg = a
    BY <1>0, <1>3 DEF NewAvg
  <2>2. CASE q > 0
    <3>1. closing = -d /\ gain = price - a
      BY <1>0, <1>3, <2>2 DEF Magnitude, Lower, Closing, Gain
    <3>2. q * a + (-d) * (price - a) = (q + d) * a - d * price
      OBVIOUS
    <3>3. (-d) * (price - a) \in Int
      OBVIOUS
    <3> QED BY <2>1, <3>1, <3>2, <3>3
  <2>3. CASE q < 0
    <3>1. closing = d /\ gain = a - price
      BY <1>0, <1>3, <2>3 DEF Magnitude, Lower, Closing, Gain
    <3>2. q * a + d * (a - price) = (q + d) * a - d * price
      OBVIOUS
    <3>3. d * (a - price) \in Int
      OBVIOUS
    <3> QED BY <2>1, <3>1, <3>2, <3>3
  <2> QED BY <2>2, <2>3
<1> QED BY <1>1, <1>2, <1>3

(* Fills that add to a position, close part of it, or turn it round.       *)
LEMMA Signs ==
    ASSUME NEW q \in Int, NEW d \in Int, q # 0, d # 0
    PROVE  /\ (q > 0 <=> d > 0) => ((q > 0 /\ d > 0) \/ (q < 0 /\ d < 0))
           /\ ~(q > 0 <=> d > 0) => ((q > 0 /\ d < 0) \/ (q < 0 /\ d > 0))
<1>1. (q > 0 \/ q < 0) /\ (d > 0 \/ d < 0)
  OBVIOUS
<1>2. ~(q > 0) => q < 0
  BY <1>1
<1>3. ~(d > 0) => d < 0
  BY <1>1
<1>4. ASSUME q > 0 <=> d > 0 PROVE (q > 0 /\ d > 0) \/ (q < 0 /\ d < 0)
  BY <1>2, <1>3, <1>4
<1>5. ASSUME ~(q > 0 <=> d > 0) PROVE (q > 0 /\ d < 0) \/ (q < 0 /\ d > 0)
  BY <1>2, <1>3, <1>5
<1> QED BY <1>4, <1>5

Booked(pos, received) ==
    pos.avg \in Int /\ pos.pnl \in Int /\ pos.pnl = received + pos.qty * pos.avg

(* Whatever a fill does to an entry, realized profit is money received and *)
(* cost of what is held.                                                   *)
LEMMA EntryAccount ==
    ASSUME NEW pos, IsEntry(pos), NEW received \in Int, Booked(pos, received),
           NEW delta \in Int \ {0}, NEW price \in Int, WholeEntry(pos, delta, price)
    PROVE  Booked(UpdatePosition(pos, delta, price), received - delta * price)
<1>1. PICK q, a, p : pos = [qty |-> q, avg |-> a, pnl |-> p]
  BY DEF IsEntry
<1>2. /\ pos.qty = q /\ pos.avg = a /\ pos.pnl = p
      /\ q \in Int /\ a \in Int /\ p \in Int /\ p = received + q * a
  BY <1>1 DEF IsEntry, Booked
<1>3. PICK new : new = UpdatePosition(pos, delta, price)
  OBVIOUS
<1>4. PICK spent, cost : spent = delta * price /\ cost = q * a
  OBVIOUS
<1>5. spent \in Int /\ cost \in Int /\ p = received + cost
  BY <1>2, <1>4
<1>9. q \in Int /\ delta \in Int /\ delta # 0
  BY <1>2
<1>6. CASE q = 0
  <2>1. new = [qty |-> delta, avg |-> price, pnl |-> p]
    BY <1>1, <1>2, <1>3, <1>6 DEF UpdatePosition, Opened
  <2>2. new.qty = delta /\ new.avg = price /\ new.pnl = p
    BY <2>1
  <2>3. cost = 0
    BY <1>2, <1>4, <1>6
  <2>4. p = (received - spent) + spent
    BY <1>5, <2>3
  <2> QED BY <1>2, <1>3, <1>4, <2>2, <2>4 DEF Booked
<1>7. CASE q # 0 /\ (q > 0 <=> delta > 0)
  <2>1. PICK v : v = (Magnitude(pos.qty) * pos.avg + Magnitude(delta) * price)
                         \div Magnitude(pos.qty + delta)
    OBVIOUS
  <2>2. new = [pos EXCEPT !.qty = @ + delta, !.avg = v]
    <3>1. pos.qty # 0 /\ (pos.qty > 0 <=> delta > 0)
      BY <1>2, <1>7
    <3>2. new = Added(delta, price, pos)
      BY <1>3, <3>1, Zenon DEF UpdatePosition
    <3> QED BY <2>1, <3>2, Zenon DEF Added
  <2>3. new.qty = q + delta /\ new.avg = v /\ new.pnl = p
    BY <1>1, <1>2, <2>2
  <2>4. v \in Int
    <3>1. PICK m, n : /\ m = Magnitude(q) * a + Magnitude(delta) * price
                      /\ n = Magnitude(q + delta)
      OBVIOUS
    <3>2. m \in Int
      <4>1. PICK x, y : x = Magnitude(q) /\ y = Magnitude(delta)
        OBVIOUS
      <4>2. x \in Int /\ y \in Int
        BY <1>2, <4>1 DEF Magnitude
      <4>3. x * a + y * price \in Int
        BY <1>2, <4>2
      <4> QED BY <3>1, <4>1, <4>3, Zenon
    <3>3. n \in Nat \ {0}
      BY <1>2, <1>7, <3>1 DEF Magnitude
    <3>4. m \div n \in Int
      BY <3>2, <3>3
    <3> QED BY <1>2, <2>1, <3>1, <3>4, Zenon
  <2>5. v * Magnitude(q + delta) = Magnitude(q) * a + Magnitude(delta) * price
    BY <1>2, <1>3, <1>7, <2>3, Zenon DEF WholeEntry
  <2>6. (q + delta) * v = q * a + delta * price
    <3>1. (q > 0 /\ delta > 0) \/ (q < 0 /\ delta < 0)
      BY <1>7, <1>9, Signs, Zenon
    <3> QED BY <1>2, <2>4, <2>5, <3>1, SameSide
  <2>7. PICK worth : worth = (q + delta) * v
    OBVIOUS
  <2>8. worth = cost + spent
    BY <1>4, <2>6, <2>7, Zenon
  <2>9. p = (received - spent) + worth
    BY <1>5, <2>8
  <2> QED BY <1>2, <1>3, <1>4, <2>3, <2>4, <2>7, <2>9, Zenon DEF Booked
<1>8. CASE q # 0 /\ ~(q > 0 <=> delta > 0)
  <2>1. PICK closing, gain, avg : /\ closing = Closing(q, delta) /\ gain = Gain(q, a, price)
                                  /\ avg = NewAvg(q, delta, a, price)
    OBVIOUS
  <2>2. Min({Magnitude(q), Magnitude(delta)}) = closing
    <3>1. Magnitude(q) \in Int /\ Magnitude(delta) \in Int
      BY <1>2 DEF Magnitude
    <3> QED BY <2>1, <3>1, MinPair DEF Closing
  <2>3. gain = IF q > 0 THEN price - a ELSE a - price
    BY <2>1 DEF Gain
  <2>4. avg = IF q + delta = 0 THEN 0
              ELSE IF Magnitude(delta) > Magnitude(q) THEN price ELSE a
    BY <2>1 DEF NewAvg
  <2>5. new = [qty |-> q + delta, avg |-> avg, pnl |-> p + closing * gain]
    <3>1. pos.qty # 0 /\ ~(pos.qty > 0 <=> delta > 0)
      BY <1>2, <1>8
    <3>2. new = Reduced(delta, price, pos)
      BY <1>3, <3>1, Zenon DEF UpdatePosition
    <3> QED BY <1>2, <2>2, <2>3, <2>4, <3>2, Zenon DEF Reduced, Reversed
  <2>6. /\ avg \in Int /\ closing * gain \in Int
        /\ q * a + closing * gain = (q + delta) * avg - delta * price
    <3>1. (q > 0 /\ delta < 0) \/ (q < 0 /\ delta > 0)
      BY <1>8, <1>9, Signs, Zenon
    <3>2. /\ NewAvg(q, delta, a, price) \in Int /\ Closing(q, delta) * Gain(q, a, price) \in Int
          /\ q * a + Closing(q, delta) * Gain(q, a, price)
                = (q + delta) * NewAvg(q, delta, a, price) - delta * price
      BY <1>2, <1>9, <3>1, OtherSide
    <3> QED BY <2>1, <3>2, Zenon
  <2>7. PICK won, worth : won = closing * gain /\ worth = (q + delta) * avg
    OBVIOUS
  <2>8. won \in Int /\ worth \in Int /\ cost + won = worth - spent
    <3>1. q + delta \in Int
      BY <1>2
    <3>2. (q + delta) * avg \in Int
      BY <2>6, <3>1
    <3> QED BY <1>4, <2>6, <2>7, <3>2, Zenon
  <2>9. p + won \in Int /\ p + won = (received - spent) + worth
    BY <1>5, <2>8
  <2>10. new.qty = q + delta /\ new.avg = avg /\ new.pnl = p + won
    BY <2>5, <2>7
  <2> QED BY <1>3, <1>4, <2>6, <2>7, <2>9, <2>10, Zenon DEF Booked
<1> QED BY <1>6, <1>7, <1>8
-----------------------------------------------------------------------------
(* Whatever it fills, the paper broker accounts for the money, and the     *)
(* unsold lots of a symbol that was never short are what is held.          *)
PaperInv ==
    /\ flow \in [Symbols -> Int]
    /\ \A s \in Symbols : Booked(ledger[s], flow[s])
    /\ \A s \in Symbols \ shorted : ledger[s].qty >= 0
    /\ fills <= MaxHistory =>
           \A s \in Symbols \ shorted : Sound(Matching(s, trades), ledger[s].qty, flow[s])

(* No trades, nothing unsold, no money.                                    *)
LEMMA NoLotsSound == Sound(NoLots, 0, 0)
<1>1. PICK s : s = <<>>
  OBVIOUS
<1>2. NoLots = [lots |-> s, pnl |-> 0]
  BY <1>1 DEF NoLots
<1>3. DOMAIN s = {} /\ IsList(s)
  BY <1>1 DEF IsList
<1>4. /\ SumFunctionOnSet(LotQtys(s), DOMAIN s) = 0
      /\ SumFunctionOnSet(LotCosts(s), DOMAIN s) = 0
  BY <1>3, SumEmpty, Zenon
<1>5. NoLots.lots = s /\ NoLots.pnl = 0
  BY <1>2
<1>6. 0 = 0 + 0 /\ \A n \in DOMAIN s : IsLot(s[n])
  BY <1>3
<1> QED BY <1>2, <1>3, <1>4, <1>5, <1>6, Zenon DEF Sound

(* The paper broker's account holds at the start.                          *)
LEMMA PaperBooks == Init => PaperInv
<1> SUFFICES ASSUME Init PROVE PaperInv
  OBVIOUS
<1>1. /\ ledger = [s \in Symbols |-> Flat] /\ trades = <<>> /\ flow = [s \in Symbols |-> 0]
  BY DEF Init, PaperInit
<1>2. Flat.qty = 0 /\ Flat.avg = 0 /\ Flat.pnl = 0
  BY DEF Flat
<1>3. ASSUME NEW s \in Symbols
      PROVE  /\ Booked(ledger[s], flow[s]) /\ ledger[s].qty >= 0
             /\ Sound(Matching(s, trades), ledger[s].qty, flow[s])
  <2>1. ledger[s] = Flat /\ flow[s] = 0
    BY <1>1
  <2>2. Booked(Flat, 0)
    BY <1>2 DEF Booked
  <2>3. Matching(s, trades) = NoLots
    BY <1>1, MatchEmpty, Zenon
  <2> QED BY <1>2, <2>1, <2>2, <2>3, NoLotsSound
<1> QED BY <1>1, <1>3 DEF PaperInv

(* What an order does to the paper broker.                                 *)
LEMMA ExecuteFills ==
    ASSUME TypeInv, ShapeInv, PaperInv, ExecuteLeg, NEW leg, leg = Head(legs)
    PROVE  /\ NextFill(leg) \in Nat \ {0}
           /\ ledger'[leg.symbol] = UpdatePosition(ledger[leg.symbol],
                                        Signed(leg.side, leg.qty), NextFill(leg))
           /\ trades' = Recent(Append(trades, [symbol |-> leg.symbol, side |-> leg.side,
                                               qty |-> leg.qty, price |-> NextFill(leg)]))
           /\ flow' = [flow EXCEPT ![leg.symbol] =
                           @ - Signed(leg.side, leg.qty) * NextFill(leg)]
           /\ shorted' = shorted \cup {s \in {leg.symbol} : ledger'[s].qty < 0}
<1>1. leg.tok \in Tokens /\ leg.symbol \in Symbols /\ Signed(leg.side, leg.qty) \in Int \ {0}
  BY ExecuteMoves
<1>2. PICK price : price = SimulateFill(feed[leg.tok], leg.side)
  OBVIOUS
<1>3. PICK fill : fill = NextFill(leg)
  OBVIOUS
<1>4. fill = FillPrice(leg.symbol, leg.side, price)
  BY <1>2, <1>3 DEF NextFill
<1>5. /\ feed[leg.tok] > 0
      /\ PlaceOrder(leg.symbol, leg.side, leg.qty, price)
      /\ RecordLeg(leg, price)
  BY <1>2, Zenon DEF ExecuteLeg
<1>6. /\ fill > 0
      /\ ledger' = [ledger EXCEPT ![leg.symbol] = UpdatePosition(ledger[leg.symbol],
                                                      Signed(leg.side, leg.qty), fill)]
      /\ trades' = Recent(Append(trades, [symbol |-> leg.symbol, side |-> leg.side,
                                          qty |-> leg.qty, price |-> fill]))
  BY <1>4, <1>5, Zenon DEF PlaceOrder
<1>7. /\ flow' = [flow EXCEPT ![leg.symbol] = flow[leg.symbol] - Signed(leg.side, leg.qty) * fill]
      /\ shorted' = shorted \cup {s \in {leg.symbol} : ledger'[s].qty < 0}
  BY <1>4, <1>5 DEF RecordLeg
<1>8. fill \in Nat \ {0}
  <2>1. price \in Nat \ {0}
    <3>1. PICK f \in Nat \ {0} : f = feed[leg.tok]
      BY <1>1, <1>5 DEF TypeInv
    <3> QED BY <1>2, <3>1, SlippedPositive
  <2>2. PICK d \in Int : d = price \div Slip
    BY <2>1, PaperAssumption
  <2>3. fill = price + d \/ fill = price - d
    <3>1. fill = price + Signed(leg.side, d)
      BY <1>4, <2>1, <2>2 DEF FillPrice, Slipped
    <3> QED BY <2>1, <2>2, <3>1 DEF Signed
  <2> QED BY <1>6, <2>1, <2>2, <2>3
<1>9. ledger'[leg.symbol] = UpdatePosition(ledger[leg.symbol], Signed(leg.side, leg.qty), fill)
  <2>1. PICK new : new = UpdatePosition(ledger[leg.symbol], Signed(leg.side, leg.qty), fill)
    OBVIOUS
  <2>2. DOMAIN ledger = Symbols
    BY DEF ShapeInv
  <2> QED BY <1>1, <1>6, <2>1, <2>2
<1> QED BY <1>3, <1>6, <1>7, <1>8, <1>9

(* A leg's fill keeps the account of its symbol and extends its matching;  *)
(* other symbols are not touched.                                          *)
LEMMA ExecutePaper ==
    ASSUME TypeInv, ShapeInv, CountInv, PaperInv, WholeAverages, ExecuteLeg
    PROVE  PaperInv'
<1>1. PICK leg : leg = Head(legs)
  OBVIOUS
<1>2. PICK here, delta, fill, q : /\ here = leg.symbol /\ delta = Signed(leg.side, leg.qty)
                                  /\ fill = NextFill(leg) /\ q = leg.qty
  OBVIOUS
<1>3. PICK trade : trade = [symbol |-> here, side |-> leg.side, qty |-> q, price |-> fill]
  OBVIOUS
<1>4. /\ leg \in Orders /\ here \in Symbols /\ delta \in Int \ {0} /\ legs # <<>>
      /\ IsEntry(ledger'[here]) /\ ledger'[here].qty = ledger[here].qty + delta
      /\ \A s \in Symbols \ {here} : ledger'[s] = ledger[s]
  BY <1>1, <1>2, ExecuteMoves
<1>5. /\ fill \in Nat \ {0} /\ ledger'[here] = UpdatePosition(ledger[here], delta, fill)
      /\ trades' = Recent(Append(trades, trade))
      /\ flow' = [flow EXCEPT ![here] = @ - delta * fill]
      /\ shorted' = shorted \cup {s \in {here} : ledger'[s].qty < 0}
  BY <1>1, <1>2, <1>3, ExecuteFills
<1>6. q \in Nat \ {0} /\ leg.side \in {"BUY", "SELL"}
  BY <1>2, <1>4, Bounds DEF Orders
<1>7. PICK spent : spent = delta * fill
  OBVIOUS
<1>8. spent \in Int /\ flow \in [Symbols -> Int]
  BY <1>4, <1>5, <1>7 DEF PaperInv
<1>9. flow' = [flow EXCEPT ![here] = flow[here] - spent]
  BY <1>5, <1>7
<1>10. /\ flow' \in [Symbols -> Int] /\ flow'[here] = flow[here] - spent
       /\ \A s \in Symbols \ {here} : flow'[s] = flow[s]
  BY <1>4, <1>8, <1>9
<1>11. ASSUME NEW s \in Symbols PROVE Booked(ledger'[s], flow'[s])
  <2>1. CASE s # here
    BY <1>4, <1>10, <2>1 DEF PaperInv
  <2>2. CASE s = here
    <3>1. PICK pos, received : pos = ledger[here] /\ received = flow[here]
      OBVIOUS
    <3>2. IsEntry(pos) /\ received \in Int /\ Booked(pos, received)
      BY <1>4, <1>8, <3>1 DEF PaperInv, ShapeInv
    <3>3. WholeEntry(pos, delta, fill)
      <4>1. feed[Head(legs).tok] > 0 /\ legs # <<>>
        BY DEF ExecuteLeg
      <4> QED BY <1>1, <1>2, <3>1, <4>1, Zenon DEF WholeAverages
    <3>4. Booked(UpdatePosition(pos, delta, fill), received - delta * fill)
      BY <1>4, <1>5, <3>2, <3>3, EntryAccount
    <3> QED BY <1>5, <1>7, <1>10, <2>2, <3>1, <3>4, Zenon
  <2> QED BY <2>1, <2>2
<1>12. ASSUME NEW s \in Symbols \ shorted' PROVE s \notin shorted /\ ledger'[s].qty >= 0
  <2>1. s \notin shorted /\ (s = here => ~(ledger'[s].qty < 0))
    BY <1>5
  <2>2. CASE s = here
    <3>1. PICK n \in Int : n = ledger'[s].qty
      BY <1>4, <2>2 DEF IsEntry
    <3> QED BY <2>1, <2>2, <3>1
  <2>3. CASE s # here
    BY <1>4, <2>1, <2>3 DEF PaperInv
  <2> QED BY <2>1, <2>2, <2>3
<1>13. ASSUME fills' <= MaxHistory, NEW s \in Symbols \ shorted'
       PROVE  Sound(Matching(s, trades'), ledger'[s].qty, flow'[s])
  <2>1. fills \in Nat /\ fills' = fills + 1 /\ MaxHistory \in Nat /\ IsList(trades)
    BY ExecuteCounts, Bounds DEF TypeInv, BookFacts!BookInv, BookFacts!TypeOK
  <2>2. fills <= MaxHistory /\ Len(trades) + 1 <= MaxHistory
    <3>1. fills <= MaxHistory
      BY <1>13, <2>1
    <3>2. Len(trades) = fills
      BY <3>1 DEF CountInv
    <3> QED BY <1>13, <2>1, <3>1, <3>2
  <2>3. trades' = Append(trades, trade)
    <3>1. PICK h : h = Append(trades, trade)
      OBVIOUS
    <3>2. Len(h) = Len(trades) + 1 /\ Len(trades) \in Nat
      BY <2>1, <3>1, AppendedList DEF IsList
    <3>3. ~(Len(h) > MaxHistory)
      BY <2>1, <2>2, <3>2
    <3> QED BY <1>5, <3>1, <3>3 DEF Recent
  <2>4. PICK match : match = Matching(s, trades)
    OBVIOUS
  <2>5. Matching(s, trades') = Take(s, match, trade)
    BY <2>1, <2>3, <2>4, MatchAppend, Zenon
  <2>6. PICK held, received : held = ledger[s].qty /\ received = flow[s]
    OBVIOUS
  <2>7. Sound(match, held, received) /\ held \in Int /\ received \in Int
    <3>1. s \notin shorted /\ s \in Symbols
      BY <1>12
    <3>2. IsEntry(ledger[s])
      BY <3>1 DEF ShapeInv
    <3> QED BY <1>8, <2>2, <2>4, <2>6, <3>1, <3>2 DEF PaperInv, IsEntry
  <2>8. trade.symbol = here /\ trade.side = leg.side /\ trade.qty = q /\ trade.price = fill
    BY <1>3
  <2>9. CASE s # here
    <3>1. Matching(s, trades') = match
      BY <2>5, <2>8, <2>9, Zenon DEF Take
    <3>2. ledger'[s].qty = held /\ flow'[s] = received
      BY <1>4, <1>10, <2>6, <2>9
    <3> QED BY <2>7, <3>1, <3>2, Zenon
  <2>10. CASE s = here
    <3>1. IsLot(trade)
      <4>1. fill \in Int /\ q \in Nat
        BY <1>5, <1>6
      <4> QED BY <1>3, <4>1, Zenon DEF IsLot
    <3>2. ledger'[s].qty = held + delta /\ flow'[s] = received - spent /\ held + delta >= 0
      BY <1>4, <1>10, <1>12, <2>6, <2>10
    <3>3. CASE leg.side = "BUY"
      <4>1. delta = q
        BY <1>2, <3>3 DEF Signed
      <4>2. Matching(s, trades') = Bought(match, trade)
        BY <2>5, <2>8, <2>10, <3>3, Zenon DEF Take
      <4>3. Sound(Bought(match, trade), held + trade.qty, received - trade.qty * trade.price)
        BY <2>7, <3>1, BoughtSound
      <4> QED BY <1>7, <2>8, <3>2, <4>1, <4>2, <4>3, Zenon
    <3>4. CASE leg.side = "SELL"
      <4>1. delta = -q
        BY <1>2, <3>4 DEF Signed
      <4>2. Matching(s, trades') = Sold(match, trade)
        <5>1. leg.side # "BUY"
          BY <3>4
        <5> QED BY <2>5, <2>8, <2>10, <5>1, Zenon DEF Take
      <4>3. trade.qty <= held
        BY <1>6, <2>7, <2>8, <3>2, <4>1
      <4>4. Sound(Sold(match, trade), held - trade.qty, received + trade.qty * trade.price)
        BY <2>7, <3>1, <4>3, SoldSound
      <4>5. held + delta = held - q /\ received - spent = received + q * fill
        <5>1. spent = -(q * fill) /\ q * fill \in Int
          BY <1>5, <1>6, <1>7, <4>1
        <5> QED BY <1>6, <2>7, <4>1, <5>1
      <4> QED BY <2>8, <3>2, <4>2, <4>4, <4>5, Zenon
    <3> QED BY <1>6, <3>3, <3>4
  <2> QED BY <2>9, <2>10
<1>14. /\ \A s \in Symbols : Booked(ledger'[s], flow'[s])
       /\ \A s \in Symbols \ shorted' : ledger'[s].qty >= 0
       /\ fills' <= MaxHistory =>
              \A s \in Symbols \ shorted' :
                  Sound(Matching(s, trades'), ledger'[s].qty, flow'[s])
  BY <1>11, <1>12, <1>13
<1> QED BY <1>10, <1>14, Zenon DEF PaperInv

(* Only a leg changes the paper broker's account.                          *)
LEMMA PaperStep ==
    ASSUME TypeInv, ShapeInv, CountInv, PaperInv, WholeAverages, [Next]_vars
    PROVE  PaperInv'
<1>1. ASSUME \/ \E market \in Markets, signal \in Signals, kept \in BOOLEAN :
                    Minute(market, signal, kept)
             \/ SkipLeg \/ EndDay \/ StartDay \/ UNCHANGED vars
      PROVE  PaperInv'
  <2>1. UNCHANGED <<ledger, trades, fills, flow, shorted>>
    BY <1>1 DEF Minute, SkipLeg, EndDay, StartDay, ResetDay, Book!ResetDaily, vars, paperVars,
                bookVars, engineVars, pastVars
  <2> QED BY <2>1 DEF PaperInv
<1>2. CASE ExecuteLeg
  BY <1>2, ExecutePaper
<1> QED BY <1>1, <1>2 DEF Next

(* The invariant implies the property of the run.                          *)
LEMMA PaperSays == ShapeInv /\ PaperInv => PaperPnl
<1> SUFFICES ASSUME ShapeInv, PaperInv, NEW s \in Symbols
             PROVE  /\ ledger[s].pnl = flow[s] + ledger[s].qty * ledger[s].avg
                    /\ ledger[s].qty = 0 /\ s \notin shorted /\ fills <= MaxHistory
                           => TradePnl(s) = ledger[s].pnl
  BY DEF PaperPnl
<1>1. Booked(ledger[s], flow[s]) /\ flow[s] \in Int
  BY DEF PaperInv
<1>2. ledger[s].pnl = flow[s] + ledger[s].qty * ledger[s].avg /\ ledger[s].avg \in Int
  BY <1>1 DEF Booked
<1>3. ASSUME ledger[s].qty = 0, s \notin shorted, fills <= MaxHistory
      PROVE  TradePnl(s) = ledger[s].pnl
  <2>1. PICK match : match = Matching(s, trades)
    OBVIOUS
  <2>2. Sound(match, 0, flow[s])
    BY <1>3, <2>1 DEF PaperInv
  <2>3. match.pnl = flow[s]
    BY <1>1, <2>2, NothingLeft
  <2>4. ledger[s].pnl = flow[s]
    <3>1. PICK a, f, p : a = ledger[s].avg /\ f = flow[s] /\ p = ledger[s].pnl
      OBVIOUS
    <3>2. a \in Int /\ f \in Int /\ p = f + 0 * a
      BY <1>1, <1>2, <1>3, <3>1, Zenon
    <3>3. p = f
      BY <3>2
    <3> QED BY <3>1, <3>3
  <2> QED BY <2>1, <2>3, <2>4 DEF TradePnl
<1> QED BY <1>2, <1>3

(* The paper broker's realised P&L of a symbol is the money of its fills   *)
(* and the cost of what is held, through additions, partial closes and     *)
(* reversals; and a symbol that is flat and was never short has the P&L    *)
(* that the metrics' first-in-first-out pairing of the trade history comes *)
(* to, for any number of lots and trades.                                  *)
THEOREM PaperBrokerPnl ==
    Spec /\ []CalendarLasts /\ []WholeAverages => []PaperPnl
<1>1. /\ TypeInv /\ ShapeInv /\ [Next]_vars => TypeInv'
      /\ TypeInv /\ CountInv /\ [Next]_vars => CountInv'
  BY TypeStep, CountStep
<1>2. TypeInv /\ ShapeInv /\ CountInv /\ PaperInv /\ WholeAverages /\ [Next]_vars => PaperInv'
  BY PaperStep
<1> QED BY <1>1, <1>2, TypeInit, CountInit, PaperBooks, ShapeHolds, PaperSays, PTL DEF Spec
=============================================================================
