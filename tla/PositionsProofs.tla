-------------------------- MODULE PositionsProofs ---------------------------
(***************************************************************************)
(* For every set of strategies, instruments, quantities and prices: the    *)
(* book stays well typed and consistent, and it implements the net ledger. *)
(***************************************************************************)
EXTENDS Positions, SequenceTheorems, TLAPS

(* A fill carries a non-zero signed quantity.                              *)
LEMMA SignedQtyNonZero ==
    ASSUME NEW side \in Sides, NEW qty \in Qtys
    PROVE  SignedQty(side, qty) \in Int /\ SignedQty(side, qty) # 0
  BY BookAssumption DEF SignedQty, Sides

(* Applying a fill to a position gives a position, and moves its quantity  *)
(* by exactly the signed fill quantity.                                    *)
LEMMA FilledPosition ==
    ASSUME NEW pos \in Position, NEW delta \in Int, delta # 0, NEW price \in Int
    PROVE  /\ Filled(pos, delta, price) \in Position
           /\ Filled(pos, delta, price).qty = pos.qty + delta
  <1> DEFINE new == pos.qty + delta
             total == Abs(pos.qty) * pos.avg + Abs(delta) * price
  <1>1. pos.qty \in Int /\ pos.avg \in Int /\ pos.pnl \in Int /\ pos.ltp \in Int
    BY DEF Position
  <1>2. Abs(pos.qty) \in Nat /\ Abs(delta) \in Nat /\ Abs(new) \in Nat
    BY <1>1 DEF Abs
  <1>3. Average(pos, delta, price) \in Int
    <2>1. CASE pos.qty = 0
      BY <2>1 DEF Average
    <2>2. CASE Adds(pos, delta)
      <3>1. Abs(new) > 0
        BY <1>1, <2>2 DEF Adds, Abs
      <3>2. Abs(pos.qty) * pos.avg \in Int /\ Abs(delta) * price \in Int
        BY <1>1, <1>2
      <3>3. total \in Int
        BY <3>2
      <3> HIDE DEF total, new
      <3>4. total \div Abs(new) \in Int
        BY <1>2, <3>1, <3>3
      <3>5. Average(pos, delta, price) = total \div Abs(new)
        BY <2>2, <1>1 DEF Average, Adds, total, new
      <3> QED  BY <3>4, <3>5
    <2>3. CASE pos.qty # 0 /\ ~Adds(pos, delta)
      BY <1>1, <2>3 DEF Average
    <2> QED  BY <2>1, <2>2, <2>3
  <1>4. Realized(pos, delta, price) \in Int
    <2> DEFINE close == Lesser(Abs(pos.qty), Abs(delta))
               gain == IF pos.qty > 0 THEN price - pos.avg ELSE pos.avg - price
    <2>1. close \in Int /\ gain \in Int
      BY <1>1, <1>2 DEF Lesser
    <2> HIDE DEF close, gain
    <2>2. close * gain \in Int
      BY <2>1
    <2>3. Realized(pos, delta, price) = IF Reduces(pos, delta) THEN close * gain ELSE 0
      BY DEF Realized, close, gain
    <2> QED  BY <2>2, <2>3
  <1>5. pos.pnl + Realized(pos, delta, price) \in Int
    BY <1>1, <1>4
  <1> QED  BY <1>1, <1>3, <1>5 DEF Filled, Position

(* What the book holds under a key, held or not, is a position.            *)
LEMMA HeldPosition ==
    ASSUME TypeOK, NEW k \in Keys
    PROVE  Held(k) \in Position
  BY DEF TypeOK, Held, NewPosition, Position
-----------------------------------------------------------------------------
(* Archiving keeps the order of the archive a list of its keys, each once, *)
(* of at most MaxClosed.                                                   *)
LEMMA ArchiveKeeps ==
    ASSUME TypeOK, BookConsistent, NEW k \in Keys, NEW pos \in Position, Archive(k, pos)
    PROVE  /\ DOMAIN closed' \subseteq Keys
           /\ \A x \in DOMAIN closed' : closed'[x] \in Int
           /\ closedOrder' \in Seq(Keys)
           /\ \A x \in DOMAIN closed' : \E i \in 1..Len(closedOrder') : closedOrder'[i] = x
           /\ \A i \in 1..Len(closedOrder') : closedOrder'[i] \in DOMAIN closed'
           /\ \A i, j \in 1..Len(closedOrder') :
                    closedOrder'[i] = closedOrder'[j] => i = j
           /\ Len(closedOrder') <= MaxClosed
  <1> DEFINE order == ArchiveOrder(k)
             held  == DOMAIN closed \cup {k}
  <1>1. /\ order \in Seq(Keys)
        /\ Len(order) <= MaxClosed + 1
        /\ \A x \in held : \E i \in 1..Len(order) : order[i] = x
        /\ \A i \in 1..Len(order) : order[i] \in held
        /\ \A i, j \in 1..Len(order) : order[i] = order[j] => i = j
    <2>1. CASE k \in DOMAIN closed
      <3>1. order = closedOrder /\ held = DOMAIN closed
        BY <2>1 DEF ArchiveOrder
      <3>2. Len(closedOrder) \in Nat /\ Len(closedOrder) <= MaxClosed + 1
        BY BookAssumption DEF TypeOK, BookConsistent
      <3> HIDE DEF order, held
      <3> QED  BY <3>1, <3>2 DEF TypeOK, BookConsistent
    <2>2. CASE k \notin DOMAIN closed
      <3>1. order = Append(closedOrder, k)
        BY <2>2 DEF ArchiveOrder
      <3>2. /\ order \in Seq(Keys)
            /\ Len(order) = Len(closedOrder) + 1
            /\ \A i \in 1..Len(closedOrder) : order[i] = closedOrder[i]
            /\ order[Len(closedOrder) + 1] = k
        BY <3>1, AppendProperties DEF TypeOK
      <3>3. Len(closedOrder) \in Nat /\ Len(closedOrder) <= MaxClosed
        BY DEF TypeOK, BookConsistent
      <3>4. \A i \in 1..Len(closedOrder) : closedOrder[i] # k
        BY <2>2 DEF BookConsistent
      <3> HIDE DEF order
      <3>5. \A x \in held : \E i \in 1..Len(order) : order[i] = x
        <4> SUFFICES ASSUME NEW x \in held
                     PROVE  \E i \in 1..Len(order) : order[i] = x
          OBVIOUS
        <4>1. CASE x = k
          BY <3>2, <3>3, <4>1
        <4>2. CASE x \in DOMAIN closed
          <5>1. PICK i \in 1..Len(closedOrder) : closedOrder[i] = x
            BY <4>2 DEF BookConsistent
          <5>2. i \in 1..Len(order) /\ order[i] = x
            BY <3>2, <3>3, <5>1
          <5> QED  BY <5>2
        <4> QED  BY <4>1, <4>2
      <3>6. \A i \in 1..Len(order) : order[i] \in held
        BY <3>2, <3>3 DEF BookConsistent
      <3>7. \A i, j \in 1..Len(order) : order[i] = order[j] => i = j
        <4> SUFFICES ASSUME NEW i \in 1..Len(order), NEW j \in 1..Len(order),
                            order[i] = order[j]
                     PROVE  i = j
          OBVIOUS
        <4>1. CASE i \in 1..Len(closedOrder) /\ j \in 1..Len(closedOrder)
          <5>1. closedOrder[i] = closedOrder[j]
            BY <3>2, <4>1
          <5> QED BY <4>1, <5>1 DEF BookConsistent
        <4>2. CASE i = Len(closedOrder) + 1 \/ j = Len(closedOrder) + 1
          BY <3>2, <3>3, <3>4, <4>2
        <4> QED  BY <3>2, <3>3, <4>1, <4>2
      <3>8. Len(order) <= MaxClosed + 1
        BY <3>2, <3>3, BookAssumption
      <3> QED  BY <3>2, <3>5, <3>6, <3>7, <3>8
    <2> QED  BY <2>1, <2>2
  <1>2. MaxClosed \in Nat /\ MaxClosed > 0
    BY BookAssumption
  <1> HIDE DEF order
  <1>3. CASE Len(order) > MaxClosed
    <2>1. order # <<>> /\ Len(order) \in Nat
      BY <1>1, <1>2, <1>3, LenProperties, EmptySeq
    <2>2. /\ Tail(order) \in Seq(Keys)
          /\ Len(Tail(order)) = Len(order) - 1
          /\ \A i \in 1..Len(Tail(order)) : Tail(order)[i] = order[i + 1]
          /\ Head(order) = order[1]
      BY <1>1, <2>1, HeadTailProperties
    <2>3. /\ closedOrder' = Tail(order)
          /\ closed' = [x \in held \ {Head(order)} |-> IF x = k THEN pos.pnl ELSE closed[x]]
      BY <1>3 DEF Archive, order
    <2>4. DOMAIN closed' = held \ {Head(order)}
      BY <2>3
    <2>5. \A x \in DOMAIN closed' : closed'[x] \in Int
      BY <2>3, <2>4 DEF TypeOK, Position
    <2>6. \A x \in DOMAIN closed' : \E i \in 1..Len(closedOrder') : closedOrder'[i] = x
      <3> SUFFICES ASSUME NEW x \in DOMAIN closed'
                   PROVE  \E i \in 1..Len(closedOrder') : closedOrder'[i] = x
        OBVIOUS
      <3>1. PICK i \in 1..Len(order) : order[i] = x
        BY <1>1, <2>4
      <3>2. i # 1
        BY <2>2, <2>4, <3>1
      <3>3. i - 1 \in 1..Len(closedOrder') /\ closedOrder'[i - 1] = x
        BY <2>1, <2>2, <2>3, <3>1, <3>2
      <3> QED  BY <3>3
    <2>7. \A i \in 1..Len(closedOrder') : closedOrder'[i] \in DOMAIN closed'
      <3> SUFFICES ASSUME NEW i \in 1..Len(closedOrder')
                   PROVE  closedOrder'[i] \in DOMAIN closed'
        OBVIOUS
      <3>1. i + 1 \in 1..Len(order) /\ 1 \in 1..Len(order) /\ i + 1 # 1
        BY <2>1, <2>2, <2>3
      <3>2. order[i + 1] \in held /\ order[i + 1] # order[1]
        BY <1>1, <3>1
      <3>3. closedOrder'[i] = order[i + 1]
        BY <2>2, <2>3
      <3> QED  BY <2>2, <2>4, <3>2, <3>3
    <2>8. \A i, j \in 1..Len(closedOrder') : closedOrder'[i] = closedOrder'[j] => i = j
      <3> SUFFICES ASSUME NEW i \in 1..Len(closedOrder'), NEW j \in 1..Len(closedOrder'),
                          closedOrder'[i] = closedOrder'[j]
                   PROVE  i = j
        OBVIOUS
      <3>1. i + 1 \in 1..Len(order) /\ j + 1 \in 1..Len(order)
        BY <2>1, <2>2, <2>3
      <3>2. order[i + 1] = order[j + 1]
        BY <2>2, <2>3
      <3> QED  BY <1>1, <3>1, <3>2
    <2>9. DOMAIN closed' \subseteq Keys /\ Len(closedOrder') <= MaxClosed
      BY <1>1, <1>2, <2>1, <2>2, <2>3, <2>4 DEF TypeOK
    <2> QED  BY <2>2, <2>3, <2>5, <2>6, <2>7, <2>8, <2>9
  <1>4. CASE ~(Len(order) > MaxClosed)
    <2>1. /\ closedOrder' = order
          /\ closed' = [x \in held |-> IF x = k THEN pos.pnl ELSE closed[x]]
      BY <1>4 DEF Archive, order
    <2>2. DOMAIN closed' = held /\ \A x \in held : closed'[x] \in Int
      BY <2>1 DEF TypeOK, Position
    <2>3. Len(order) <= MaxClosed
      BY <1>1, <1>2, <1>4, LenProperties
    <2> QED  BY <1>1, <2>1, <2>2, <2>3 DEF TypeOK
  <1> QED  BY <1>3, <1>4
-----------------------------------------------------------------------------
(* One step of each action keeps the type and the consistency of the book. *)
BookInv == TypeOK /\ BookConsistent

(* A fill keeps the book's invariant, in each of its four cases.           *)
LEMMA FillKeepsBook ==
    ASSUME BookInv, NEW k \in Keys, NEW side \in Sides, NEW qty \in Qtys,
           NEW price \in Int, OnOrderFilled(k, side, qty, price)
    PROVE  BookInv'
  <1> DEFINE delta == SignedQty(side, qty)
             pos   == Filled(Held(k), delta, price)
  <1>1. delta \in Int /\ delta # 0 /\ price \in Int
    BY SignedQtyNonZero
  <1>2. Held(k) \in Position
    BY HeldPosition DEF BookInv
  <1> HIDE DEF delta
  <1>3. pos \in Position
    BY <1>1, <1>2, FilledPosition
  <1>4. UpdateFromFill(k, side, qty, price) /\ RecordFill(k, delta, price)
    BY DEF OnOrderFilled, delta
  <1>5. /\ cash' \in [Keys -> Int]
        /\ banked' \in [Keys -> Int]
        /\ last' \in [Keys -> Int]
        /\ trips' \in [Keys -> Nat]
        /\ fills' \in Nat
    <2>1. delta * price \in Int
      BY <1>1
    <2>2. cash[k] - delta * price \in Int
      BY <2>1 DEF BookInv, TypeOK
    <2> DEFINE flow == cash[k] - delta * price
    <2> HIDE DEF flow
    <2>3. /\ cash' = [cash EXCEPT ![k] = IF Held(k).qty + delta = 0 THEN 0 ELSE flow]
          /\ banked' = [banked EXCEPT ![k] =
                            IF Held(k).qty + delta = 0 THEN @ + flow ELSE @]
          /\ last' = [last EXCEPT ![k] = IF Held(k).qty + delta = 0 THEN flow ELSE @]
          /\ trips' = [trips EXCEPT ![k] = IF Held(k).qty + delta = 0 THEN @ + 1 ELSE @]
          /\ fills' = fills + 1
      BY <1>4 DEF RecordFill, flow
    <2>4. flow \in Int
      BY <2>2 DEF flow
    <2> QED  BY <2>3, <2>4 DEF BookInv, TypeOK
  <1>6. CASE pos.qty = 0
    <2>1. /\ positions' = [x \in DOMAIN positions \ {k} |-> positions[x]]
          /\ Archive(k, pos)
      BY <1>4, <1>6 DEF UpdateFromFill, delta, pos
    <2>2. /\ DOMAIN positions' \subseteq Keys
          /\ \A x \in DOMAIN positions' : positions'[x] \in Position /\ positions'[x].qty # 0
      BY <2>1 DEF BookInv, TypeOK, BookConsistent
    <2> HIDE DEF pos
    <2> QED  BY <1>3, <1>5, <2>1, <2>2, ArchiveKeeps DEF BookInv, TypeOK, BookConsistent
  <1>7. CASE pos.qty # 0
    <2>1. /\ positions' = [x \in DOMAIN positions \cup {k} |->
                                IF x = k THEN pos ELSE positions[x]]
          /\ UNCHANGED <<closed, closedOrder>>
      BY <1>4, <1>7 DEF UpdateFromFill, delta, pos
    <2> HIDE DEF pos
    <2>2. /\ DOMAIN positions' \subseteq Keys
          /\ \A x \in DOMAIN positions' : positions'[x] \in Position /\ positions'[x].qty # 0
      BY <1>3, <1>7, <2>1 DEF BookInv, TypeOK, BookConsistent
    <2> QED  BY <1>5, <2>1, <2>2 DEF BookInv, TypeOK, BookConsistent
  <1> QED  BY <1>6, <1>7

(* A tick changes prices only.                                             *)
LEMMA LtpKeepsBook ==
    ASSUME BookInv, NEW token \in Tokens, NEW ltp \in Prices, UpdateLtp(token, ltp)
    PROVE  BookInv'
  <1>1. ltp \in Int
    BY BookAssumption
  <1>2. /\ DOMAIN positions' = DOMAIN positions
        /\ \A k \in DOMAIN positions :
                positions'[k] = IF k[2] = token
                                THEN [positions[k] EXCEPT !.ltp = ltp]
                                ELSE positions[k]
    BY DEF UpdateLtp
  <1>3. \A k \in DOMAIN positions :
            positions'[k] \in Position /\ positions'[k].qty = positions[k].qty
    BY <1>1, <1>2 DEF BookInv, TypeOK, Position
  <1> QED  BY <1>2, <1>3 DEF UpdateLtp, history, BookInv, TypeOK, BookConsistent

(* The daily reset empties the archive and its order.                      *)
LEMMA ResetKeepsBook ==
    ASSUME BookInv, ResetDaily
    PROVE  BookInv'
  <1>1. closedOrder' \in Seq(Keys) /\ Len(closedOrder') = 0
    BY EmptySeq DEF ResetDaily
  <1>2. MaxClosed \in Nat
    BY BookAssumption
  <1> QED  BY <1>1, <1>2 DEF ResetDaily, BookInv, TypeOK, BookConsistent

(* The empty book satisfies the invariant.                                 *)
LEMMA InitBook == Init => BookInv
  <1> SUFFICES ASSUME Init PROVE BookInv
    OBVIOUS
  <1>1. closedOrder \in Seq(Keys) /\ Len(closedOrder) = 0
    BY EmptySeq DEF Init
  <1>2. MaxClosed \in Nat
    BY BookAssumption
  <1> QED  BY <1>1, <1>2 DEF Init, BookInv, TypeOK, BookConsistent

(* Every step keeps it.                                                    *)
LEMMA NextKeepsBook == BookInv /\ [Next]_vars => BookInv'
  <1> SUFFICES ASSUME BookInv, [Next]_vars PROVE BookInv'
    OBVIOUS
  <1>1. CASE \E k \in Keys, side \in Sides, qty \in Qtys, price \in Prices :
                OnOrderFilled(k, side, qty, price)
    BY <1>1, FillKeepsBook, BookAssumption
  <1>2. CASE \E token \in Tokens, ltp \in Prices : UpdateLtp(token, ltp)
    BY <1>2, LtpKeepsBook
  <1>3. CASE ResetDaily
    BY <1>3, ResetKeepsBook
  <1>4. CASE UNCHANGED vars
    BY <1>4 DEF vars, book, history, BookInv, TypeOK, BookConsistent
  <1> QED  BY <1>1, <1>2, <1>3, <1>4 DEF Next

(* Hence it always holds.                                                  *)
LEMMA BookInvariant == Spec => []BookInv
  BY InitBook, NextKeepsBook, PTL DEF Spec

(* Every variable of the book keeps its type.                              *)
THEOREM TypeCorrect == Spec => []TypeOK
  <1>1. BookInv => TypeOK
    BY DEF BookInv
  <1> QED  BY <1>1, BookInvariant, PTL

(* No flat position stays open, and the archive's trimming order lists its *)
(* keys once each, within its bound: for every set of keys and every       *)
(* MAX_CLOSED_POSITIONS.                                                   *)
THEOREM BookStaysConsistent == Spec => []BookConsistent
  <1>1. BookInv => BookConsistent
    BY DEF BookInv
  <1> QED  BY <1>1, BookInvariant, PTL
-----------------------------------------------------------------------------
(* The refinement: each step of the book is a fill of the ledger or leaves *)
(* every net quantity alone.                                               *)
NetOf == [k \in Keys |-> NetQuantity(k)]

(* A fill moves the net quantity of its key by the signed quantity, and no *)
(* other.                                                                  *)
LEMMA FillMovesNet ==
    ASSUME BookInv, NEW k \in Keys, NEW side \in Sides, NEW qty \in Qtys,
           NEW price \in Prices, OnOrderFilled(k, side, qty, price)
    PROVE  NetOf' = [NetOf EXCEPT ![k] = @ + SignedQty(side, qty)]
  <1> DEFINE delta == SignedQty(side, qty)
             pos   == Filled(Held(k), delta, price)
  <1>1. delta \in Int /\ delta # 0 /\ price \in Int
    BY SignedQtyNonZero, BookAssumption
  <1>2. Held(k) \in Position
    BY HeldPosition DEF BookInv
  <1> HIDE DEF delta
  <1>3. pos.qty = Held(k).qty + delta
    BY <1>1, <1>2, FilledPosition
  <1>4. UpdateFromFill(k, side, qty, price)
    BY DEF OnOrderFilled
  <1>5. NetQuantity(k)' = pos.qty
    <2>1. CASE pos.qty = 0
      <3>1. positions' = [x \in DOMAIN positions \ {k} |-> positions[x]]
        BY <1>4, <2>1 DEF UpdateFromFill, delta, pos
      <3>2. k \notin DOMAIN positions'
        BY <3>1
      <3> QED  BY <2>1, <3>2 DEF NetQuantity, Held, NewPosition
    <2>2. CASE pos.qty # 0
      <3>1. positions' = [x \in DOMAIN positions \cup {k} |->
                                IF x = k THEN pos ELSE positions[x]]
        BY <1>4, <2>2 DEF UpdateFromFill, delta, pos
      <3> HIDE DEF pos
      <3> QED  BY <3>1 DEF NetQuantity, Held
    <2> QED  BY <2>1, <2>2
  <1>6. \A x \in Keys \ {k} : NetQuantity(x)' = NetQuantity(x)
    <2> SUFFICES ASSUME NEW x \in Keys \ {k} PROVE NetQuantity(x)' = NetQuantity(x)
      OBVIOUS
    <2>1. (x \in DOMAIN positions' <=> x \in DOMAIN positions)
          /\ (x \in DOMAIN positions => positions'[x] = positions[x])
      <3>1. CASE pos.qty = 0
        BY <1>4, <3>1 DEF UpdateFromFill, delta, pos
      <3>2. CASE pos.qty # 0
        BY <1>4, <3>2 DEF UpdateFromFill, delta, pos
      <3> QED  BY <3>1, <3>2
    <2> QED  BY <2>1 DEF NetQuantity, Held
  <1>7. NetOf[k] = Held(k).qty
    BY DEF NetOf, NetQuantity
  <1> QED  BY <1>3, <1>5, <1>6, <1>7 DEF NetOf, delta

(* Net quantities depend on the open positions' quantities only.           *)
LEMMA NetUnmoved ==
    ASSUME DOMAIN positions' = DOMAIN positions,
           \A k \in DOMAIN positions : positions'[k].qty = positions[k].qty
    PROVE  NetOf' = NetOf
  BY DEF NetOf, NetQuantity, Held

(* get_net_quantity implements the abstract net ledger.                    *)
THEOREM NetLedgerRefined == Spec => NetLedger
  <1>1. Init => Net!Init
    BY DEF Init, Net!Init, NetQuantity, Held, NewPosition
  <1>2. BookInv /\ [Next]_vars => [Net!Next]_NetOf
    <2> SUFFICES ASSUME BookInv, [Next]_vars PROVE [Net!Next]_NetOf
      OBVIOUS
    <2>1. CASE \E k \in Keys, side \in Sides, qty \in Qtys, price \in Prices :
                  OnOrderFilled(k, side, qty, price)
      <3>1. PICK k \in Keys, side \in Sides, qty \in Qtys, price \in Prices :
                OnOrderFilled(k, side, qty, price)
        BY <2>1
      <3>2. SignedQty(side, qty) \in Deltas
        BY DEF Deltas
      <3>3. Net!Fill(k, SignedQty(side, qty))
        BY <3>1, FillMovesNet DEF Net!Fill, NetOf
      <3> QED  BY <3>2, <3>3 DEF Net!Next
    <2>2. CASE \E token \in Tokens, ltp \in Prices : UpdateLtp(token, ltp)
      <3>1. PICK token \in Tokens, ltp \in Prices : UpdateLtp(token, ltp)
        BY <2>2
      <3>2. /\ DOMAIN positions' = DOMAIN positions
            /\ \A k \in DOMAIN positions : positions'[k].qty = positions[k].qty
        BY <3>1 DEF UpdateLtp, BookInv, TypeOK, Position
      <3> QED  BY <3>2, NetUnmoved
    <2>3. CASE ResetDaily
      BY <2>3, NetUnmoved DEF ResetDaily
    <2>4. CASE UNCHANGED vars
      BY <2>4, NetUnmoved DEF vars, book
    <2> QED  BY <2>1, <2>2, <2>3, <2>4 DEF Next
  <1>3. Spec => Net!Spec
    BY <1>1, <1>2, BookInvariant, PTL DEF Spec, Net!Spec, NetOf
  <1> QED  BY <1>3 DEF NetLedger
-----------------------------------------------------------------------------
(* The money of the book.  Python's Decimal keeps an average to 28 digits; *)
(* the model's integers round it down, which loses money.  What follows is *)
(* of behaviours in which every average is a whole number, as the prices   *)
(* of MCPositions make them.                                               *)
WholeAverage(pos, delta, price) ==
    Adds(pos, delta) =>
        Average(pos, delta, price) * Abs(pos.qty + delta)
            = Abs(pos.qty) * pos.avg + Abs(delta) * price

ExactAverages ==
    \A k \in Keys, side \in Sides, qty \in Qtys, price \in Prices :
        OnOrderFilled(k, side, qty, price)
            => WholeAverage(Held(k), SignedQty(side, qty), price)

(* The cost of what is held and the realised P&L account for the cash.     *)
Accounts(pos, money) == pos.pnl - pos.qty * pos.avg = money

(* A fill keeps the account, and a fill that makes the position flat turns *)
(* all of the cash into realised P&L.                                      *)
LEMMA FillKeepsAccount ==
    ASSUME NEW q \in Int, NEW avg \in Int, NEW pnl \in Int, NEW ltp \in Int,
           NEW pos, pos = [qty |-> q, avg |-> avg, pnl |-> pnl, ltp |-> ltp],
           NEW delta \in Int, delta # 0, NEW price \in Int, NEW money \in Int,
           Accounts(pos, money), WholeAverage(pos, delta, price)
    PROVE  /\ Accounts(Filled(pos, delta, price), money - delta * price)
           /\ q # 0 /\ q + delta = 0 => Filled(pos, delta, price).pnl = money - delta * price
  <1> DEFINE new == Filled(pos, delta, price)
  <1>1. pnl - q * avg = money
    BY DEF Accounts
  <1>2. /\ new.qty = q + delta /\ new.avg = Average(pos, delta, price)
        /\ new.pnl = pnl + Realized(pos, delta, price)
    BY DEF Filled
  <1> HIDE DEF new
  <1>3. CASE q = 0
    <2>1. new.avg = price /\ new.pnl = pnl + 0
      BY <1>2, <1>3 DEF Average, Realized, Reduces
    <2>2. q * avg = 0 /\ (q + delta) * price = delta * price
      BY <1>3
    <2>3. delta * price \in Int
      OBVIOUS
    <2> QED  BY <1>1, <1>2, <1>3, <2>1, <2>2, <2>3 DEF Accounts, new
  <1>4. CASE q # 0 /\ (q > 0 <=> delta > 0)
    <2>1. Adds(pos, delta) /\ ~Reduces(pos, delta)
      BY <1>4 DEF Adds, Reduces
    <2>2. new.pnl = pnl
      BY <1>2, <2>1 DEF Realized
    <2> DEFINE a == Average(pos, delta, price)
    <2>3. a * Abs(q + delta) = Abs(q) * avg + Abs(delta) * price
      BY <2>1 DEF WholeAverage
    <2>4. a \in Int
      <3>1. pos \in Position
        BY DEF Position
      <3>2. Filled(pos, delta, price) \in Position
        BY <3>1, FilledPosition
      <3>3. new.avg \in Int
        BY <3>2 DEF Position, new
      <3> QED  BY <1>2, <3>3
    <2> HIDE DEF a
    <2>5. (q + delta) * a = q * avg + delta * price
      <3>1. CASE q > 0
        <4>1. Abs(q + delta) = q + delta /\ Abs(q) = q /\ Abs(delta) = delta
          BY <1>4, <3>1 DEF Abs
        <4>2. a * (q + delta) = (q + delta) * a
          BY <2>4
        <4> QED  BY <2>3, <4>1, <4>2
      <3>2. CASE q < 0
        <4>1. Abs(q + delta) = -(q + delta) /\ Abs(q) = -q /\ Abs(delta) = -delta
          BY <1>4, <3>2 DEF Abs
        <4>2. a * (-(q + delta)) = -((q + delta) * a) /\ (-q) * avg = -(q * avg)
              /\ (-delta) * price = -(delta * price)
          BY <2>4
        <4>3. q * avg \in Int /\ delta * price \in Int /\ (q + delta) * a \in Int
          BY <2>4
        <4> QED  BY <2>3, <4>1, <4>2, <4>3
      <3> QED  BY <1>4, <3>1, <3>2
    <2>6. q * avg \in Int /\ delta * price \in Int
      OBVIOUS
    <2>7. new.qty = q + delta /\ new.avg = a /\ q + delta # 0
      BY <1>2, <1>4 DEF a
    <2> QED  BY <1>1, <2>2, <2>5, <2>6, <2>7 DEF Accounts, new
  <1>5. CASE q # 0 /\ ~(q > 0 <=> delta > 0)
    <2>1. Reduces(pos, delta) /\ ~Adds(pos, delta)
      BY <1>5 DEF Adds, Reduces
    <2> DEFINE close == Lesser(Abs(q), Abs(delta))
               gain == IF q > 0 THEN price - avg ELSE avg - price
    <2>2. new.pnl = pnl + close * gain
      BY <1>2, <2>1 DEF Realized
    <2>3. CASE Abs(delta) < Abs(q)
      <3>1. close = Abs(delta) /\ new.avg = avg /\ q + delta # 0
        BY <1>2, <1>5, <2>1, <2>3 DEF Average, Lesser, Abs
      <3>2. close * gain = delta * avg - delta * price
        <4>1. CASE q > 0
          <5>1. close = -delta /\ gain = price - avg
            BY <1>5, <3>1, <4>1 DEF Abs
          <5>2. (-delta) * (price - avg) = delta * avg - delta * price
            OBVIOUS
          <5> QED  BY <5>1, <5>2
        <4>2. CASE q < 0
          <5>1. close = delta /\ gain = avg - price
            BY <1>5, <3>1, <4>2 DEF Abs
          <5>2. delta * (avg - price) = delta * avg - delta * price
            OBVIOUS
          <5> QED  BY <5>1, <5>2
        <4> QED  BY <1>5, <4>1, <4>2
      <3>3. (q + delta) * avg = q * avg + delta * avg
        OBVIOUS
      <3>4. q * avg \in Int /\ delta * price \in Int /\ delta * avg \in Int
        OBVIOUS
      <3> HIDE DEF close, gain
      <3> QED  BY <1>1, <1>2, <2>2, <3>1, <3>2, <3>3, <3>4 DEF Accounts, new
    <2>4. CASE ~(Abs(delta) < Abs(q))
      <3>1. close = Abs(q)
        BY <2>4 DEF Lesser, Abs
      <3>2. close * gain = q * price - q * avg
        <4>1. CASE q > 0
          <5>1. close = q /\ gain = price - avg
            BY <3>1, <4>1 DEF Abs
          <5>2. q * (price - avg) = q * price - q * avg
            OBVIOUS
          <5> QED  BY <5>1, <5>2
        <4>2. CASE q < 0
          <5>1. close = -q /\ gain = avg - price
            BY <3>1, <4>2 DEF Abs
          <5>2. (-q) * (avg - price) = q * price - q * avg
            OBVIOUS
          <5> QED  BY <5>1, <5>2
        <4> QED  BY <1>5, <4>1, <4>2
      <3>4. q * avg \in Int /\ delta * price \in Int /\ q * price \in Int
        OBVIOUS
      <3> HIDE DEF close, gain
      <3>5. new.pnl = money + q * price
        BY <1>1, <2>2, <3>2, <3>4
      <3>6. CASE q + delta = 0
        <4>1. delta * price = -(q * price)
          <5>1. delta = -q
            BY <3>6
          <5> QED  BY <5>1
        <4>2. new.qty = 0 /\ new.avg = 0
          BY <1>2, <1>5, <2>1, <3>6 DEF Average
        <4>3. new.pnl = money - delta * price
          BY <3>4, <3>5, <4>1
        <4> QED  BY <3>4, <4>2, <4>3 DEF Accounts, new
      <3>7. CASE q + delta # 0
        <4>1. new.avg = price
          BY <1>2, <1>5, <2>1, <2>4, <3>7 DEF Average, Abs
        <4>2. (q + delta) * price = q * price + delta * price
          OBVIOUS
        <4> QED  BY <1>2, <3>4, <3>5, <3>7, <4>1, <4>2 DEF Accounts, new
      <3> QED  BY <3>6, <3>7
    <2> QED  BY <2>3, <2>4
  <1> QED  BY <1>3, <1>4, <1>5
-----------------------------------------------------------------------------
(* Every open position accounts for its cash, a flat key has none, and the *)
(* archive has the money of a key's last round trip, which is all of the   *)
(* day's if there was no other.                                            *)
MoneyInv ==
    /\ \A k \in DOMAIN positions : Accounts(positions[k], cash[k])
    /\ \A k \in Keys \ DOMAIN positions : cash[k] = 0
    /\ \A k \in Keys : trips[k] = 0 => banked[k] = 0
    /\ \A k \in Keys : trips[k] = 1 => last[k] = banked[k]
    /\ \A k \in DOMAIN closed : closed[k] = last[k]

(* The account of a key, whether or not a position is open.                *)
LEMMA HeldAccounts ==
    ASSUME BookInv, MoneyInv, NEW k \in Keys
    PROVE  Accounts(Held(k), cash[k])
  BY DEF MoneyInv, Held, NewPosition, Accounts

(* Archiving writes the P&L of the key's position and no other entry.      *)
LEMMA ArchiveEntries ==
    ASSUME TypeOK, NEW k \in Keys, NEW pos, Archive(k, pos), NEW x \in DOMAIN closed'
    PROVE  closed'[x] = IF x = k THEN pos.pnl ELSE closed[x]
  BY DEF Archive

(* The archive has keys of the book.                                       *)
LEMMA ArchiveDomain ==
    ASSUME TypeOK, NEW k \in Keys, NEW pos, Archive(k, pos)
    PROVE  DOMAIN closed' \subseteq DOMAIN closed \cup {k}
  BY DEF Archive

(* A fill with an exact average moves cash, what is held and the realized  *)
(* profit of its key together.                                             *)
LEMMA FillKeepsMoney ==
    ASSUME BookInv, MoneyInv, NEW k \in Keys, NEW side \in Sides, NEW qty \in Qtys,
           NEW price \in Int, OnOrderFilled(k, side, qty, price),
           WholeAverage(Held(k), SignedQty(side, qty), price)
    PROVE  MoneyInv'
  <1> DEFINE delta == SignedQty(side, qty)
             pos   == Filled(Held(k), delta, price)
             flow  == cash[k] - delta * price
  <1>1. delta \in Int /\ delta # 0 /\ price \in Int
    BY SignedQtyNonZero
  <1>2. Held(k) \in Position /\ cash[k] \in Int /\ Accounts(Held(k), cash[k])
    BY HeldPosition, HeldAccounts DEF BookInv, TypeOK
  <1>3. UpdateFromFill(k, side, qty, price) /\ RecordFill(k, delta, price)
    BY DEF OnOrderFilled
  <1>4. WholeAverage(Held(k), delta, price)
    OBVIOUS
  <1> HIDE DEF delta
  <1>5. /\ Accounts(pos, flow)
        /\ Held(k).qty # 0 /\ Held(k).qty + delta = 0 => pos.pnl = flow
    <2>1. PICK h \in Position : h = Held(k)
      BY <1>2
    <2>2. PICK m \in Int : m = cash[k]
      BY <1>2
    <2>3. /\ h.qty \in Int /\ h.avg \in Int /\ h.pnl \in Int /\ h.ltp \in Int
          /\ h = [qty |-> h.qty, avg |-> h.avg, pnl |-> h.pnl, ltp |-> h.ltp]
      BY DEF Position
    <2>4. /\ Accounts(Filled(h, delta, price), m - delta * price)
          /\ h.qty # 0 /\ h.qty + delta = 0 => Filled(h, delta, price).pnl = m - delta * price
      BY <1>1, <1>2, <1>4, <2>1, <2>2, <2>3, FillKeepsAccount
    <2> QED  BY <2>1, <2>2, <2>4
  <1>6. flow \in Int
    <2>1. delta * price \in Int
      BY <1>1
    <2> QED  BY <1>2, <2>1
  <1>7. pos.qty = Held(k).qty + delta
    BY DEF Filled
  <1>8. /\ cash' = [cash EXCEPT ![k] = IF Held(k).qty + delta = 0 THEN 0 ELSE flow]
        /\ banked' = [banked EXCEPT ![k] =
                          IF Held(k).qty + delta = 0 THEN banked[k] + flow ELSE banked[k]]
        /\ last' = [last EXCEPT ![k] = IF Held(k).qty + delta = 0 THEN flow ELSE last[k]]
        /\ trips' = [trips EXCEPT ![k] =
                         IF Held(k).qty + delta = 0 THEN trips[k] + 1 ELSE trips[k]]
    BY <1>3 DEF RecordFill
  <1>9. /\ cash \in [Keys -> Int] /\ banked \in [Keys -> Int]
        /\ last \in [Keys -> Int] /\ trips \in [Keys -> Nat]
        /\ DOMAIN positions \subseteq Keys /\ DOMAIN closed \subseteq Keys
    BY DEF BookInv, TypeOK
  <1>10. \A x \in Keys : x # k => /\ cash'[x] = cash[x] /\ banked'[x] = banked[x]
                                 /\ last'[x] = last[x] /\ trips'[x] = trips[x]
    BY <1>8, <1>9
  <1>11. CASE pos.qty = 0
    <2>1. /\ positions' = [x \in DOMAIN positions \ {k} |-> positions[x]]
          /\ Archive(k, pos)
      BY <1>3, <1>11 DEF UpdateFromFill, delta, pos
    <2>2. Held(k).qty # 0 /\ pos.pnl = flow
      <3>1. Held(k).qty \in Int
        BY <1>2 DEF Position
      <3>2. Held(k).qty # 0
        BY <1>1, <1>7, <1>11, <3>1
      <3> QED  BY <1>5, <1>7, <1>11, <3>2
    <2> HIDE DEF pos, flow
    <2>3. /\ cash'[k] = 0 /\ banked'[k] = banked[k] + flow
          /\ last'[k] = flow /\ trips'[k] = trips[k] + 1
      BY <1>7, <1>8, <1>9, <1>11
    <2>4. \A x \in DOMAIN positions' : Accounts(positions'[x], cash'[x])
      BY <1>9, <1>10, <2>1 DEF MoneyInv
    <2>5. \A x \in Keys \ DOMAIN positions' : cash'[x] = 0
      BY <1>10, <2>1, <2>3 DEF MoneyInv
    <2>6. \A x \in Keys : trips'[x] = 0 => banked'[x] = 0
      BY <1>9, <1>10, <2>3 DEF MoneyInv
    <2>7. ASSUME NEW x \in DOMAIN closed' PROVE closed'[x] = last'[x]
      <3>1. x \in DOMAIN closed \cup {k} /\ closed'[x] = IF x = k THEN pos.pnl ELSE closed[x]
        BY <2>1, ArchiveEntries, ArchiveDomain DEF BookInv
      <3> QED  BY <1>9, <1>10, <2>2, <2>3, <3>1 DEF MoneyInv
    <2>8. ASSUME NEW x \in Keys, trips'[x] = 1 PROVE last'[x] = banked'[x]
      <3>1. CASE x = k
        <4>1. trips[k] = 0 /\ trips[k] \in Nat
          BY <1>9, <2>3, <2>8, <3>1
        <4>2. banked[k] = 0
          BY <4>1 DEF MoneyInv
        <4> QED  BY <1>6, <2>3, <3>1, <4>2
      <3>2. CASE x # k
        BY <1>10, <2>8, <3>2 DEF MoneyInv
      <3> QED  BY <3>1, <3>2
    <2> QED  BY <2>4, <2>5, <2>6, <2>7, <2>8 DEF MoneyInv
  <1>12. CASE pos.qty # 0
    <2>1. /\ positions' = [x \in DOMAIN positions \cup {k} |->
                                IF x = k THEN pos ELSE positions[x]]
          /\ closed' = closed
      BY <1>3, <1>12 DEF UpdateFromFill, delta, pos
    <2> HIDE DEF pos, flow
    <2>2. /\ cash'[k] = flow /\ banked'[k] = banked[k]
          /\ last'[k] = last[k] /\ trips'[k] = trips[k]
      BY <1>7, <1>8, <1>9, <1>12
    <2>3. \A x \in DOMAIN positions' : Accounts(positions'[x], cash'[x])
      BY <1>5, <1>9, <1>10, <2>1, <2>2 DEF MoneyInv
    <2>4. \A x \in Keys \ DOMAIN positions' : cash'[x] = 0
      BY <1>10, <2>1 DEF MoneyInv
    <2>5. \A x \in Keys : /\ banked'[x] = banked[x] /\ last'[x] = last[x]
                         /\ trips'[x] = trips[x]
      BY <1>10, <2>2
    <2> QED  BY <1>9, <2>1, <2>3, <2>4, <2>5 DEF MoneyInv
  <1> QED  BY <1>11, <1>12

(* Every step keeps the account of money.                                  *)
LEMMA NextKeepsMoney ==
    ASSUME BookInv, MoneyInv, [Next]_vars, [ExactAverages]_vars
    PROVE  MoneyInv'
  <1>1. CASE \E k \in Keys, side \in Sides, qty \in Qtys, price \in Prices :
                OnOrderFilled(k, side, qty, price)
    <2>1. PICK k \in Keys, side \in Sides, qty \in Qtys, price \in Prices :
                OnOrderFilled(k, side, qty, price)
      BY <1>1
    <2>2. fills' # fills
      BY <2>1 DEF OnOrderFilled, RecordFill, BookInv, TypeOK
    <2>3. ExactAverages
      BY <2>2 DEF vars, history
    <2> QED  BY <2>1, <2>3, FillKeepsMoney, BookAssumption DEF ExactAverages
  <1>2. CASE \E token \in Tokens, ltp \in Prices : UpdateLtp(token, ltp)
    <2>1. PICK token \in Tokens, ltp \in Prices : UpdateLtp(token, ltp)
      BY <1>2
    <2>2. /\ DOMAIN positions' = DOMAIN positions
          /\ \A k \in DOMAIN positions :
                 /\ positions'[k].qty = positions[k].qty /\ positions'[k].avg = positions[k].avg
                 /\ positions'[k].pnl = positions[k].pnl
          /\ UNCHANGED <<closed, history>>
      BY <2>1 DEF UpdateLtp, BookInv, TypeOK, Position
    <2> QED  BY <2>2 DEF MoneyInv, Accounts, history
  <1>3. CASE ResetDaily
    BY <1>3 DEF ResetDaily, MoneyInv
  <1>4. CASE UNCHANGED vars
    BY <1>4 DEF vars, book, history, MoneyInv
  <1> QED  BY <1>1, <1>2, <1>3, <1>4 DEF Next

(* Hence it holds as long as averages are exact.                           *)
LEMMA MoneyInvariant == Spec /\ [][ExactAverages]_vars => []MoneyInv
  <1>1. Init => MoneyInv
    BY DEF Init, MoneyInv
  <1>2. BookInv /\ MoneyInv /\ [Next]_vars /\ [ExactAverages]_vars => MoneyInv'
    BY NextKeepsMoney
  <1> QED  BY <1>1, <1>2, BookInvariant, PTL DEF Spec

(* Realised and unrealised P&L together are the cash that changed hands    *)
(* and the value of what is held, through averaging, partial closes and    *)
(* reversals, for any quantities and prices.                               *)
THEOREM MoneyConserved == Spec /\ [][ExactAverages]_vars => []MarkToMarket
  <1>1. BookInv /\ MoneyInv => MarkToMarket
    <2> SUFFICES ASSUME BookInv, MoneyInv, NEW k \in DOMAIN positions
                 PROVE  positions[k].pnl + Unrealized(positions[k])
                            = cash[k] + positions[k].qty * positions[k].ltp
      BY DEF MarkToMarket
    <2>1. PICK pos : pos = positions[k]
      OBVIOUS
    <2>2. pos \in Position /\ cash[k] \in Int /\ pos.qty # 0 /\ Accounts(pos, cash[k])
      BY <2>1 DEF BookInv, TypeOK, BookConsistent, MoneyInv
    <2>3. pos.qty \in Int /\ pos.avg \in Int /\ pos.pnl \in Int /\ pos.ltp \in Int
      BY <2>2 DEF Position
    <2>4. pos.qty * pos.ltp \in Int /\ pos.qty * pos.avg \in Int
      BY <2>3
    <2>5. Unrealized(pos) = pos.qty * pos.ltp - pos.qty * pos.avg
      <3>1. CASE pos.qty > 0
        BY <2>3, <3>1 DEF Unrealized
      <3>2. CASE pos.qty < 0
        <4>1. Abs(pos.qty) = -pos.qty /\ ~(pos.qty > 0)
          BY <2>3, <3>2 DEF Abs
        <4>2. (-pos.qty) * (pos.avg - pos.ltp) = pos.qty * pos.ltp - pos.qty * pos.avg
          BY <2>3
        <4> QED  BY <4>1, <4>2 DEF Unrealized
      <3> QED  BY <2>2, <2>3, <3>1, <3>2
    <2>6. pos.pnl - pos.qty * pos.avg = cash[k]
      BY <2>2 DEF Accounts
    <2>7. pos.pnl + Unrealized(pos) = cash[k] + pos.qty * pos.ltp
      BY <2>3, <2>4, <2>5, <2>6
    <2> QED  BY <2>1, <2>7
  <1> QED  BY <1>1, BookInvariant, MoneyInvariant, PTL

(* An archived key shows the money of its last round trip, whatever its    *)
(* averages, partial closes and reversals were, and however often it was   *)
(* closed, reopened and trimmed before.                                    *)
THEOREM TripPnlReported == Spec /\ [][ExactAverages]_vars => []LastTripPnl
  <1>1. MoneyInv => LastTripPnl
    BY DEF MoneyInv, LastTripPnl, VisiblePnl
  <1> QED  BY <1>1, MoneyInvariant, PTL
=============================================================================
