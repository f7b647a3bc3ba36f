---------------------------- MODULE DomainValues ----------------------------
(***************************************************************************)
(* The value types of pkg/domain that decide whether an order may leave:   *)
(* prices and quantities on their grids, and the Hong Kong price bands and *)
(* lots.                                                                   *)
(*                                                                         *)
(* A decimal is an integer number of ten-thousandths (the finest tick the  *)
(* code knows, the bond tick, is one of them), so the arithmetic is exact  *)
(* as shopspring/decimal's is.                                             *)
(***************************************************************************)
EXTENDS Integers, Sequences

Unit == 10000

MarketHK == "HK"
MarketUS == "US"

-----------------------------------------------------------------------------
(* Lots and ticks                                                          *)

NoSchedule == [lot |-> 0, tick |-> 0, ok |-> FALSE]

DefaultHKTickSchedule(dtype) ==
    CASE dtype \in {"HKStock", "HKETF"} -> [lot |-> 100, tick |-> 10, ok |-> TRUE]
      [] dtype \in {"HKWarrant", "HKCBBC"} -> [lot |-> 1, tick |-> 10, ok |-> TRUE]
      [] dtype = "HKBond" -> [lot |-> 1, tick |-> 1, ok |-> TRUE]
      [] OTHER -> NoSchedule

ScheduleFor(sym) ==
    IF sym.market \in {MarketHK, ""} THEN DefaultHKTickSchedule(sym.dtype) ELSE NoSchedule

hkStockPriceBands == <<
    [upper |-> 2500, tick |-> 10],          [upper |-> 10 * Unit, tick |-> 50],
    [upper |-> 20 * Unit, tick |-> 100],    [upper |-> 50 * Unit, tick |-> 200],
    [upper |-> 100 * Unit, tick |-> 500],   [upper |-> 200 * Unit, tick |-> 1000],
    [upper |-> 500 * Unit, tick |-> 2000],  [upper |-> 1000 * Unit, tick |-> 5000],
    [upper |-> 2000 * Unit, tick |-> Unit], [upper |-> 5000 * Unit, tick |-> 2 * Unit],
    [upper |-> 9995 * Unit, tick |-> 5 * Unit] >>

\* The first band whose upper bound the price does not exceed; above the
\* last one there is no opinion.
hkStockTickAtPrice(price) ==
    LET bands == {i \in DOMAIN hkStockPriceBands : price <= hkStockPriceBands[i].upper}
    IN  IF bands = {} THEN [tick |-> 0, ok |-> FALSE]
        ELSE LET i == CHOOSE i \in bands : \A j \in bands : i <= j
             IN  [tick |-> hkStockPriceBands[i].tick, ok |-> TRUE]

ScheduleForPrice(sym, price) ==
    IF sym.market \notin {MarketHK, ""} THEN [tick |-> 0, ok |-> FALSE]
    ELSE IF sym.dtype = "HKStock" THEN hkStockTickAtPrice(price)
    ELSE [tick |-> ScheduleFor(sym).tick, ok |-> ScheduleFor(sym).ok]

\* Price.ValidateOn; a zero tick is no grid.
PriceValidateOn(price, tick) == price >= 0 /\ (tick > 0 => price % tick = 0)

\* Quantity.ValidateInteger and Quantity.ValidateLot; the sign is not looked at.
QuantityValidateInteger(qty) == qty % Unit = 0
QuantityValidateLot(qty, lot) == lot # 0 => qty % (lot * Unit) = 0

=============================================================================
