-------------------------- MODULE MCMatchingEngine --------------------------
(***************************************************************************)
(* MatchingEngine for TLC.  Limit orders may come to rest, so each takes   *)
(* any of RestingRefs; the other types never rest and share one reference, *)
(* and a Market order's price, which the engine ignores, is fixed.         *)
(***************************************************************************)
EXTENDS MatchingEngine

CONSTANTS RestingRefs, OtherRef, Sizes, OtherSizes, ActiveTraders

MCIncoming ==
  [order_ref : RestingRefs, price : Prices, quantity : Sizes, side : Sides,
   type : {"Limit"}, trader_id : Traders]
  \cup [order_ref : {OtherRef}, price : Prices, quantity : OtherSizes,
        side : Sides, type : {"IOC", "FOK"}, trader_id : ActiveTraders]
  \cup [order_ref : {OtherRef}, price : {ReferencePrice},
        quantity : OtherSizes, side : Sides, type : {"Market"},
        trader_id : ActiveTraders]
=============================================================================
