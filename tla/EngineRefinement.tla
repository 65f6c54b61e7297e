-------------------------- MODULE EngineRefinement --------------------------
(***************************************************************************)
(* The engine seen from one of its exchanges: an exchange simulator and    *)
(* the calls ExchangeSimulator.tla describes, nothing else.                *)
(***************************************************************************)
EXTENDS EngineProperties

CONSTANT Symbol  \* any one of the symbols, whose exchange is observed

ASSUME SymbolAssumption == Symbol \in Symbols

\* The quantities an L2 update of the preloaded events can set.
PreloadedQtys ==
  UNION {{events[i].qty : i \in {j \in DOMAIN events : events[j].kind = "L2Update"}}
         : events \in Preloads}

Observed ==
  INSTANCE ExchangeSimulator
  WITH ex         <- exchanges[Symbol],
       Models     <- QueueModel,
       OrderIds   <- 1 .. MaxOrders,
       OrderSides <- {o.side : o \in StrategyOrders},
       OrderQtys  <- {o.qty : o \in StrategyOrders},
       LevelQtys  <- PreloadedQtys,
       TradeQtys  <- {f.qty : f \in Feed}

(***************************************************************************)
(* The exchange of any one symbol behaves as ExchangeSimulator.tla says:   *)
(* the engine makes only the calls that component is written for (each     *)
(* debug_assert of exchange_simulator.rs holds at each of its calls), and  *)
(* one event makes no more of them than one action there.  So what is      *)
(* proved of the component holds of the engine's exchanges.                *)
(***************************************************************************)
ImplementsExchange == Observed!Spec
=============================================================================
