-------------------------- MODULE MCTradingEngine --------------------------
(***************************************************************************)
(* TradingEngine for TLC.  Its constants are bounds and limits only, so an *)
(* instance is a choice of numbers; each configuration switches off what   *)
(* its question does not need: MaxOpenOrders = 0 makes the pre-trade check *)
(* refuse every round trip, MaxRequests = 0 keeps the quoter from sending. *)
(* Client order ids are ordered, so they are no symmetry set.              *)
(***************************************************************************)
EXTENDS TradingEngine
=============================================================================
