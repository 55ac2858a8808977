----------------------------- MODULE MCSbeFeed -----------------------------
(***************************************************************************)
(* SbeFeed for TLC: tops that take one exponent or several, and one        *)
(* message for each reason to ignore it.                                   *)
(***************************************************************************)
EXTENDS SbeFeed

Quote(bid, ask, amount) ==
    [bid |-> [price |-> bid, size |-> amount], ask |-> [price |-> ask, size |-> 10]]

MCTops == {Quote(100, 200, 10), Quote(100, 110, 3), Quote(101, 112, 10), Quote(106, 110, 10)}

Bbo == CHOOSE m \in Messages(Quote(100, 200, 10), 1) : m.blockLength = kBboTbtBlockLength

MCNoise ==
    {[Bbo EXCEPT !.size = kHeaderSize - 1],
     [Bbo EXCEPT !.schemaId = 2],
     [Bbo EXCEPT !.templateId = 1001],
     [Bbo EXCEPT !.blockLength = kBboTbtBlockLength - 1],
     [Bbo EXCEPT !.size = kHeaderSize + kBboTbtBlockLength - 1],
     [Bbo EXCEPT !.pxExponent = kMaxExponent + 1],
     [Bbo EXCEPT !.szExponent = kMinExponent - 1]}
MCMinExponent == -1
=============================================================================
