------------------------------ MODULE SbeFeed ------------------------------
(***************************************************************************)
(* SbeBboSource: the best bid and offer kept from the binary bbo-tbt       *)
(* channel, its decoder (sbe_bbo.cpp) by the fields of a message, and the  *)
(* mid NaiveQuoter quotes at.  Prices and sizes are whole numbers of       *)
(* 10^kMinExponent; the rounding of doubles is left out.  The exchange and *)
(* the connection are external: messages arrive in order, a session may be *)
(* lost with all that is on its way, and the exchange may come back from   *)
(* maintenance with its seqId begun anew.                                  *)
(***************************************************************************)
EXTENDS Integers, Sequences, OrderBook

CONSTANTS
    Tops,           \* best bid and offer the exchange may have: [bid, ask]
    Noise,          \* messages on the socket that are no BBO
    kMinExponent,   \* -18 in the code
    kMaxExponent,   \* 18 in the code
    Threshold,      \* requote_threshold_bps_, in parts of Unit
    Unit,           \* kBpsPerUnit
    MaxSeq,         \* bound: changes of the top
    MaxDisconnects, \* bound: times the session is lost
    MaxRestarts,    \* bound: times seqId begins anew
    MaxOnTheWay     \* bound: messages on their way before the top changes again

kHeaderSize == 8
kSchemaId == 1
kBboTbtTemplateId == 1000
kBboTbtBlockLength == 74

Level == [price : Nat \ {NoPrice}, size : Nat]
Header == {"size", "schemaId", "templateId", "blockLength"}

ASSUME SbeAssumption ==
    /\ Capacity \in Nat \ {0}
    /\ Tops \subseteq [bid : Level, ask : Level]
    /\ \A m \in Noise : Header \subseteq DOMAIN m
    /\ kMinExponent \in Int /\ kMaxExponent \in Int /\ kMinExponent <= kMaxExponent
    /\ {Threshold, Unit, MaxSeq, MaxDisconnects, MaxRestarts, MaxOnTheWay} \subseteq Nat

VARIABLES
    book,        \* book_
    lastSeqId,   \* last_seq_id_
    mid,         \* last_quoted_mid_, doubled
    quoting,     \* whether the engine passes updates on to the quoter
    connected,   \* whether ws_client_ has a session
    asked,       \* the subscription is on its way to the exchange
    pushes,      \* messages on their way to the engine
    top,         \* the exchange's best bid and offer
    seq,         \* its seqId
    subscribed,  \* whether the exchange pushes on this session
    seen,        \* history: the exchange's top as of the message applied last
    passedOn,    \* history: the update applied last was passed on to the quoter
    restarts, disconnects

sourceVars == <<book, lastSeqId, mid, seen, passedOn>>
sessionVars == <<connected, asked, pushes, subscribed, disconnects>>
exchangeVars == <<top, seq, restarts>>
vars == <<sourceVars, quoting, sessionVars, exchangeVars>>

NoMid == 0
NoTop == [bid |-> [price |-> NoPrice, size |-> 0], ask |-> [price |-> NoPrice, size |-> 0]]

Init ==
    /\ book = NewBook
    /\ lastSeqId = -1
    /\ mid = NoMid
    /\ quoting = FALSE
    /\ connected = FALSE
    /\ asked = FALSE
    /\ pushes = <<>>
    /\ top \in Tops
    /\ seq = 0
    /\ subscribed = FALSE
    /\ seen = NoTop
    /\ passedOn = FALSE
    /\ restarts = 0
    /\ disconnects = 0

-----------------------------------------------------------------------------
(* The decoder. *)

ExponentInRange(e) == e \in kMinExponent..kMaxExponent

MutScale(mantissa, exponent) == mantissa * 10 ^ (kMaxExponent - exponent)

Scale(mantissa, exponent) == mantissa * 10 ^ (exponent - kMinExponent)

(* DecodeBboTbt does not return nullopt.  A later version of the schema may
   make the block longer. *)
IsBbo(m) ==
    /\ m.size >= kHeaderSize
    /\ m.schemaId = kSchemaId
    /\ m.templateId = kBboTbtTemplateId
    /\ m.blockLength >= kBboTbtBlockLength
    /\ m.size >= kHeaderSize + m.blockLength
    /\ ExponentInRange(m.pxExponent)
    /\ ExponentInRange(m.szExponent)

DecodedLevel(m, side) ==
    [price |-> Scale(m[side].px, m.pxExponent), size |-> Scale(m[side].sz, m.szExponent)]

-----------------------------------------------------------------------------
(* OnMessage. *)

OnIgnored ==
    /\ pushes # <<>>
    /\ ~IsBbo(Head(pushes))
    /\ pushes' = Tail(pushes)
    /\ UNCHANGED <<sourceVars, quoting, connected, asked, subscribed, disconnects, exchangeVars>>

MutIsStale(m) == m.seqId <= lastSeqId + 1

IsStale(m) == m.seqId <= lastSeqId

OnStale ==
    /\ pushes # <<>>
    /\ IsBbo(Head(pushes))
    /\ IsStale(Head(pushes))
    /\ pushes' = Tail(pushes)
    /\ UNCHANGED <<sourceVars, quoting, connected, asked, subscribed, disconnects, exchangeVars>>

(* BeginSnapshot, SetBid, SetAsk and SetSeqId. *)
Applied(m) ==
    LET empty == BeginSnapshot(book)
    IN  SetSeqId([empty EXCEPT !.bids = Set("bids", @, DecodedLevel(m, "bid")),
                               !.asks = Set("asks", @, DecodedLevel(m, "ask"))],
                 m.seqId)

Distance(a, b) == IF a > b THEN a - b ELSE b - a

MutFarFrom(newMid, old) == (newMid - old) * Unit > Threshold * old

FarFrom(newMid, old) == Distance(newMid, old) * Unit > Threshold * old

(* NaiveQuoter::OnBookUpdate; Requote takes the mid over. *)
MidAfter(b) ==
    LET newMid == Best(b.bids) + Best(b.asks)
    IN  IF Best(b.bids) = NoPrice \/ Best(b.asks) = NoPrice THEN mid
        ELSE IF mid = NoMid \/ FarFrom(newMid, mid) THEN newMid
        ELSE mid

OnBbo ==
    LET m == Head(pushes)
    IN  /\ pushes # <<>>
        /\ IsBbo(m)
        /\ ~IsStale(m)
        /\ lastSeqId' = m.seqId
        /\ book' = Applied(m)
        /\ mid' = IF quoting THEN MidAfter(Applied(m)) ELSE mid
        /\ seen' = m.of
        /\ passedOn' = quoting
        /\ pushes' = Tail(pushes)
        /\ UNCHANGED <<quoting, connected, asked, subscribed, disconnects, exchangeVars>>

OnMessage == OnIgnored \/ OnStale \/ OnBbo

(* The private session logs in or is lost: Engine passes updates on or not. *)
PrivateSession ==
    /\ quoting' = ~quoting
    /\ UNCHANGED <<sourceVars, sessionVars, exchangeVars>>

(* SetOnConnected's callback; book_ and last_seq_id_ stay as they are. *)
OnConnected ==
    /\ ~connected
    /\ connected' = TRUE
    /\ asked' = TRUE
    /\ UNCHANGED <<sourceVars, quoting, pushes, subscribed, disconnects, exchangeVars>>

Disconnect ==
    /\ connected
    /\ disconnects < MaxDisconnects
    /\ disconnects' = disconnects + 1
    /\ connected' = FALSE
    /\ asked' = FALSE
    /\ pushes' = <<>>
    /\ subscribed' = FALSE
    /\ UNCHANGED <<sourceVars, quoting, exchangeVars>>

-----------------------------------------------------------------------------
(* The exchange. *)

(* The mantissa of a number under an exponent, if it is a whole one. *)
Fits(n, e) == n % 10 ^ (e - kMinExponent) = 0
Mantissa(n, e) == n \div 10 ^ (e - kMinExponent)

(* The messages that may carry a top. *)
Messages(t, s) ==
    LET Numbers(field) == {t.bid[field], t.ask[field]}
        Exponents(field) == {e \in kMinExponent..kMaxExponent : \A n \in Numbers(field) : Fits(n, e)}
    IN  {[size |-> kHeaderSize + length, schemaId |-> kSchemaId,
          templateId |-> kBboTbtTemplateId, blockLength |-> length, seqId |-> s,
          bid |-> [px |-> Mantissa(t.bid.price, p), sz |-> Mantissa(t.bid.size, z)],
          ask |-> [px |-> Mantissa(t.ask.price, p), sz |-> Mantissa(t.ask.size, z)],
          pxExponent |-> p, szExponent |-> z, of |-> t] :
            p \in Exponents("price"), z \in Exponents("size"),
            length \in {kBboTbtBlockLength, kBboTbtBlockLength + 6}}

(* The answer to the subscription is some message that is no BBO; the current
   top follows. *)
ExchangeSubscribes ==
    /\ asked
    /\ asked' = FALSE
    /\ subscribed' = TRUE
    /\ \E answer \in Noise, m \in Messages(top, seq) : pushes' = pushes \o <<answer, m>>
    /\ UNCHANGED <<sourceVars, quoting, connected, disconnects, exchangeVars>>

ExchangeMoves(t) ==
    /\ seq < MaxSeq
    /\ Len(pushes) < MaxOnTheWay
    /\ t # top
    /\ top' = t
    /\ seq' = seq + 1
    /\ \/ subscribed /\ \E m \in Messages(t, seq + 1) : pushes' = Append(pushes, m)
       \/ ~subscribed /\ UNCHANGED pushes
    /\ UNCHANGED <<sourceVars, quoting, connected, asked, subscribed, disconnects, restarts>>

ExchangeRestarts ==
    /\ ~connected
    /\ restarts < MaxRestarts
    /\ restarts' = restarts + 1
    /\ seq' = 0
    /\ UNCHANGED <<sourceVars, quoting, sessionVars, top>>

Next ==
    \/ OnMessage
    \/ PrivateSession
    \/ OnConnected
    \/ Disconnect
    \/ ExchangeSubscribes
    \/ \E t \in Tops : ExchangeMoves(t)
    \/ ExchangeRestarts

Spec == Init /\ [][Next]_vars

(* The reactor handles what arrives, the client reconnects, and the exchange
   answers a subscription. *)
FairSpec ==
    /\ Spec
    /\ WF_vars(OnMessage)
    /\ WF_vars(OnConnected)
    /\ WF_vars(ExchangeSubscribes)

-----------------------------------------------------------------------------
(* Properties. *)

Shows(b, t) == b.bids = <<t.bid>> /\ b.asks = <<t.ask>>

(* Whatever else is on the socket, and whichever exponents and block length a
   message has, the book holds one level a side, those of the message OnMessage
   applied last. *)
BookIsTop == book.hasSnapshot => Shows(book, seen)

(* While updates reach NaiveQuoter::OnBookUpdate, the mid quoted at is never
   further than the threshold from the exchange's as of the message applied
   last: small moves, each within the threshold, do not add up, and what moved
   while the private session was lost is made up for by the next update.  This
   is about last_quoted_mid_, which is set also when ReplaceSide skips a side,
   for an amend in flight or the rate limit, and the price of that order lags. *)
MidFollowsTop ==
    passedOn => Distance(seen.bid.price + seen.ask.price, mid) * Unit <= Threshold * mid

(* Behind on a session, the book catches up with the exchange, messages sent
   again after a reconnect included, unless seqId has begun anew: last_seq_id_
   outlives the session and takes the new numbers for stale ones. *)
CatchesUp == (~Shows(book, top) ~> Shows(book, top) \/ restarts > 0)
=============================================================================
