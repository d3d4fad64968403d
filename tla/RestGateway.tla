---------------------------- MODULE RestGateway ----------------------------
(***************************************************************************)
(* rest/index.js: HTTP requests become gRPC calls to gs++ and their        *)
(* answers JSON.  Node runs one handler or callback at a time, so each is  *)
(* a step; calls of several connections are in flight together and are     *)
(* served in any order, with no deadline.                                  *)
(*                                                                         *)
(* A text is a sequence of characters, see Character.  A byte string is a  *)
(* sequence of bytes.  Base64, JSON, the order of lists and the rounding   *)
(* of a number to a double are left out.                                   *)
(***************************************************************************)
EXTENDS Integers, Sequences, FiniteSets, SequencesExt, FiniteSetsExt

CONSTANTS
    Conn,       \* HTTP connections
    Request,    \* what clients ask
    Output,     \* the outputs (message Output) that gs++ may come to hold
    Indexed,    \* txids in the graphs of gs++
    TxidLen,    \* bytes of a txid, 32 in the code
    Limit,      \* 10000 in the code
    Uint32,     \* 2^32 in the code: the first number too large for a uint32
    Generated   \* the fields the generated class Output may have getters for

\* 0..15 are the digits 0..9 and a..f, 16..21 are A..F, 22 is any character
\* that has no name here.
Character == 0..33
X         == 23    \* x or X
Minus     == 24
Point     == 25
Blank     == 26    \* white space
Plus      == 27
O         == 28    \* o or O
Infinity  == <<29, 30, 15, 31, 30, 31, 32, 33>>

\* What a request and an output are made of.  cashaddrjs.decode knows the types
\* P2PKH and P2SH, and throws on what is no address; utxodb has one output for an
\* outpoint.
ASSUME GatewayAssumption ==
    /\ {TxidLen, Limit, Uint32} \subseteq Nat
    /\ Request \subseteq
          [route : {"graphsearch"}, txid : Seq(Character)]
             \cup [route : {"utxo"}, outpoints : Seq(Seq(Seq(Character)))]
             \cup [route : {"address/utxos", "address/balance"},
                   address : [type : {"P2PKH", "P2SH", "invalid"}, hash : Seq(0..255)]]
    /\ Output \subseteq [prev_tx_id : [1..TxidLen -> 0..255], prev_out_idx : 0..(Uint32 - 1), value : Nat,
                         scriptpubkey : Seq(0..255)]
    /\ IsFiniteSet(Output)
    /\ \A o, p \in Output :
          o.prev_tx_id = p.prev_tx_id /\ o.prev_out_idx = p.prev_out_idx => o = p

VARIABLES
    utxos,      \* what the queries of gs++'s utxodb report
    fields,     \* getters of the class Output that was built into pb/
    alive,      \* the process runs
    pc,         \* pc[c]: see Pc
    req,        \* req[c]: the HTTP request
    call,       \* call[c]: the gRPC request message
    response,   \* response[c]: what came back over gRPC
    res         \* res[c]: the HTTP response

connVars    == <<pc, req, call, response, res>>
gatewayVars == <<utxos, fields, alive, connVars>>

Pc   == {"closed", "accepted", "called", "served", "ended", "lost"}
None == [kind |-> "none"]

-----------------------------------------------------------------------------
(* Conversions. *)

\* No number that the conversions give.
NaN == -256
Digit(ch) == CASE ch < 16 -> ch [] ch \in 16..21 -> ch - 6 [] OTHER -> NaN

\* parseInt(s, 16) on one or two characters: white space and a sign may lead, 0x
\* is dropped, what is not a digit ends the number, and there is none if it
\* comes first.
parseInt(s) ==
    CASE Len(s) = 1 -> Digit(s[1])
      [] Len(s) = 2 /\ Digit(s[1]) # NaN /\ Digit(s[2]) # NaN -> 16 * Digit(s[1]) + Digit(s[2])
      [] Len(s) = 2 /\ s[1] = Minus /\ Digit(s[2]) # NaN -> -Digit(s[2])
      [] Len(s) = 2 /\ s[1] \in {Plus, Blank} -> Digit(s[2])
      [] s = <<0, X>> -> NaN
      [] OTHER -> Digit(s[1])

hexToBytes(hex) ==
    [i \in 1..((Len(hex) + 1) \div 2) |-> parseInt(SubSeq(hex, 2 * i - 1, Min({2 * i, Len(hex)})))]

\* A negative byte is taken as unsigned; NaN >>> 4 and NaN & 0xF are 0.
current(byte) == IF byte = NaN THEN 0 ELSE IF byte < 0 THEN byte + 256 ELSE byte

bytesToHex(bytes) ==
    [k \in 1..(2 * Len(bytes)) |->
        LET b == current(bytes[(k + 1) \div 2])
        IN  IF k % 2 = 1 THEN b \div 16 ELSE b % 16]

\* The parts of a text: without white space around it, without a sign, before
\* and after the first character of S.
Trim(text) ==
    LET solid == {i \in DOMAIN text : text[i] # Blank}
    IN  IF solid = {} THEN <<>> ELSE SubSeq(text, Min(solid), Max(solid))
Signed(s, sign) == s # <<>> /\ s[1] = sign
Unsigned(s)     == IF Signed(s, Minus) \/ Signed(s, Plus) THEN Tail(s) ELSE s
Split(s, S) ==
    LET at == {i \in DOMAIN s : s[i] \in S}
    IN  IF at = {} THEN [before |-> s, after |-> <<>>, found |-> FALSE]
        ELSE [before |-> SubSeq(s, 1, Min(at) - 1), after |-> SubSeq(s, Min(at) + 1, Len(s)), found |-> TRUE]

AreDigits(s, radix)  == s # <<>> /\ \A i \in DOMAIN s : Digit(s[i]) \in 0..(radix - 1)
ValueOf(s, radix) == FoldLeft(LAMBDA n, d : radix * n + Digit(d), 0, s)

\* A number, but negative, with a fraction, or infinite.
NotNatural == -1

\* Sign, digits with a point among them, and an exponent.
DecimalNumber(s) ==
    LET scientific == Split(Unsigned(s), {14, 20})
        mantissa   == Split(scientific.before, {Point})
        power      == Unsigned(scientific.after)
        digits     == mantissa.before \o mantissa.after
        exponent   == (IF Signed(scientific.after, Minus) THEN -1 ELSE 1) * ValueOf(power, 10)
                         - Len(mantissa.after)
        n          == ValueOf(digits, 10)
    IN  CASE Unsigned(s) = Infinity -> NotNatural
          [] Unsigned(s) # Infinity
                /\ (~AreDigits(digits, 10) \/ (scientific.found /\ ~AreDigits(power, 10))) -> NaN
          [] OTHER ->
                CASE n = 0 -> 0
                  [] n # 0 /\ Signed(s, Minus) -> NotNatural
                  [] n # 0 /\ ~Signed(s, Minus) /\ exponent >= 0 -> n * 10 ^ exponent
                  [] OTHER -> IF n % 10 ^ (-exponent) = 0 THEN n \div 10 ^ (-exponent) ELSE NotNatural

\* Number(text), which isNaN and the serializer of a uint32 apply: the empty
\* text is 0, and 0x, 0o and 0b introduce other radices.
ToNumber(text) ==
    LET s       == Trim(text)
        radix   == IF Len(s) < 2 \/ s[1] # 0 THEN 10
                   ELSE CASE s[2] = X -> 16 [] s[2] = O -> 8 [] s[2] \in {11, 17} -> 2 [] OTHER -> 10
        literal == SubSeq(s, 3, Len(s))
    IN  CASE s = <<>> -> 0
          [] s # <<>> /\ radix # 10 -> IF AreDigits(literal, radix) THEN ValueOf(literal, radix) ELSE NaN
          [] OTHER -> DecimalNumber(s)

\* What it makes of the output numbers in the requests.
VoutTexts ==
    {s[2] : s \in {p \in UNION {ToSet(r.outpoints) : r \in {q \in Request : q.route = "utxo"}} : Len(p) = 2}}
Number == [text \in VoutTexts |-> ToNumber(text)]

\* Faulty variant: the length of the hash is left out.
addressToScriptpubkey_no_length(x) ==
    IF x.type = "P2PKH" THEN <<118, 169>> \o x.hash \o <<136, 172>>
    ELSE <<169>> \o x.hash \o <<135>>

\* On what cashaddrjs.decode returns.  The base64 text that follows is what the
\* bytes field of the message is set from.
addressToScriptpubkey(x) ==
    CASE x.type = "P2PKH" -> <<118, 169, Len(x.hash)>> \o x.hash \o <<136, 172>>
      [] x.type = "P2PK"  -> <<172, Len(x.hash)>> \o x.hash \o <<135>>
      [] OTHER            -> <<169, Len(x.hash)>> \o x.hash \o <<135>>

\* bitcore.Address.fromScript; null if it throws.
fromScript(s) ==
    LET n == Len(s) IN
    CASE n >= 5 /\ SubSeq(s, 1, 3) = <<118, 169, n - 5>> /\ SubSeq(s, n - 1, n) = <<136, 172>>
            -> [type |-> "P2PKH", hash |-> SubSeq(s, 4, n - 2)]
      [] n >= 3 /\ SubSeq(s, 1, 2) = <<169, n - 3>> /\ s[n] = 135
            -> [type |-> "P2SH", hash |-> SubSeq(s, 3, n - 1)]
      [] OTHER -> [type |-> "null", hash |-> <<>>]

-----------------------------------------------------------------------------
(* The client, and the start of a handler: one Accept per request. *)

Accept(c, r) ==
    /\ alive
    /\ pc[c] = "closed"
    /\ pc' = [pc EXCEPT ![c] = "accepted"]
    /\ req' = [req EXCEPT ![c] = r]
    /\ UNCHANGED <<utxos, fields, alive, call, response, res>>

\* The client has its answer; the connection may be used again.
Close(c) ==
    /\ pc[c] = "ended"
    /\ pc' = [pc EXCEPT ![c] = "closed"]
    /\ req' = [req EXCEPT ![c] = None]
    /\ call' = [call EXCEPT ![c] = None]
    /\ response' = [response EXCEPT ![c] = None]
    /\ res' = [res EXCEPT ![c] = None]
    /\ UNCHANGED <<utxos, fields, alive>>

Handling(c, route) == alive /\ pc[c] = "accepted" /\ req[c].route = route

\* The message is sent; the handler returns.
Send(c, message) ==
    /\ pc' = [pc EXCEPT ![c] = "called"]
    /\ call' = [call EXCEPT ![c] = message]
    /\ UNCHANGED <<utxos, fields, alive, req, response, res>>

\* res.end
End(c, body) ==
    /\ pc' = [pc EXCEPT ![c] = "ended"]
    /\ res' = [res EXCEPT ![c] = body]
    /\ UNCHANGED <<utxos, fields, alive, req, call, response>>

Graphsearch(c) ==
    /\ Handling(c, "graphsearch")
    /\ Send(c, [kind |-> "graphSearch", txid |-> req[c].txid])

BadFormat(segments) == Len(segments) # 2 \/ Number[segments[2]] = NaN

\* Faulty variant: the txid goes as it came.
outpoint_unreversed(segments) ==
    [txid |-> bytesToHex(hexToBytes(segments[1])), vout |-> Number[segments[2]]]

outpoint(segments) ==
    [txid |-> bytesToHex(Reverse(hexToBytes(segments[1]))), vout |-> Number[segments[2]]]

\* Faulty variant: one number too many passes.
writeUint32Throws_inclusive(n) == n \notin 0..Uint32

\* The serializer asserts what a uint32 can hold; vout is set to the text and
\* becomes a number only there.
writeUint32Throws(n) == n \notin 0..(Uint32 - 1)

Utxo(c) ==
    /\ Handling(c, "utxo")
    /\ \/ /\ \E i \in DOMAIN req[c].outpoints : BadFormat(req[c].outpoints[i])
          /\ End(c, [kind |-> "bad format"])
       \/ /\ \A i \in DOMAIN req[c].outpoints : ~BadFormat(req[c].outpoints[i])
          /\ \E i \in DOMAIN req[c].outpoints : writeUint32Throws(Number[req[c].outpoints[i][2]])
          /\ End(c, [kind |-> "500"])
       \/ /\ \A i \in DOMAIN req[c].outpoints :
                ~BadFormat(req[c].outpoints[i]) /\ ~writeUint32Throws(Number[req[c].outpoints[i][2]])
          /\ Send(c, [kind |-> "utxoSearchByOutpoints",
                      outpoints |-> [i \in DOMAIN req[c].outpoints |-> outpoint(req[c].outpoints[i])]])

\* decode throws on what is no address, and Express answers with status 500.
AddressUtxos(c) ==
    /\ Handling(c, "address/utxos")
    /\ IF req[c].address.type = "invalid"
       THEN End(c, [kind |-> "500"])
       ELSE Send(c, [kind |-> "utxoSearchByScriptPubKey", limit |-> Limit,
                     scriptpubkey |-> addressToScriptpubkey(req[c].address)])

AddressBalance(c) ==
    /\ Handling(c, "address/balance")
    /\ IF req[c].address.type = "invalid"
       THEN End(c, [kind |-> "500"])
       ELSE Send(c, [kind |-> "balanceByScriptPubKey",
                     scriptpubkey |-> addressToScriptpubkey(req[c].address)])

-----------------------------------------------------------------------------
(* gs++. *)

\* The constructor of bhash from a text of two characters per byte; a capital
\* letter is taken for a small one and comes out 32 too small.
bhash(text) ==
    LET nibble(ch) == IF ch < 16 THEN ch ELSE ch - 38
    IN  [i \in 1..TxidLen |-> (16 * nibble(text[2 * i - 1]) + nibble(text[2 * i])) % 256]

\* Of a text of another length it reads what happens to be there, and may then
\* name any txid.
Sized(p) == Len(p.txid) = 2 * TxidLen

OutpointsReply(m) ==
    LET listed  == ToSet(m.outpoints)
        named   == {o \in utxos : \E p \in {q \in listed : Sized(q)} :
                       o.prev_tx_id = bhash(p.txid) /\ o.prev_out_idx = p.vout}
        stray   == {o \in utxos : \E p \in listed : ~Sized(p) /\ o.prev_out_idx = p.vout}
    IN  {[kind |-> "outputs", outputs |-> named \cup S] :
            S \in {T \in SUBSET stray : Cardinality(T) <= Len(m.outpoints)}}

LockedBy(script) == {o \in utxos : o.scriptpubkey = script}

ScriptPubKeyReply(m) ==
    {[kind |-> "outputs", outputs |-> S] :
        S \in kSubset(Min({m.limit, Cardinality(LockedBy(m.scriptpubkey))}), LockedBy(m.scriptpubkey))}

BalanceReply(m) ==
    {[kind |-> "balance", balance |-> MapThenSumSet(LAMBDA o : o.value, LockedBy(m.scriptpubkey))]}

GrpcError == [kind |-> "err"]

GraphSearchReply(m) ==
    IF /\ Len(m.txid) = 2 * TxidLen
       /\ \A i \in DOMAIN m.txid : Digit(m.txid[i]) # NaN
       /\ bhash(m.txid) \in Indexed
    THEN {[kind |-> "txdata", of |-> bhash(m.txid)]}
    ELSE {GrpcError}

Reply(m) ==
    CASE m.kind = "utxoSearchByOutpoints"    -> OutpointsReply(m)
      [] m.kind = "utxoSearchByScriptPubKey" -> ScriptPubKeyReply(m)
      [] m.kind = "balanceByScriptPubKey"    -> BalanceReply(m)
      [] m.kind = "graphSearch"              -> GraphSearchReply(m)

\* A call is served at one moment, or fails: gs++ is down or refuses.
Serve(c) ==
    /\ alive
    /\ pc[c] = "called"
    /\ pc' = [pc EXCEPT ![c] = "served"]
    /\ \E r \in Reply(call[c]) \cup {GrpcError} : response' = [response EXCEPT ![c] = r]
    /\ UNCHANGED <<utxos, fields, alive, req, call, res>>

\* Blocks and transactions come in: an output is added or spent.
UtxosChange ==
    /\ \E o \in Output : utxos' = SymDiff(utxos, {o})
    /\ UNCHANGED <<fields, alive, connVars>>

-----------------------------------------------------------------------------
(* The callbacks. *)

Called(c, route) == alive /\ pc[c] = "served" /\ req[c].route = route

\* Faulty variant: somebody catches it, and nobody answers.
Throw_swallowed ==
    /\ alive' = alive
    /\ pc' = [c \in Conn |-> IF pc[c] \in {"accepted", "called", "served"} THEN "lost" ELSE pc[c]]
    /\ UNCHANGED <<utxos, fields, req, call, response, res>>

\* A getter that the generated class does not have throws out of the callback,
\* and nobody catches it: the process ends with everything in flight.
Throw ==
    /\ alive' = FALSE
    /\ pc' = [c \in Conn |-> IF pc[c] \in {"accepted", "called", "served"} THEN "lost" ELSE pc[c]]
    /\ UNCHANGED <<utxos, fields, req, call, response, res>>

\* Faulty variant: the callback returns without an answer.
Failed_silent(c) == response[c] = GrpcError /\ UNCHANGED gatewayVars

Failed(c) == response[c] = GrpcError /\ End(c, [kind |-> "err"])

GraphsearchDone(c) ==
    /\ Called(c, "graphsearch")
    /\ \/ Failed(c)
       \/ /\ response[c] # GrpcError
          /\ End(c, [kind |-> "txdata", of |-> response[c].of])

\* Faulty variant: the txid is written in the order of its bytes.
json_unreversed(o) ==
    [prevTxId |-> bytesToHex(o.prev_tx_id), prevOutIdx |-> o.prev_out_idx, value |-> o.value]

\* The fields both routes give of an output; height is 0, gs++ does not send it.
json(o) ==
    [prevTxId |-> bytesToHex(Reverse(o.prev_tx_id)), prevOutIdx |-> o.prev_out_idx, value |-> o.value]

UtxoDone(c) ==
    /\ Called(c, "utxo")
    /\ \/ Failed(c)
       \/ /\ response[c] # GrpcError
          /\ IF response[c].outputs # {} /\ "height" \notin fields
             THEN Throw
             ELSE End(c, [kind |-> "list",
                          data |-> {[out |-> json(o), address |-> fromScript(o.scriptpubkey)] :
                                        o \in response[c].outputs}])

AddressUtxosDone(c) ==
    /\ Called(c, "address/utxos")
    /\ \/ Failed(c)
       \/ /\ response[c] # GrpcError
          /\ IF response[c].outputs # {} /\ "height" \notin fields
             THEN Throw
             ELSE End(c, [kind |-> "address list", data |-> {json(o) : o \in response[c].outputs}])

AddressBalanceDone(c) ==
    /\ Called(c, "address/balance")
    /\ \/ Failed(c)
       \/ /\ response[c] # GrpcError
          /\ End(c, [kind |-> "balance", data |-> response[c].balance])

-----------------------------------------------------------------------------
GatewayInit ==
    /\ utxos = {}
    /\ fields \in Generated
    /\ alive = TRUE
    /\ pc = [c \in Conn |-> "closed"]
    /\ req = [c \in Conn |-> None]
    /\ call = [c \in Conn |-> None]
    /\ response = [c \in Conn |-> None]
    /\ res = [c \in Conn |-> None]

Handle(c)   == Graphsearch(c) \/ Utxo(c) \/ AddressUtxos(c) \/ AddressBalance(c)
Callback(c) == GraphsearchDone(c) \/ UtxoDone(c) \/ AddressUtxosDone(c) \/ AddressBalanceDone(c)
Advance(c)  == Handle(c) \/ Serve(c) \/ Callback(c)

GatewayNext ==
    \/ \E c \in Conn : (\E r \in Request : Accept(c, r)) \/ Advance(c) \/ Close(c)
    \/ UtxosChange

GatewaySpec == GatewayInit /\ [][GatewayNext]_gatewayVars

\* Node's event loop runs every handler and every callback that is due, and
\* gRPC ends every call, with gs++'s answer or with an error.  A request is at
\* one of these three points at a time.
GatewayFairness == \A c \in Conn : WF_gatewayVars(Advance(c))

FairGatewaySpec == GatewaySpec /\ GatewayFairness

-----------------------------------------------------------------------------
\* How the state reads to a client.  A txid is shown with its last byte first,
\* except to /slp/graphsearch, which takes it in the order of its bytes and in
\* small letters only.
IsTxid(text) == Len(text) = 2 * TxidLen /\ \A i \in DOMAIN text : Digit(text[i]) # NaN
Byte(text, i) == 16 * Digit(text[2 * i - 1]) + Digit(text[2 * i])
Shown(text) == [i \in 1..TxidLen |-> Byte(text, TxidLen + 1 - i)]
Plain(text) == [i \in 1..TxidLen |-> Byte(text, i)]

CoinOf(o) == [txid |-> o.prev_tx_id, vout |-> o.prev_out_idx, value |-> o.value,
              owner |-> fromScript(o.scriptpubkey)]
CoinFrom(j, a) == [txid |-> Shown(j.prevTxId), vout |-> j.prevOutIdx, value |-> j.value, owner |-> a]

\* A number that no output can have, and what is no address.
Malformed(r) ==
    \/ /\ r.route = "utxo"
       /\ \E i \in DOMAIN r.outpoints :
             Len(r.outpoints[i]) # 2 \/ Number[r.outpoints[i][2]] \notin 0..(Uint32 - 1)
    \/ /\ r.route \in {"address/utxos", "address/balance"}
       /\ r.address.type = "invalid"

\* Its txids can be made out as well.
Clear(r) ==
    /\ ~Malformed(r)
    /\ r.route = "utxo" => \A i \in DOMAIN r.outpoints : IsTxid(r.outpoints[i][1])
    /\ r.route = "graphsearch" => IsTxid(r.txid) /\ \A i \in DOMAIN r.txid : r.txid[i] < 16

Question(r) ==
    CASE r = None                               -> [kind |-> "nothing"]
      [] r # None /\ Malformed(r)               -> [kind |-> "malformed"]
      [] r # None /\ ~Malformed(r) /\ ~Clear(r) -> [kind |-> "unclear"]
      [] r # None /\ Clear(r)                   ->
            CASE r.route = "utxo"          ->
                    [kind |-> "outpoints",
                     outpoints |-> {<<Shown(p[1]), Number[p[2]]>> : p \in ToSet(r.outpoints)}]
              [] r.route = "address/utxos"   -> [kind |-> "coins", owner |-> r.address]
              [] r.route = "address/balance" -> [kind |-> "balance", owner |-> r.address]
              [] r.route = "graphsearch"     -> [kind |-> "history", txid |-> Plain(r.txid)]

FromResponse(r) ==
    CASE r.kind = "outputs" -> [kind |-> "coins", coins |-> {CoinOf(o) : o \in r.outputs}]
      [] r.kind = "balance" -> [kind |-> "total", total |-> r.balance]
      [] r.kind = "txdata"  -> [kind |-> "known", txid |-> r.of]
      [] r.kind = "err"     -> [kind |-> "failure"]
      [] r.kind = "none"    -> [kind |-> "nothing"]

FromRes(b, r) ==
    CASE b.kind = "list"         ->
            [kind |-> "coins", coins |-> {CoinFrom(d.out, d.address) : d \in b.data}]
      [] b.kind = "address list" ->
            [kind |-> "coins", coins |-> {CoinFrom(d, r.address) : d \in b.data}]
      [] b.kind = "balance"      -> [kind |-> "total", total |-> b.data]
      [] b.kind = "txdata"       -> [kind |-> "known", txid |-> b.of]
      [] b.kind = "err"          -> [kind |-> "failure"]
      [] OTHER                   -> [kind |-> "refusal"]

Service == INSTANCE RestService WITH
    Coin     <- {CoinOf(o) : o \in Output},
    coins    <- {CoinOf(o) : o \in utxos},
    up       <- alive,
    stage    <- [c \in Conn |->
                    CASE pc[c] = "closed"               -> "free"
                      [] pc[c] \in {"accepted", "called"} -> "waiting"
                      [] pc[c] = "served"               -> "ready"
                      [] pc[c] = "ended"                -> "answered"
                      [] pc[c] = "lost"                 -> "lost"],
    question <- [c \in Conn |-> Question(req[c])],
    answer   <- [c \in Conn |-> IF res[c] = None THEN FromResponse(response[c])
                                ELSE FromRes(res[c], req[c])]

\* The gateway implements RestService: whatever byte orders, scripts and
\* messages are in between, however a number is written, and however the calls
\* of several connections are interleaved, each client is told about the very
\* coins it asked for, as they were at one moment since it asked; a question is
\* refused only if it is malformed, with an output number that no uint32 holds
\* say, and then always; and the process ends only over a list of coins.
ImplementsService == Service!ServiceSpec

\* Every request that is accepted is answered, unless the process ends on a
\* getter its generated class lacks.
RequestsEnd ==
    \A c \in Conn :
        pc[c] = "accepted" ~> (pc[c] = "ended" \/ (~alive /\ "height" \notin fields))

\* What the callbacks of /utxo and /address/utxos are written for, an answer
\* with the outputs that were found: every request is answered.
RequestsAreAnswered == \A c \in Conn : pc[c] = "accepted" ~> pc[c] = "ended"
=============================================================================
