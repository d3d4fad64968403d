------------------------ MODULE DifferentialProofs ------------------------
(***************************************************************************)
(* The verdict of the differential fuzzing programs and the promise of the *)
(* parser, for every set of scripts.                                       *)
(***************************************************************************)
EXTENDS Differential, TLAPS

-----------------------------------------------------------------------------
(* What hydrate returns. *)

GenesisMessage ==
    [type : {"genesis"}, token_type : {1, 65, 129}, ticker : STRING, name : STRING,
     document_uri : STRING, document_hash : STRING, decimals : Nat,
     mint_baton_vout : Nat, qty : Nat]
MintMessage ==
    [type : {"mint"}, token_type : {1, 65, 129}, tokenid : STRING,
     mint_baton_vout : Nat, qty : Nat]
SendMessage ==
    [type : {"send"}, token_type : {1, 65, 129}, tokenid : STRING, amounts : Seq(Nat)]

Message == GenesisMessage \cup MintMessage \cup SendMessage \cup {Invalid}

GenesisLimits(m) ==
    /\ m \in GenesisMessage
    /\ m.mint_baton_vout # 1
    /\ m.token_type = 65 => m.mint_baton_vout = 0 /\ m.qty = 1
MintLimits(m) ==
    /\ m \in MintMessage
    /\ m.mint_baton_vout # 1
    /\ m.token_type # 65
SendLimits(m) ==
    /\ m \in SendMessage
    /\ Len(m.amounts) \in 1..19

\* The parser returns nothing but the four kinds of messages, within the limits
\* the validator relies on.
LEMMA HydrateReturns ==
    ASSUME NEW s \in Seq(Push)
    PROVE  \/ GenesisLimits(hydrate(s))
           \/ MintLimits(hydrate(s))
           \/ SendLimits(hydrate(s))
           \/ hydrate(s) = Invalid
<1>. DEFINE Chunk == [size : Nat, num : Nat, str : STRING]
            ch    == [x \in DOMAIN s |-> s[x].chunk]
            ok    == /\ AllExtracted(s)
                     /\ Len(ch) >= 3
                     /\ Lokad(ch[1])
                     /\ TokenTyped(ch[2])
            G == [type |-> "genesis", token_type |-> ch[2].num,
                  ticker |-> ch[4].str, name |-> ch[5].str, document_uri |-> ch[6].str,
                  document_hash |-> ch[7].str, decimals |-> ch[8].num,
                  mint_baton_vout |-> BatonVout(ch[9]), qty |-> ch[10].num]
            M == [type |-> "mint", token_type |-> ch[2].num, tokenid |-> ch[4].str,
                  mint_baton_vout |-> BatonVout(ch[5]), qty |-> ch[6].num]
            S == [type |-> "send", token_type |-> ch[2].num, tokenid |-> ch[4].str,
                  amounts |-> [x \in 1..(Len(ch) - 4) |-> ch[x + 4].num]]
<1>1. ch \in Seq(Chunk)
  <2>1. Len(s) \in Nat /\ DOMAIN s = 1..Len(s) /\ \A x \in 1..Len(s) : s[x] \in Push
    OBVIOUS
  <2>2. \A x \in 1..Len(s) : s[x].chunk \in Chunk
    BY <2>1 DEF Push
  <2>. HIDE DEF Chunk
  <2>. QED
    BY <2>1, <2>2
<1>2. \/ ok /\ GenesisOk(ch) /\ hydrate(s) = G
      \/ ok /\ MintOk(ch) /\ hydrate(s) = M
      \/ ok /\ SendOk(ch) /\ hydrate(s) = S
      \/ hydrate(s) = Invalid
  <2>1. hydrate(s) = CASE ok /\ ch[3].str = "GENESIS" /\ GenesisOk(ch) -> G
                      [] ok /\ ch[3].str = "MINT" /\ MintOk(ch) -> M
                      [] ok /\ ch[3].str = "SEND" /\ SendOk(ch) -> S
                      [] OTHER -> Invalid
    BY Zenon DEF hydrate
  <2>. HIDE DEF ok, ch, G, M, S
  <2>. QED
    BY <2>1
<1>. HIDE DEF ch
<1>3. ASSUME NEW x \in 1..Len(ch)
      PROVE  ch[x].size \in Nat /\ ch[x].num \in Nat /\ ch[x].str \in STRING
  <2>1. ch[x] \in Chunk
    <3>. HIDE DEF Chunk
    <3>. QED
      BY <1>1
  <2>. QED
    BY <2>1
<1>. HIDE DEF Chunk
<1>4. CASE ok /\ GenesisOk(ch) /\ hydrate(s) = G
  <2>1. Len(ch) = 10 /\ \A x \in 1..10 : ch[x].num \in Nat /\ ch[x].str \in STRING
    BY <1>3, <1>4 DEF GenesisOk
  <2>2. ch[2].num \in {1, 65, 129}
    BY <1>4 DEF TokenTyped
  <2>3. BatonVout(ch[9]) \in Nat /\ BatonVout(ch[9]) # 1
    BY <1>4, <2>1 DEF GenesisOk, Baton, BatonVout
  <2>4. ch[2].num = 65 => BatonVout(ch[9]) = 0 /\ ch[10].num = 1
    BY <1>4 DEF GenesisOk
  <2>. HIDE DEF ok
  <2>5. G \in GenesisMessage
    BY <2>1, <2>2, <2>3 DEF GenesisMessage
  <2>. QED
    BY <1>4, <2>3, <2>4, <2>5 DEF GenesisLimits
<1>5. CASE ok /\ MintOk(ch) /\ hydrate(s) = M
  <2>1. Len(ch) = 6 /\ \A x \in 1..6 : ch[x].num \in Nat /\ ch[x].str \in STRING
    BY <1>3, <1>5 DEF MintOk
  <2>2. ch[2].num \in {1, 65, 129} /\ ch[2].num # 65
    BY <1>5 DEF TokenTyped, MintOk
  <2>3. BatonVout(ch[5]) \in Nat /\ BatonVout(ch[5]) # 1
    BY <1>5, <2>1 DEF MintOk, Baton, BatonVout
  <2>. HIDE DEF ok
  <2>4. M \in MintMessage
    BY <2>1, <2>2, <2>3 DEF MintMessage
  <2>. QED
    BY <1>5, <2>2, <2>3, <2>4 DEF MintLimits
<1>6. CASE ok /\ SendOk(ch) /\ hydrate(s) = S
  <2>. DEFINE l == Len(ch)
              n == l - 4
              a == [k \in 1..n |-> ch[k + 4].num]
  <2>1. l \in Nat /\ l >= 5 /\ l - 4 <= 19
    <3>1. l \in Nat
      BY <1>1
    <3>2. l >= 5 /\ l - 4 <= 19
      BY <1>6 DEF SendOk
    <3>. QED
      BY <3>1, <3>2
  <2>2. S = [type |-> "send", token_type |-> ch[2].num, tokenid |-> ch[4].str, amounts |-> a]
    OBVIOUS
  <2>3. ch[2].num \in {1, 65, 129}
    BY <1>6 DEF TokenTyped
  <2>4. ASSUME NEW k \in 1..l
        PROVE  ch[k].num \in Nat /\ ch[k].str \in STRING
    BY <1>3
  <2>. HIDE DEF ok, l, S
  <2>5. n \in 1..19 /\ n \in Nat /\ 4 \in 1..l
    BY <2>1
  <2>6. ASSUME NEW k \in 1..n
        PROVE  ch[k + 4].num \in Nat
    <3>1. k + 4 \in 1..l
      BY <2>1
    <3>. QED
      BY <2>4, <3>1
  <2>7. ch[4].str \in STRING
    BY <2>4, <2>5
  <2>. HIDE DEF n
  <2>8. a \in [1..n -> Nat]
    BY <2>6
  <2>9. a \in Seq(Nat) /\ Len(a) = n
    BY <2>5, <2>8
  <2>. HIDE DEF a
  <2>10. S \in SendMessage /\ S.amounts = a
    BY <2>2, <2>3, <2>7, <2>9 DEF SendMessage
  <2>. QED
    BY <1>6, <2>5, <2>9, <2>10 DEF SendLimits
<1>. QED
  BY <1>2, <1>4, <1>5, <1>6

\* Every script means a message.
LEMMA HydrateMessage ==
    ASSUME NEW s \in Seq(Push)
    PROVE  hydrate(s) \in Message
BY HydrateReturns DEF GenesisLimits, MintLimits, SendLimits, Message

-----------------------------------------------------------------------------
(* The parser keeps its promise. *)

DiffTypeOK ==
    /\ peer \in Peer
    /\ script \in Script
    /\ js \in UNION {JsParses(peer, m) : m \in Meanings}

\* The peer, the input and the other parser's message never change.
LEMMA DiffTypeCorrect == DiffSpec => []DiffTypeOK
<1>1. DiffInit => DiffTypeOK
  BY DEF DiffInit, DiffTypeOK
<1>2. DiffTypeOK /\ [DiffNext]_diffVars => DiffTypeOK'
  <2>1. [DiffNext]_diffVars => UNCHANGED <<peer, script, js>>
    BY DEF DiffNext, Ask, Report, Toggle, diffVars
  <2>. QED
    BY <2>1 DEF DiffTypeOK
<1>. QED
  BY <1>1, <1>2, PTL DEF DiffSpec

\* Parsed of SlpTx, message by message.
LEMMA ParsedByHydrate ==
    ASSUME NEW s \in Script
    PROVE  Parsing!Parsed(s)
<1>. DEFINE m == hydrate(s)
            r == With(Defaults, m)
<1>1. Parsing!Parsed(s) <=>
        /\ r.mint_baton_vout # 1
        /\ r.token_type = 65 =>
              /\ r.type # "mint"
              /\ r.type = "genesis" => r.mint_baton_vout = 0 /\ r.qty = 1
        /\ r.type = "send" => Len(r.amounts) \in 1..19
  BY DEF Parsing!Parsed, Parsing!Nft1Child
<1>2. \/ GenesisLimits(m)
      \/ MintLimits(m)
      \/ SendLimits(m)
      \/ m = Invalid
  BY HydrateReturns, ScriptAssumption DEF ScriptAssumption
<1>. HIDE DEF m
<1>3. CASE GenesisLimits(m)
  <2>1. /\ r.type = "genesis"
        /\ r.token_type = m.token_type
        /\ r.mint_baton_vout = m.mint_baton_vout
        /\ r.qty = m.qty
    BY <1>3 DEF With, Defaults, GenesisLimits, GenesisMessage
  <2>. HIDE DEF r
  <2>. QED
    BY <1>1, <1>3, <2>1 DEF GenesisLimits
<1>4. CASE MintLimits(m)
  <2>1. /\ r.type = "mint"
        /\ r.token_type = m.token_type
        /\ r.mint_baton_vout = m.mint_baton_vout
    BY <1>4 DEF With, Defaults, MintLimits, MintMessage
  <2>. HIDE DEF r
  <2>. QED
    BY <1>1, <1>4, <2>1 DEF MintLimits
<1>5. CASE SendLimits(m)
  <2>1. r.type = "send" /\ r.mint_baton_vout = 0 /\ r.amounts = m.amounts
    BY <1>5 DEF With, Defaults, SendLimits, SendMessage
  <2>. HIDE DEF r
  <2>. QED
    BY <1>1, <1>5, <2>1 DEF SendLimits
<1>6. CASE m = Invalid
  <2>1. r.type = "invalid" /\ r.mint_baton_vout = 0
    BY <1>6 DEF With, Defaults, Invalid
  <2>. HIDE DEF r
  <2>. QED
    BY <1>1, <2>1
<1>. QED
  BY <1>2, <1>3, <1>4, <1>5, <1>6

\* Whatever hydrate accepts satisfies what the validator's model assumes of
\* parsed transactions, for every set of scripts.
THEOREM ParserKeepsItsPromise == DiffSpec => []ParserKeepsPromise
<1>1. DiffTypeOK => ParserKeepsPromise
  BY ParsedByHydrate DEF DiffTypeOK, ParserKeepsPromise
<1>. QED
  BY <1>1, DiffTypeCorrect, PTL

-----------------------------------------------------------------------------
(* What the servers answer about a message both sides can read. *)

\* A GENESIS: whatever stands for "absent" on the way, every field the program
\* compares arrives in the notation it is compared in.
GenesisAnswer(m) ==
    /\ Answer.success = TRUE
    /\ Answer.data.transactionType = "GENESIS"
    /\ Answer.data.versionType = Num(m.token_type)
    /\ peer = "slpparser" => /\ Answer.data.symbol = Hex(m.ticker)
                             /\ Answer.data.name = Hex(m.name)
                             /\ Answer.data.documentUri = Hex(m.document_uri)
    /\ Answer.data.documentSha256 = Hex(m.document_hash)
    /\ Answer.data.decimals = Num(m.decimals)
    /\ Answer.data.batonVout \in NoBaton(m.mint_baton_vout)
    /\ Answer.data.genesisOrMintQuantity = Dec(m.qty)

MintAnswer(m) ==
    /\ Answer.success = TRUE
    /\ Answer.data.transactionType = "MINT"
    /\ Answer.data.versionType = Num(m.token_type)
    /\ Answer.data.tokenIdHex = Hex(m.tokenid)
    /\ Answer.data.genesisOrMintQuantity = Dec(m.qty)
    /\ Answer.data.batonVout \in NoBaton(m.mint_baton_vout)

SendAnswer(m) ==
    /\ Answer.success = TRUE
    /\ Answer.data.transactionType = "SEND"
    /\ Answer.data.versionType = Num(m.token_type)
    /\ Answer.data.tokenIdHex = Hex(m.tokenid)
    /\ Answer.data.sendOutputs \in Seq({Dec(n) : n \in Nat})
    /\ Len(Answer.data.sendOutputs) = Len(m.amounts) + Shift
    /\ \A k \in DOMAIN m.amounts : Answer.data.sendOutputs[k + Shift] = Dec(m.amounts[k])

\* null is no number, text or list of bytes.
LEMMA NullIsNoPair ==
    ASSUME NEW x
    PROVE  Bytes(x) # Null /\ Num(x) # Null /\ Hex(x) # Null
<1>1. \A y : Len(<<y, x>>) = 2 /\ Len(Null) = 1
  BY DEF Null
<1>. QED
  BY <1>1 DEF Bytes, Num, Hex

\* Either server answers a GENESIS it did not mishear in that notation.
LEMMA GenesisAnswered ==
    ASSUME peer \in Peer, NEW m \in GenesisMessage, js \in JsParses(peer, m), ~Misheard
    PROVE  GenesisAnswer(m)
<1>1. m.type = "genesis"
  BY DEF GenesisMessage
<1>2. CASE peer = "nodejs"
  <2>1. js \in {[transactionType |-> "GENESIS", versionType |-> Num(m.token_type),
                 symbol |-> Bytes(Utf8(m.ticker)), name |-> Bytes(Utf8(m.name)),
                 documentUri |-> Bytes(Utf8(m.document_uri)), documentSha256 |-> h,
                 decimals |-> Num(m.decimals), batonVout |-> b,
                 genesisOrMintQuantity |-> Num(m.qty)] :
                   h \in Absent(m.document_hash), b \in NoBaton(m.mint_baton_vout)}
    BY <1>1, <1>2 DEF JsParses, parseSlpOutputScript
  <2>2. PICK h \in Absent(m.document_hash), b \in NoBaton(m.mint_baton_vout) :
           js = [transactionType |-> "GENESIS", versionType |-> Num(m.token_type),
                 symbol |-> Bytes(Utf8(m.ticker)), name |-> Bytes(Utf8(m.name)),
                 documentUri |-> Bytes(Utf8(m.document_uri)), documentSha256 |-> h,
                 decimals |-> Num(m.decimals), batonVout |-> b,
                 genesisOrMintQuantity |-> Num(m.qty)]
    BY <2>1
  <2>3. js # Throws /\ js.transactionType = "GENESIS"
    BY <2>2 DEF Throws
  <2>4. Answer = Success(format(js))
    BY <1>2, <2>3 DEF Answer, nodejs_answer
  <2>5. format(js) = [js EXCEPT !.symbol = toHex(@), !.name = toHex(@), !.documentUri = toHex(@),
                                !.documentSha256 = toHex(OrEmpty(@)),
                                !.genesisOrMintQuantity = toString(@)]
    BY <2>3 DEF format
  <2>6. /\ format(js).transactionType = "GENESIS"
        /\ format(js).versionType = Num(m.token_type)
        /\ format(js).documentSha256 = toHex(OrEmpty(h))
        /\ format(js).decimals = Num(m.decimals)
        /\ format(js).batonVout = b
        /\ format(js).genesisOrMintQuantity = toString(Num(m.qty))
    BY <2>2, <2>5
  <2>7. toHex(OrEmpty(h)) = Hex(m.document_hash)
    <3>1. h = Bytes(m.document_hash) \/ (h = Null /\ m.document_hash = "")
      BY DEF Absent
    <3>2. OrEmpty(h) = Bytes(m.document_hash)
      BY <3>1, NullIsNoPair DEF OrEmpty
    <3>. QED
      BY <3>2 DEF toHex, Bytes
  <2>8. toString(Num(m.qty)) = Dec(m.qty)
    BY DEF toString, Num
  <2>9. Answer.success = TRUE /\ Answer.data = format(js)
    BY <2>4 DEF Success
  <2>. QED
    BY <1>2, <2>6, <2>7, <2>8, <2>9 DEF GenesisAnswer
<1>3. CASE peer = "slpparser"
  <2>1. js \in {[transactionType |-> "GENESIS", tokenType |-> Num(m.token_type),
                 data |-> [ticker |-> Bytes(m.ticker), name |-> Bytes(m.name),
                           documentUri |-> Bytes(m.document_uri), documentHash |-> h,
                           decimals |-> Num(m.decimals), mintBatonVout |-> Num(m.mint_baton_vout),
                           qty |-> Num(m.qty)]] : h \in Absent(m.document_hash)}
    BY <1>1, <1>3 DEF JsParses, parseSLP
  <2>2. PICK h \in Absent(m.document_hash) :
           js = [transactionType |-> "GENESIS", tokenType |-> Num(m.token_type),
                 data |-> [ticker |-> Bytes(m.ticker), name |-> Bytes(m.name),
                           documentUri |-> Bytes(m.document_uri), documentHash |-> h,
                           decimals |-> Num(m.decimals), mintBatonVout |-> Num(m.mint_baton_vout),
                           qty |-> Num(m.qty)]]
    BY <2>1
  <2>3. js # Throws /\ js.transactionType = "GENESIS" /\ js.data.documentHash # Null
    BY <1>3, <2>2 DEF Throws, Misheard
  <2>4. h = Bytes(m.document_hash)
    BY <2>2, <2>3 DEF Absent
  <2>. DEFINE d    == js.data
              base == [transactionType |-> js.transactionType, versionType |-> js.tokenType]
              z    == [symbol |-> toHex(d.ticker), name |-> toHex(d.name),
                       documentUri |-> toHex(d.documentUri),
                       documentSha256 |-> toHex(d.documentHash),
                       decimals |-> d.decimals, batonVout |-> d.mintBatonVout,
                       genesisOrMintQuantity |-> toString(d.qty)]
  <2>5. Answer = Success(With(base, z))
    BY <1>3, <2>3 DEF Answer, slpparser_answer
  <2>6. Answer.success = TRUE /\ Answer.data = With(base, z)
    BY <2>5 DEF Success
  <2>7. /\ base.transactionType = "GENESIS" /\ base.versionType = Num(m.token_type)
        /\ DOMAIN base = {"transactionType", "versionType"}
    BY <2>2
  <2>8. /\ z.symbol = toHex(Bytes(m.ticker))
        /\ z.name = toHex(Bytes(m.name))
        /\ z.documentUri = toHex(Bytes(m.document_uri))
        /\ z.documentSha256 = toHex(Bytes(m.document_hash))
        /\ z.decimals = Num(m.decimals)
        /\ z.batonVout = Num(m.mint_baton_vout)
        /\ z.genesisOrMintQuantity = toString(Num(m.qty))
        /\ DOMAIN z = {"symbol", "name", "documentUri", "documentSha256", "decimals",
                       "batonVout", "genesisOrMintQuantity"}
    BY <2>2, <2>4
  <2>9. \A t : toHex(Bytes(t)) = Hex(t) /\ toString(Num(t)) = Dec(t)
    BY DEF toHex, Bytes, Hex, toString, Num, Dec
  <2>10. Num(m.mint_baton_vout) \in NoBaton(m.mint_baton_vout)
    BY DEF NoBaton
  <2>. HIDE DEF base, z
  <2>11. /\ With(base, z).transactionType = base.transactionType
         /\ With(base, z).versionType = base.versionType
         /\ With(base, z).symbol = z.symbol
         /\ With(base, z).name = z.name
         /\ With(base, z).documentUri = z.documentUri
         /\ With(base, z).documentSha256 = z.documentSha256
         /\ With(base, z).decimals = z.decimals
         /\ With(base, z).batonVout = z.batonVout
         /\ With(base, z).genesisOrMintQuantity = z.genesisOrMintQuantity
    BY <2>7, <2>8 DEF With
  <2>. QED
    BY <2>6, <2>7, <2>8, <2>9, <2>10, <2>11 DEF GenesisAnswer
<1>. QED
  BY <1>2, <1>3 DEF Peer

\* The same for a MINT.
LEMMA MintAnswered ==
    ASSUME peer \in Peer, NEW m \in MintMessage, js \in JsParses(peer, m)
    PROVE  MintAnswer(m)
<1>1. m.type = "mint"
  BY DEF MintMessage
<1>2. CASE peer = "nodejs"
  <2>1. js \in {[transactionType |-> "MINT", versionType |-> Num(m.token_type),
                 tokenIdHex |-> Hex(m.tokenid), batonVout |-> b,
                 genesisOrMintQuantity |-> Num(m.qty)] : b \in NoBaton(m.mint_baton_vout)}
    BY <1>1, <1>2 DEF JsParses, parseSlpOutputScript
  <2>2. PICK b \in NoBaton(m.mint_baton_vout) :
           js = [transactionType |-> "MINT", versionType |-> Num(m.token_type),
                 tokenIdHex |-> Hex(m.tokenid), batonVout |-> b,
                 genesisOrMintQuantity |-> Num(m.qty)]
    BY <2>1
  <2>3. js # Throws /\ js.transactionType = "MINT"
    BY <2>2 DEF Throws
  <2>4. Answer = Success(format(js))
    BY <1>2, <2>3 DEF Answer, nodejs_answer
  <2>5. format(js) = [js EXCEPT !.genesisOrMintQuantity = toString(@)]
    BY <2>3 DEF format
  <2>6. /\ format(js).transactionType = "MINT"
        /\ format(js).versionType = Num(m.token_type)
        /\ format(js).tokenIdHex = Hex(m.tokenid)
        /\ format(js).batonVout = b
        /\ format(js).genesisOrMintQuantity = toString(Num(m.qty))
    BY <2>2, <2>5
  <2>7. toString(Num(m.qty)) = Dec(m.qty)
    BY DEF toString, Num
  <2>8. Answer.success = TRUE /\ Answer.data = format(js)
    BY <2>4 DEF Success
  <2>. QED
    BY <2>6, <2>7, <2>8 DEF MintAnswer
<1>3. CASE peer = "slpparser"
  <2>1. js = [transactionType |-> "MINT", tokenType |-> Num(m.token_type),
              data |-> [tokenid |-> Bytes(m.tokenid), qty |-> Num(m.qty),
                        mintBatonVout |-> Num(m.mint_baton_vout)]]
    BY <1>1, <1>3 DEF JsParses, parseSLP
  <2>2. js # Throws /\ js.transactionType = "MINT"
    BY <2>1 DEF Throws
  <2>. DEFINE d    == js.data
              base == [transactionType |-> js.transactionType, versionType |-> js.tokenType]
              z    == [tokenIdHex |-> toHex(d.tokenid), batonVout |-> d.mintBatonVout,
                       genesisOrMintQuantity |-> toString(d.qty)]
  <2>3. Answer = Success(With(base, z))
    BY <1>3, <2>2 DEF Answer, slpparser_answer
  <2>4. Answer.success = TRUE /\ Answer.data = With(base, z)
    BY <2>3 DEF Success
  <2>5. /\ base.transactionType = "MINT" /\ base.versionType = Num(m.token_type)
        /\ DOMAIN base = {"transactionType", "versionType"}
    BY <2>1
  <2>6. /\ z.tokenIdHex = toHex(Bytes(m.tokenid))
        /\ z.batonVout = Num(m.mint_baton_vout)
        /\ z.genesisOrMintQuantity = toString(Num(m.qty))
        /\ DOMAIN z = {"tokenIdHex", "batonVout", "genesisOrMintQuantity"}
    BY <2>1
  <2>7. \A t : toHex(Bytes(t)) = Hex(t) /\ toString(Num(t)) = Dec(t)
    BY DEF toHex, Bytes, Hex, toString, Num, Dec
  <2>8. Num(m.mint_baton_vout) \in NoBaton(m.mint_baton_vout)
    BY DEF NoBaton
  <2>. HIDE DEF base, z
  <2>9. /\ With(base, z).transactionType = base.transactionType
        /\ With(base, z).versionType = base.versionType
        /\ With(base, z).tokenIdHex = z.tokenIdHex
        /\ With(base, z).batonVout = z.batonVout
        /\ With(base, z).genesisOrMintQuantity = z.genesisOrMintQuantity
    BY <2>5, <2>6 DEF With
  <2>. QED
    BY <2>4, <2>5, <2>6, <2>7, <2>8, <2>9 DEF MintAnswer
<1>. QED
  BY <1>2, <1>3 DEF Peer

\* The same for a SEND, whose amounts slp-validate moves by one.
LEMMA SendAnswered ==
    ASSUME peer \in Peer, NEW m \in SendMessage, js \in JsParses(peer, m)
    PROVE  SendAnswer(m)
<1>. DEFINE l == Len(m.amounts)
<1>1. /\ m.type = "send"
      /\ l \in Nat /\ DOMAIN m.amounts = 1..l
      /\ \A k \in 1..l : m.amounts[k] \in Nat
  BY DEF SendMessage
<1>. HIDE DEF l
<1>2. \A t : toHex(Bytes(t)) = Hex(t) /\ toString(Num(t)) = Dec(t)
  BY DEF toHex, Bytes, Hex, toString, Num, Dec
<1>3. CASE peer = "nodejs"
  <2>. DEFINE out == [k \in 1..(l + 1) |-> Num(IF k = 1 THEN 0 ELSE m.amounts[k - 1])]
              res == toStrings(out)
  <2>1. js = [transactionType |-> "SEND", versionType |-> Num(m.token_type),
              tokenIdHex |-> Hex(m.tokenid), sendOutputs |-> out]
    BY <1>1, <1>3 DEF JsParses, parseSlpOutputScript, l
  <2>2. js # Throws /\ js.transactionType = "SEND"
    BY <2>1 DEF Throws
  <2>3. Answer = Success(format(js))
    BY <1>3, <2>2 DEF Answer, nodejs_answer
  <2>4. format(js) = [js EXCEPT !.sendOutputs = toStrings(@)]
    BY <2>2 DEF format
  <2>5. Answer.success = TRUE /\ Answer.data = format(js)
    BY <2>3 DEF Success
  <2>6. res = [k \in 1..(l + 1) |-> Dec(IF k = 1 THEN 0 ELSE m.amounts[k - 1])]
    BY <1>2 DEF toStrings
  <2>7. /\ res \in Seq({Dec(n) : n \in Nat})
        /\ Len(res) = l + 1
        /\ \A k \in 1..l : res[k + 1] = Dec(m.amounts[k])
    <3>. HIDE DEF res
    <3>1. \A k \in 1..(l + 1) : (IF k = 1 THEN 0 ELSE m.amounts[k - 1]) \in Nat
      BY <1>1
    <3>2. \A k \in 1..(l + 1) : res[k] \in {Dec(n) : n \in Nat}
      BY <2>6, <3>1
    <3>3. DOMAIN res = 1..(l + 1) /\ res = [k \in 1..(l + 1) |-> res[k]]
      BY <2>6
    <3>4. res \in [1..(l + 1) -> {Dec(n) : n \in Nat}]
      BY <3>2, <3>3
    <3>5. res \in Seq({Dec(n) : n \in Nat}) /\ Len(res) = l + 1
      <4>. DEFINE D == {Dec(n) : n \in Nat}
                  N == l + 1
      <4>1. N \in Nat /\ res \in [1..N -> D]
        BY <1>1, <3>4
      <4>. HIDE DEF D, N
      <4>2. res \in Seq(D) /\ Len(res) = N
        BY <4>1
      <4>. QED
        BY <4>2 DEF D, N
    <3>6. ASSUME NEW k \in 1..l
          PROVE  res[k + 1] = Dec(m.amounts[k])
      <4>1. k + 1 \in 1..(l + 1) /\ k + 1 # 1 /\ (k + 1) - 1 = k
        BY <1>1
      <4>. QED
        BY <2>6, <4>1
    <3>. QED
      BY <3>5, <3>6
  <2>. HIDE DEF out, res
  <2>8. /\ format(js).transactionType = "SEND"
        /\ format(js).versionType = Num(m.token_type)
        /\ format(js).tokenIdHex = Hex(m.tokenid)
        /\ format(js).sendOutputs = res
    BY <2>1, <2>4 DEF res
  <2>9. Shift = 1
    BY <1>3 DEF Shift
  <2>. QED
    BY <1>1, <2>5, <2>7, <2>8, <2>9 DEF SendAnswer, l
<1>4. CASE peer = "slpparser"
  <2>. DEFINE out == [k \in DOMAIN m.amounts |-> Num(m.amounts[k])]
              res == toStrings(out)
  <2>1. js = [transactionType |-> "SEND", tokenType |-> Num(m.token_type),
              data |-> [tokenid |-> Bytes(m.tokenid), amounts |-> out]]
    BY <1>1, <1>4 DEF JsParses, parseSLP
  <2>2. js # Throws /\ js.transactionType = "SEND"
    BY <2>1 DEF Throws
  <2>. DEFINE d    == js.data
              base == [transactionType |-> js.transactionType, versionType |-> js.tokenType]
              z    == [tokenIdHex |-> toHex(d.tokenid), sendOutputs |-> toStrings(d.amounts)]
  <2>3. Answer = Success(With(base, z))
    BY <1>4, <2>2 DEF Answer, slpparser_answer
  <2>4. Answer.success = TRUE /\ Answer.data = With(base, z)
    BY <2>3 DEF Success
  <2>5. res = [k \in 1..l |-> Dec(m.amounts[k])]
    BY <1>1, <1>2 DEF toStrings
  <2>6. /\ res \in Seq({Dec(n) : n \in Nat})
        /\ Len(res) = l
        /\ \A k \in 1..l : res[k + 0] = Dec(m.amounts[k])
    <3>. HIDE DEF res
    <3>1. res \in [1..l -> {Dec(n) : n \in Nat}]
      BY <1>1, <2>5
    <3>2. res \in Seq({Dec(n) : n \in Nat}) /\ Len(res) = l
      BY <1>1, <3>1
    <3>3. \A k \in 1..l : k + 0 = k
      BY <1>1
    <3>. QED
      BY <2>5, <3>2, <3>3
  <2>. HIDE DEF out, res
  <2>7. /\ base.transactionType = "SEND" /\ base.versionType = Num(m.token_type)
        /\ DOMAIN base = {"transactionType", "versionType"}
    BY <2>1
  <2>8. /\ z.tokenIdHex = toHex(Bytes(m.tokenid))
        /\ z.sendOutputs = res
        /\ DOMAIN z = {"tokenIdHex", "sendOutputs"}
    BY <2>1 DEF res
  <2>. HIDE DEF base, z
  <2>9. /\ With(base, z).transactionType = base.transactionType
        /\ With(base, z).versionType = base.versionType
        /\ With(base, z).tokenIdHex = z.tokenIdHex
        /\ With(base, z).sendOutputs = z.sendOutputs
    BY <2>7, <2>8 DEF With
  <2>10. Shift = 0 /\ l + 0 = l
    BY <1>1, <1>4 DEF Shift, Peer
  <2>. QED
    BY <1>1, <1>2, <2>4, <2>6, <2>7, <2>8, <2>9, <2>10 DEF SendAnswer, l
<1>. QED
  BY <1>3, <1>4 DEF Peer

\* A parser that throws, and a GENESIS the server misheard, are answered alike.
LEMMA FailureAnswered ==
    ASSUME peer \in Peer, js = Throws \/ Misheard
    PROVE  Answer = Failure
BY DEF Peer, Misheard, Answer, nodejs_answer, slpparser_answer, Throws

-----------------------------------------------------------------------------
(* The comparison. *)

\* A baton on output 0, null and no baton at all are the same to the program.
LEMMA NoBatonDiffers ==
    ASSUME NEW v, NEW n \in Nat, NEW k \in Nat, v \in NoBaton(k)
    PROVE  NullOr(v, n = 0, Num(n)) <=> n # k
<1>1. v = Num(k) \/ (v = Null /\ k = 0)
  BY DEF NoBaton
<1>2. Num(k) # Num(n) <=> k # n
  BY DEF Num
<1>3. Num(k) # Null
  BY NullIsNoPair
<1>. HIDE DEF Num
<1>. QED
  BY <1>1, <1>2, <1>3 DEF NullOr

\* The notations are injective.
LEMMA NotationsAreInjective ==
    ASSUME NEW x, NEW y
    PROVE  /\ Num(x) = Num(y) <=> x = y
           /\ Dec(x) = Dec(y) <=> x = y
           /\ Hex(x) = Hex(y) <=> x = y
BY DEF Num, Dec, Hex

\* What is left out of a comparison is not the kind of the message.
LEMMA ComparedType ==
    ASSUME NEW m \in Message
    PROVE  Compared(m).type = m.type
BY DEF Compared, Message, GenesisMessage, MintMessage, SendMessage, Invalid

Fields(x) ==
    [type |-> x.type, token_type |-> x.token_type, ticker |-> x.ticker, name |-> x.name,
     document_uri |-> x.document_uri, document_hash |-> x.document_hash,
     decimals |-> x.decimals, mint_baton_vout |-> x.mint_baton_vout, qty |-> x.qty]

\* A record is determined by its fields.
LEMMA GenesisIsItsFields ==
    ASSUME NEW x \in GenesisMessage
    PROVE  x = Fields(x)
BY DEF GenesisMessage, Fields

\* Two GENESIS messages are the same to a pair if they agree on what it compares.
LEMMA GenesisCompared ==
    ASSUME peer \in Peer, NEW m \in GenesisMessage, NEW n \in GenesisMessage
    PROVE  Compared(m) = Compared(n) <=>
              /\ m.token_type = n.token_type
              /\ peer = "slpparser" => /\ m.ticker = n.ticker
                                       /\ m.name = n.name
                                       /\ m.document_uri = n.document_uri
              /\ m.document_hash = n.document_hash
              /\ m.decimals = n.decimals
              /\ m.mint_baton_vout = n.mint_baton_vout
              /\ m.qty = n.qty
<1>1. CASE peer = "nodejs"
  <2>1. /\ Compared(m) = [m EXCEPT !.ticker = "", !.name = "", !.document_uri = ""]
        /\ Compared(n) = [n EXCEPT !.ticker = "", !.name = "", !.document_uri = ""]
    BY <1>1 DEF Compared, GenesisMessage
  <2>. DEFINE Bare(x) ==
                  [type |-> x.type, token_type |-> x.token_type, ticker |-> "", name |-> "",
                   document_uri |-> "", document_hash |-> x.document_hash, decimals |-> x.decimals,
                   mint_baton_vout |-> x.mint_baton_vout, qty |-> x.qty]
  <2>2. ASSUME NEW x \in GenesisMessage
        PROVE  [x EXCEPT !.ticker = "", !.name = "", !.document_uri = ""] = Bare(x)
    <3>. DEFINE w == Fields(x)
    <3>1. x = w
      BY GenesisIsItsFields
    <3>2. [x EXCEPT !.ticker = "", !.name = "", !.document_uri = ""]
             = [w EXCEPT !.ticker = "", !.name = "", !.document_uri = ""]
      BY <3>1, Zenon
    <3>3. [w EXCEPT !.ticker = "", !.name = "", !.document_uri = ""] = Bare(x)
      <4>1. ASSUME NEW e
            PROVE  [w EXCEPT !.ticker = e, !.name = e, !.document_uri = e] =
                     [type |-> x.type, token_type |-> x.token_type, ticker |-> e, name |-> e,
                      document_uri |-> e, document_hash |-> x.document_hash,
                      decimals |-> x.decimals, mint_baton_vout |-> x.mint_baton_vout,
                      qty |-> x.qty]
        <5>. DEFINE R(f, g, h) ==
                       [type |-> x.type, token_type |-> x.token_type, ticker |-> f, name |-> g,
                        document_uri |-> h, document_hash |-> x.document_hash,
                        decimals |-> x.decimals, mint_baton_vout |-> x.mint_baton_vout,
                        qty |-> x.qty]
        <5>1. w = R(x.ticker, x.name, x.document_uri)
          BY DEF Fields
        <5>2. ASSUME NEW f, NEW g, NEW h
              PROVE  /\ [R(f, g, h) EXCEPT !.ticker = e] = R(e, g, h)
                     /\ [R(f, g, h) EXCEPT !.name = e] = R(f, e, h)
                     /\ [R(f, g, h) EXCEPT !.document_uri = e] = R(f, g, e)
          OBVIOUS
        <5>. HIDE DEF R, w
        <5>3. [[[w EXCEPT !.ticker = e] EXCEPT !.name = e] EXCEPT !.document_uri = e] = R(e, e, e)
          <6>1. [w EXCEPT !.ticker = e] = R(e, x.name, x.document_uri)
            <7>1. [R(x.ticker, x.name, x.document_uri) EXCEPT !.ticker = e]
                     = R(e, x.name, x.document_uri)
              BY <5>2
            <7>. QED
              BY <5>1, <7>1
          <6>2. [R(e, x.name, x.document_uri) EXCEPT !.name = e] = R(e, e, x.document_uri)
            BY <5>2
          <6>3. [R(e, e, x.document_uri) EXCEPT !.document_uri = e] = R(e, e, e)
            BY <5>2
          <6>. QED
            BY <6>1, <6>2, <6>3, Zenon
        <5>. QED
          BY <5>3, Zenon DEF R
      <4>. QED
        BY <4>1, Zenon
    <3>. QED
      BY <3>2, <3>3, Zenon
  <2>3. Compared(m) = Bare(m) /\ Compared(n) = Bare(n)
    BY <2>1, <2>2, Zenon
  <2>4. m.type = n.type
    BY DEF GenesisMessage
  <2>5. Bare(m) = Bare(n) <=>
           /\ m.token_type = n.token_type
           /\ m.document_hash = n.document_hash
           /\ m.decimals = n.decimals
           /\ m.mint_baton_vout = n.mint_baton_vout
           /\ m.qty = n.qty
    BY <2>4
  <2>. QED
    BY <1>1, <2>3, <2>5
<1>2. CASE peer = "slpparser"
  <2>1. Compared(m) = m /\ Compared(n) = n
    BY <1>2 DEF Compared
  <2>. QED
    BY <1>2, <2>1 DEF GenesisMessage
<1>. QED
  BY <1>1, <1>2 DEF Peer

\* The program aborts on a GENESIS exactly when the pair tells it from its own.
LEMMA GenesisVerdict ==
    ASSUME peer \in Peer, NEW m \in Message, NEW n \in GenesisMessage, GenesisAnswer(n)
    PROVE  Aborts(m, Answer) <=> Compared(n) # Compared(m)
<1>. DEFINE j == Answer.data
<1>1. Aborts(m, Answer) <=> m = Invalid \/ GenesisDiffers(m, j)
  BY DEF GenesisAnswer, Aborts
<1>2. n \in Message /\ Compared(n).type = "genesis" /\ Compared(m).type = m.type
  BY ComparedType DEF Message, GenesisMessage
<1>3. CASE m \notin GenesisMessage
  <2>1. m.type # "genesis"
    BY <1>3 DEF Message, MintMessage, SendMessage, Invalid
  <2>. QED
    BY <1>1, <1>2, <2>1 DEF GenesisDiffers
<1>4. CASE m \in GenesisMessage
  <2>1. m.type = "genesis" /\ m # Invalid /\ m.mint_baton_vout \in Nat /\ n.mint_baton_vout \in Nat
    BY <1>4 DEF GenesisMessage, Invalid
  <2>2. NullOr(j.batonVout, m.mint_baton_vout = 0, Num(m.mint_baton_vout))
           <=> m.mint_baton_vout # n.mint_baton_vout
    BY <2>1, NoBatonDiffers DEF GenesisAnswer
  <2>3. NullOr(j.documentSha256, m.document_hash = "", Hex(m.document_hash))
           <=> m.document_hash # n.document_hash
    <3>1. j.documentSha256 = Hex(n.document_hash) /\ Hex(n.document_hash) # Null
      BY NullIsNoPair DEF GenesisAnswer
    <3>2. Hex(n.document_hash) # Hex(m.document_hash) <=> n.document_hash # m.document_hash
      BY NotationsAreInjective
    <3>. HIDE DEF j
    <3>. QED
      BY <3>1, <3>2, Zenon DEF NullOr
  <2>4. TextsDiffer(m, j) <=> ~(peer = "slpparser" => /\ m.ticker = n.ticker
                                                      /\ m.name = n.name
                                                      /\ m.document_uri = n.document_uri)
    BY NotationsAreInjective DEF GenesisAnswer, TextsDiffer
  <2>5. /\ j.versionType # Num(m.token_type) <=> m.token_type # n.token_type
        /\ j.decimals # Num(m.decimals) <=> m.decimals # n.decimals
        /\ j.genesisOrMintQuantity # Dec(m.qty) <=> m.qty # n.qty
    BY NotationsAreInjective DEF GenesisAnswer
  <2>6. Compared(n) = Compared(m) <=>
              /\ n.token_type = m.token_type
              /\ peer = "slpparser" => /\ n.ticker = m.ticker
                                       /\ n.name = m.name
                                       /\ n.document_uri = m.document_uri
              /\ n.document_hash = m.document_hash
              /\ n.decimals = m.decimals
              /\ n.mint_baton_vout = m.mint_baton_vout
              /\ n.qty = m.qty
    BY <1>4, GenesisCompared
  <2>. QED
    BY <1>1, <2>1, <2>2, <2>3, <2>4, <2>5, <2>6 DEF GenesisDiffers
<1>. QED
  BY <1>3, <1>4

\* The same for a MINT.
LEMMA MintVerdict ==
    ASSUME peer \in Peer, NEW m \in Message, NEW n \in MintMessage, MintAnswer(n)
    PROVE  Aborts(m, Answer) <=> Compared(n) # Compared(m)
<1>. DEFINE j == Answer.data
<1>1. Aborts(m, Answer) <=> m = Invalid \/ MintDiffers(m, j)
  BY DEF MintAnswer, Aborts
<1>2. n \in Message /\ Compared(n).type = "mint" /\ Compared(m).type = m.type
  BY ComparedType DEF Message, MintMessage
<1>3. CASE m \notin MintMessage
  <2>1. m.type # "mint"
    BY <1>3 DEF Message, GenesisMessage, SendMessage, Invalid
  <2>. QED
    BY <1>1, <1>2, <2>1 DEF MintDiffers
<1>4. CASE m \in MintMessage
  <2>1. m.type = "mint" /\ m # Invalid /\ m.mint_baton_vout \in Nat /\ n.mint_baton_vout \in Nat
    BY <1>4 DEF MintMessage, Invalid
  <2>2. NullOr(j.batonVout, m.mint_baton_vout = 0, Num(m.mint_baton_vout))
           <=> m.mint_baton_vout # n.mint_baton_vout
    BY <2>1, NoBatonDiffers DEF MintAnswer
  <2>3. /\ j.versionType # Num(m.token_type) <=> m.token_type # n.token_type
        /\ j.tokenIdHex # Hex(m.tokenid) <=> m.tokenid # n.tokenid
        /\ j.genesisOrMintQuantity # Dec(m.qty) <=> m.qty # n.qty
    BY NotationsAreInjective DEF MintAnswer
  <2>4. Compared(m) = m /\ Compared(n) = n
    BY <1>4 DEF Compared, MintMessage
  <2>5. m = n <=> /\ m.token_type = n.token_type
                  /\ m.tokenid = n.tokenid
                  /\ m.mint_baton_vout = n.mint_baton_vout
                  /\ m.qty = n.qty
    BY <1>4 DEF MintMessage
  <2>. QED
    BY <1>1, <2>1, <2>2, <2>3, <2>4, <2>5 DEF MintDiffers
<1>. QED
  BY <1>3, <1>4

\* The shift by one in the amounts of slp-validate neither hides a difference nor
\* makes one up.
LEMMA SendVerdict ==
    ASSUME peer \in Peer, NEW m \in Message, NEW n \in SendMessage, SendAnswer(n)
    PROVE  Aborts(m, Answer) <=> Compared(n) # Compared(m)
<1>. DEFINE j == Answer.data
<1>1. Aborts(m, Answer) <=> m = Invalid \/ SendDiffers(m, j)
  BY DEF SendAnswer, Aborts
<1>2. n \in Message /\ Compared(n).type = "send" /\ Compared(m).type = m.type
  BY ComparedType DEF Message, SendMessage
<1>3. CASE m \notin SendMessage
  <2>1. m.type # "send"
    BY <1>3 DEF Message, GenesisMessage, MintMessage, Invalid
  <2>. QED
    BY <1>1, <1>2, <2>1 DEF SendDiffers
<1>4. CASE m \in SendMessage
  <2>. DEFINE a == m.amounts
              b == n.amounts
              la == Len(a)
              lb == Len(b)
              ls == Len(j.sendOutputs)
  <2>1. m.type = "send" /\ m # Invalid /\ a \in Seq(Nat) /\ b \in Seq(Nat)
    BY <1>4 DEF SendMessage, Invalid
  <2>2. /\ la \in Nat /\ lb \in Nat
        /\ DOMAIN a = 1..la /\ DOMAIN b = 1..lb
    BY <2>1
  <2>3. Shift \in Nat /\ ls = lb + Shift
    BY DEF SendAnswer, Shift
  <2>4. /\ j.versionType # Num(m.token_type) <=> m.token_type # n.token_type
        /\ j.tokenIdHex # Hex(m.tokenid) <=> m.tokenid # n.tokenid
    BY NotationsAreInjective DEF SendAnswer
  <2>5. a = b <=> la = lb /\ \A k \in 1..la : a[k] = b[k]
    <3>1. a = [k \in 1..la |-> a[k]] /\ b = [k \in 1..lb |-> b[k]]
      <4>. HIDE DEF la, lb
      <4>. QED
        BY <2>1, <2>2
    <3>. HIDE DEF a, b
    <3>2. a = b => la = lb /\ \A k \in 1..la : a[k] = b[k]
      OBVIOUS
    <3>. HIDE DEF la, lb
    <3>3. (la = lb /\ \A k \in 1..la : a[k] = b[k]) => a = b
      BY <2>2, <3>1
    <3>. QED
      BY <3>2, <3>3
  <2>6. ASSUME la = lb, NEW k \in 1..la
        PROVE  j.sendOutputs[k + Shift] = Dec(a[k]) <=> a[k] = b[k]
    <3>1. j.sendOutputs[k + Shift] = Dec(b[k])
      BY <2>2, <2>6 DEF SendAnswer
    <3>. QED
      BY <3>1, NotationsAreInjective
  <2>7. SendDiffers(m, j) <=> \/ m.token_type # n.token_type
                              \/ m.tokenid # n.tokenid
                              \/ ls - Shift # la
                              \/ \E k \in 1..la : j.sendOutputs[k + Shift] # Dec(a[k])
    BY <2>1, <2>2, <2>4 DEF SendDiffers
  <2>8. Compared(m) = m /\ Compared(n) = n
    BY <1>4 DEF Compared, SendMessage
  <2>9. m = n <=> m.token_type = n.token_type /\ m.tokenid = n.tokenid /\ a = b
    BY <1>4 DEF SendMessage
  <2>. HIDE DEF a, b, la, lb, ls, j
  <2>10. ls - Shift # la <=> la # lb
    BY <2>2, <2>3
  <2>. QED
    BY <1>1, <2>1, <2>5, <2>6, <2>7, <2>8, <2>9, <2>10
<1>. QED
  BY <1>3, <1>4

\* An answer without message is right for an invalid script only.
LEMMA FailureVerdict ==
    ASSUME NEW m \in Message, Answer = Failure
    PROVE  Aborts(m, Answer) <=> m # Invalid
BY DEF Aborts, Failure

\* An invalid script is never taken for a message.
LEMMA InvalidCompared ==
    ASSUME NEW m \in Message
    PROVE  Compared(Invalid) # Compared(m) <=> m # Invalid
<1>1. Invalid \in Message /\ Compared(Invalid).type = "invalid" /\ Compared(m).type = m.type
  BY ComparedType DEF Message, Invalid
<1>2. m # Invalid => m.type # "invalid"
  BY DEF Message, GenesisMessage, MintMessage, SendMessage
<1>. QED
  BY <1>1, <1>2

\* For every message that some script means and that the other parser may have
\* returned as js.
LEMMA VerdictOnMessage ==
    ASSUME peer \in Peer, NEW m \in Message, NEW n \in Message,
           js \in JsParses(peer, n), ~Misheard
    PROVE  Aborts(m, Answer) <=> Compared(n) # Compared(m)
<1>1. CASE n \in GenesisMessage
  BY <1>1, GenesisAnswered, GenesisVerdict
<1>2. CASE n \in MintMessage
  BY <1>2, MintAnswered, MintVerdict
<1>3. CASE n \in SendMessage
  BY <1>3, SendAnswered, SendVerdict
<1>4. CASE n = Invalid
  <2>1. js = Throws
    BY <1>4 DEF Peer, Invalid, JsParses, parseSlpOutputScript, parseSLP
  <2>. QED
    BY <1>4, <2>1, FailureAnswered, FailureVerdict, InvalidCompared
<1>. QED
  BY <1>1, <1>2, <1>3, <1>4 DEF Message

\* The verdict on an answer, in any state of the programs.
LEMMA AnsweredRight ==
    ASSUME DiffTypeOK
    PROVE  Aborts(hydrate(script), Answer) <=>
              IF Misheard THEN hydrate(script) # Invalid ELSE Disagree
<1>1. peer \in Peer /\ hydrate(script) \in Message /\ \A n \in Meanings : n \in Message
  BY HydrateMessage, ScriptAssumption DEF DiffTypeOK, ScriptAssumption, Meanings
<1>2. CASE Misheard
  BY <1>1, <1>2, FailureAnswered, FailureVerdict
<1>3. CASE ~Misheard
  <2>1. PICK n \in Meanings : js \in JsParses(peer, n)
    BY DEF DiffTypeOK
  <2>2. \A k \in Meanings : js \in JsParses(peer, k) =>
           (Aborts(hydrate(script), Answer) <=> Compared(k) # Compared(hydrate(script)))
    BY <1>1, <1>3, VerdictOnMessage
  <2>. QED
    BY <1>3, <2>1, <2>2 DEF Disagree
<1>. QED
  BY <1>2, <1>3

DiffInv == DiffTypeOK /\ VerdictIsRight

\* For every set of scripts and every number of attempts, a program that got an
\* answer aborts exactly when the parsers disagree on something the pair
\* compares, the misheard messages excepted.
THEOREM VerdictsAreRight == DiffSpec => []VerdictIsRight
<1>1. DiffInit => DiffInv
  BY DEF DiffInit, DiffInv, DiffTypeOK, VerdictIsRight
<1>2. DiffInv /\ [DiffNext]_diffVars => DiffInv'
  <2>. SUFFICES ASSUME DiffInv, [DiffNext]_diffVars PROVE DiffInv'
    OBVIOUS
  <2>1. UNCHANGED <<peer, script, js>>
    BY DEF DiffNext, Ask, Report, Toggle, diffVars
  <2>2. DiffTypeOK'
    BY <2>1 DEF DiffInv, DiffTypeOK
  <2>3. /\ Misheard' = Misheard
        /\ Disagree' = Disagree
        /\ hydrate(script)' = hydrate(script)
    BY <2>1 DEF Misheard, Disagree, Compared
  <2>4. CASE outcome' = outcome
    BY <2>2, <2>3, <2>4 DEF DiffInv, VerdictIsRight
  <2>5. CASE outcome' # outcome
    <3>1. outcome' = (IF Aborts(hydrate(script), Answer) THEN "aborted" ELSE "passed")
             \/ outcome' = "gave up"
      BY <2>5 DEF DiffNext, Ask, Report, Toggle, diffVars
    <3>2. outcome' \in {"passed", "aborted"} =>
             (outcome' = "aborted" <=> Aborts(hydrate(script), Answer))
      BY <3>1
    <3>3. Aborts(hydrate(script), Answer) <=>
              IF Misheard THEN hydrate(script) # Invalid ELSE Disagree
      BY AnsweredRight DEF DiffInv
    <3>. QED
      BY <2>2, <2>3, <3>2, <3>3 DEF DiffInv, VerdictIsRight
  <2>. QED
    BY <2>4, <2>5
<1>3. DiffInv => VerdictIsRight
  BY DEF DiffInv
<1>. QED
  BY <1>1, <1>2, <1>3, PTL DEF DiffSpec
=============================================================================
