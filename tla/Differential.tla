---------------------------- MODULE Differential ----------------------------
(***************************************************************************)
(* The differential fuzzing of the SLP parser: a C++ program parses a      *)
(* script, asks a Node.js server for what a JavaScript parser makes of it, *)
(* and aborts if the two disagree.  There are two pairs of program and     *)
(* server: "nodejs" with slp-validate and "slpparser" with slp-parser.     *)
(* report.js prints what the server of the first pair would answer.        *)
(*                                                                         *)
(* A JavaScript value is a tagged tuple: <<"null">>, <<"num", n>>,         *)
(* <<"bytes", s>>, the hexadecimal text <<"hex", s>> and the decimal       *)
(* text <<"dec", n>>.                                                      *)
(***************************************************************************)
EXTENDS SlpParser

CONSTANTS
    Script,     \* the fuzzer's inputs
    Attempts    \* requests before the program gives up, 100 in the code

ASSUME AttemptsAssumption == Attempts \in Nat \ {0}

ASSUME ScriptAssumption == Script \subseteq Seq(Push)

VARIABLES
    peer,       \* which pair is at work
    script,     \* the input
    js,         \* what the JavaScript parser makes of it
    server,     \* the server is up
    i,          \* requests made in vain
    outcome,    \* of the C++ program
    report      \* of report.js

diffVars == <<peer, script, js, server, i, outcome, report>>

Peer   == {"nodejs", "slpparser"}
Null   == <<"null">>
Num(n) == <<"num", n>>
Dec(n) == <<"dec", n>>
Hex(s) == <<"hex", s>>
Bytes(s) == <<"bytes", s>>

Throws == [transactionType |-> "throws"]

-----------------------------------------------------------------------------
(* The JavaScript parsers, which are libraries.  Each throws, or returns   *)
(* some message; what is absent is null or empty.  slp-validate decodes    *)
(* texts as UTF-8 and lists the amounts of a SEND by output, a zero first. *)

Utf8(s) == IF s = "not utf8" THEN "replaced" ELSE s
Absent(s) == IF s = "" THEN {Null, Bytes("")} ELSE {Bytes(s)}
NoBaton(n) == IF n = 0 THEN {Null, Num(0)} ELSE {Num(n)}

parseSlpOutputScript(m) ==
    CASE m.type = "genesis" ->
            {[transactionType |-> "GENESIS", versionType |-> Num(m.token_type),
              symbol |-> Bytes(Utf8(m.ticker)), name |-> Bytes(Utf8(m.name)),
              documentUri |-> Bytes(Utf8(m.document_uri)), documentSha256 |-> h,
              decimals |-> Num(m.decimals), batonVout |-> b,
              genesisOrMintQuantity |-> Num(m.qty)] :
                h \in Absent(m.document_hash), b \in NoBaton(m.mint_baton_vout)}
      [] m.type = "mint" ->
            {[transactionType |-> "MINT", versionType |-> Num(m.token_type),
              tokenIdHex |-> Hex(m.tokenid), batonVout |-> b,
              genesisOrMintQuantity |-> Num(m.qty)] : b \in NoBaton(m.mint_baton_vout)}
      [] m.type = "send" ->
            {[transactionType |-> "SEND", versionType |-> Num(m.token_type),
              tokenIdHex |-> Hex(m.tokenid),
              sendOutputs |-> [k \in 1..(Len(m.amounts) + 1) |->
                                  Num(IF k = 1 THEN 0 ELSE m.amounts[k - 1])]]}
      [] OTHER -> {Throws}

parseSLP(m) ==
    CASE m.type = "genesis" ->
            {[transactionType |-> "GENESIS", tokenType |-> Num(m.token_type),
              data |-> [ticker |-> Bytes(m.ticker), name |-> Bytes(m.name),
                        documentUri |-> Bytes(m.document_uri), documentHash |-> h,
                        decimals |-> Num(m.decimals), mintBatonVout |-> Num(m.mint_baton_vout),
                        qty |-> Num(m.qty)]] : h \in Absent(m.document_hash)}
      [] m.type = "mint" ->
            {[transactionType |-> "MINT", tokenType |-> Num(m.token_type),
              data |-> [tokenid |-> Bytes(m.tokenid), qty |-> Num(m.qty),
                        mintBatonVout |-> Num(m.mint_baton_vout)]]}
      [] m.type = "send" ->
            {[transactionType |-> "SEND", tokenType |-> Num(m.token_type),
              data |-> [tokenid |-> Bytes(m.tokenid),
                        amounts |-> [k \in DOMAIN m.amounts |-> Num(m.amounts[k])]]]}
      [] OTHER -> {Throws}

-----------------------------------------------------------------------------
(* The servers' request handlers. *)

\* Buffer.from(v, 'binary').toString('hex').toUpperCase(), which throws on null,
\* and for a token id toString('hex'): each in the letters its check expects.
toHex(v)      == Hex(v[2])
toString(v)   == Dec(v[2])
toStrings(vs) == [k \in DOMAIN vs |-> toString(vs[k])]
OrEmpty(v)    == IF v = Null THEN Bytes("") ELSE v

Failure == [success |-> FALSE]
Success(y) == [success |-> TRUE, data |-> y]

\* The object a handler builds, as it replaces fields of y or adds some.
With(y, z) == [f \in DOMAIN y \cup DOMAIN z |-> IF f \in DOMAIN z THEN z[f] ELSE y[f]]

\* What slp-validate returned, made comparable; report.js does the same.
format(y) ==
    CASE y.transactionType = "GENESIS" ->
            [y EXCEPT !.symbol = toHex(@), !.name = toHex(@), !.documentUri = toHex(@),
                      !.documentSha256 = toHex(OrEmpty(@)),
                      !.genesisOrMintQuantity = toString(@)]
      [] y.transactionType = "MINT" -> [y EXCEPT !.genesisOrMintQuantity = toString(@)]
      [] y.transactionType = "SEND" -> [y EXCEPT !.sendOutputs = toStrings(@)]

\* Faulty variant: quantities go as numbers.
nodejs_answer_numeric(y) ==
    IF y = Throws THEN Failure
    ELSE IF y.transactionType = "GENESIS"
         THEN Success([format(y) EXCEPT !.genesisOrMintQuantity = y.genesisOrMintQuantity])
         ELSE Success(format(y))

nodejs_answer(y) == IF y = Throws THEN Failure ELSE Success(format(y))

\* slp-parser's fields under the names the C++ program looks for.  A documentHash
\* of null is replaced and then read all the same: Buffer.from throws.
slpparser_answer(y) ==
    IF y = Throws \/ (y.transactionType = "GENESIS" /\ y.data.documentHash = Null)
    THEN Failure
    ELSE LET d    == y.data
             base == [transactionType |-> y.transactionType, versionType |-> y.tokenType]
         IN  Success(CASE y.transactionType = "GENESIS" ->
                        With(base, [symbol |-> toHex(d.ticker), name |-> toHex(d.name),
                                    documentUri |-> toHex(d.documentUri),
                                    documentSha256 |-> toHex(d.documentHash),
                                    decimals |-> d.decimals, batonVout |-> d.mintBatonVout,
                                    genesisOrMintQuantity |-> toString(d.qty)])
                  [] y.transactionType = "MINT" ->
                        With(base, [tokenIdHex |-> toHex(d.tokenid), batonVout |-> d.mintBatonVout,
                                    genesisOrMintQuantity |-> toString(d.qty)])
                  [] y.transactionType = "SEND" ->
                        With(base, [tokenIdHex |-> toHex(d.tokenid),
                                    sendOutputs |-> toStrings(d.amounts)]))

Answer == IF peer = "nodejs" THEN nodejs_answer(js) ELSE slpparser_answer(js)

-----------------------------------------------------------------------------
(* The ABORT_CHECKs of the C++ programs, on the message m that hydrate     *)
(* returned and the answer's data j.                                       *)

NullOr(v, absent, w) == IF v = Null THEN ~absent ELSE v # w

TextsDiffer(m, j) ==
    peer = "slpparser" /\ \/ j.symbol # Hex(m.ticker)
                          \/ j.name # Hex(m.name)
                          \/ j.documentUri # Hex(m.document_uri)

GenesisDiffers(m, j) ==
    \/ m.type # "genesis"
    \/ j.versionType # Num(m.token_type)
    \/ TextsDiffer(m, j)
    \/ NullOr(j.documentSha256, m.document_hash = "", Hex(m.document_hash))
    \/ j.decimals # Num(m.decimals)
    \/ NullOr(j.batonVout, m.mint_baton_vout = 0, Num(m.mint_baton_vout))
    \/ j.genesisOrMintQuantity # Dec(m.qty)

MintDiffers(m, j) ==
    \/ m.type # "mint"
    \/ j.versionType # Num(m.token_type)
    \/ j.tokenIdHex # Hex(m.tokenid)
    \/ j.genesisOrMintQuantity # Dec(m.qty)
    \/ NullOr(j.batonVout, m.mint_baton_vout = 0, Num(m.mint_baton_vout))

\* slp-validate's list is one longer.
Shift == IF peer = "nodejs" THEN 1 ELSE 0

\* Faulty variant: the amounts are compared by the list's own numbers.
SendDiffers_unshifted(m, j) ==
    \/ m.type # "send"
    \/ j.versionType # Num(m.token_type)
    \/ j.tokenIdHex # Hex(m.tokenid)
    \/ Len(j.sendOutputs) - Shift # Len(m.amounts)
    \/ \E k \in DOMAIN m.amounts : j.sendOutputs[k] # Dec(m.amounts[k])

SendDiffers(m, j) ==
    \/ m.type # "send"
    \/ j.versionType # Num(m.token_type)
    \/ j.tokenIdHex # Hex(m.tokenid)
    \/ Len(j.sendOutputs) - Shift # Len(m.amounts)
    \/ \E k \in DOMAIN m.amounts : j.sendOutputs[k + Shift] # Dec(m.amounts[k])

Aborts(m, body) ==
    \/ (m # Invalid) # body.success
    \/ body.success /\ LET j == body.data IN
          CASE j.transactionType = "GENESIS" -> GenesisDiffers(m, j)
            [] j.transactionType = "MINT"    -> MintDiffers(m, j)
            [] j.transactionType = "SEND"    -> SendDiffers(m, j)

-----------------------------------------------------------------------------
\* Faulty variant: the program never gives up.
Ask_forever ==
    /\ outcome = "running"
    /\ \/ /\ server
          /\ outcome' = IF Aborts(hydrate(script), Answer) THEN "aborted" ELSE "passed"
          /\ i' = i
       \/ ~server /\ UNCHANGED <<i, outcome>>
    /\ UNCHANGED <<peer, script, js, server, report>>

\* One request of the C++ program.  A server that is down is asked again, and
\* after the last attempt the program ends as if all were well.
Ask ==
    /\ outcome = "running"
    /\ \/ /\ server
          /\ outcome' = IF Aborts(hydrate(script), Answer) THEN "aborted" ELSE "passed"
          /\ i' = i
       \/ /\ ~server
          /\ i' = i + 1
          /\ outcome' = IF i' = Attempts THEN "gave up" ELSE outcome
    /\ UNCHANGED <<peer, script, js, server, report>>

\* report.js on a file with the script: it prints the message, or exits with 1.
Report ==
    /\ peer = "nodejs"
    /\ report = "not run"
    /\ report' = IF js = Throws THEN "exit 1" ELSE "printed"
    /\ UNCHANGED <<peer, script, js, server, i, outcome>>

\* Somebody starts or stops the server.
Toggle ==
    /\ server' = ~server
    /\ UNCHANGED <<peer, script, js, i, outcome, report>>

Meanings == {hydrate(s) : s \in Script}
JsParses(p, m) == IF p = "nodejs" THEN parseSlpOutputScript(m) ELSE parseSLP(m)

DiffInit ==
    /\ peer \in Peer
    /\ script \in Script
    /\ js \in UNION {JsParses(peer, m) : m \in Meanings}
    /\ server \in BOOLEAN
    /\ i = 0
    /\ outcome = "running"
    /\ report = "not run"

DiffNext == Ask \/ Report \/ Toggle

\* The C++ program is a process of its own that only waits for the server's
\* answer or for its timer; nothing is assumed of the server.
DiffSpec == DiffInit /\ [][DiffNext]_diffVars /\ WF_diffVars(Ask)

-----------------------------------------------------------------------------
\* What a pair compares of a message: texts that slp-validate decoded are left
\* out.
Compared(m) ==
    IF peer = "nodejs" /\ m.type = "genesis"
    THEN [m EXCEPT !.ticker = "", !.name = "", !.document_uri = ""]
    ELSE m

Disagree ==
    \A m \in Meanings : js \in JsParses(peer, m) => Compared(m) # Compared(hydrate(script))

\* slp-parser.js/server.js takes a GENESIS without document hash, if slp-parser
\* reports the hash as null, for one that does not parse.
Misheard ==
    /\ peer = "slpparser"
    /\ js.transactionType = "GENESIS"
    /\ js.data.documentHash = Null

\* A program that got an answer aborts exactly when the two parsers disagree on
\* something the pair compares: neither null for "absent", nor the notation of
\* numbers, hashes and texts, nor the leading zero of slp-validate's amounts
\* raises or hides an alarm.  The exception is a message the server misheard.
VerdictIsRight ==
    outcome \in {"passed", "aborted"} =>
        (outcome = "aborted" <=> IF Misheard THEN hydrate(script) # Invalid ELSE Disagree)

\* The program ends, even if the server never comes up or keeps going down.
ProgramEnds == <>(outcome # "running")

\* What the validator's model assumes of parsed transactions (Parsed of SlpTx)
\* holds of whatever hydrate accepts.
Defaults == [type |-> "invalid", token_type |-> 1, amounts |-> <<>>, qty |-> 0,
             mint_baton_vout |-> 0]
Parsing == INSTANCE SlpTx WITH
    Txid <- Script, Tx <- [s \in Script |-> With(Defaults, hydrate(s))], MaxAmount <- 2
ParserKeepsPromise == Parsing!Parsed(script)
=============================================================================
