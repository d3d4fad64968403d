----------------------------- MODULE SlpParser -----------------------------
(***************************************************************************)
(* slp_transaction::hydrate: from the script of output 0 to an SLP         *)
(* message.  A script is the list of what follows its first byte: pushes   *)
(* and other opcodes.  A chunk keeps its size, the number it reads as and  *)
(* the text or id it stands for.                                           *)
(***************************************************************************)
EXTENDS Integers, Sequences

\* op: how the data is pushed ("other": an opcode that is no push, OP_0 among
\* them); missing: the script ends before its data does.
Push == [op : {"direct", "pushdata", "other"}, missing : BOOLEAN,
         chunk : [size : Nat, num : Nat, str : STRING]]

Invalid == [type |-> "invalid"]

\* extract_pushdata and extract_string.  The checks on PUSHDATA want a byte
\* after the length, so that an empty push cannot come last.
Extracts(p, last) ==
    /\ ~p.missing
    /\ \/ p.op = "direct" /\ p.chunk.size \in 1..75
       \/ p.op = "pushdata" /\ ~(last /\ p.chunk.size = 0)

\* Every push is read to the end of the script: no trailing data.
AllExtracted(script) ==
    \A i \in DOMAIN script : Extracts(script[i], i = Len(script))

\* Faulty variant: a baton may sit on output 1.
Baton_lenient(c) == c.size = 0 \/ (c.size = 1 /\ c.num >= 1)

Lokad(c)     == c.size = 4 /\ c.str = "SLP"
TokenTyped(c) == c.size \in {1, 2} /\ c.num \in {1, 65, 129}
Quantity(c)  == c.size = 8
TokenId(c)   == c.size = 32
Baton(c)     == c.size = 0 \/ (c.size = 1 /\ c.num >= 2)
BatonVout(c) == IF c.size = 0 THEN 0 ELSE c.num

GenesisOk(ch) ==
    /\ Len(ch) = 10
    /\ ch[7].size \in {0, 32}
    /\ ch[8].size = 1 /\ ch[8].num <= 9
    /\ Baton(ch[9])
    /\ Quantity(ch[10])
    /\ ch[2].num = 65 => ch[8].num = 0 /\ BatonVout(ch[9]) = 0 /\ ch[10].num = 1

MintOk(ch) ==
    /\ ch[2].num # 65
    /\ Len(ch) = 6
    /\ TokenId(ch[4])
    /\ Baton(ch[5])
    /\ Quantity(ch[6])

SendOk(ch) ==
    /\ Len(ch) >= 5
    /\ TokenId(ch[4])
    /\ \A i \in 5..Len(ch) : Quantity(ch[i])
    /\ Len(ch) - 4 <= 19

\* A script that does not begin with OP_RETURN is rejected at once and left out;
\* one of fewer than ten bytes cannot have the chunks asked for below.
hydrate(script) ==
    LET ch == [i \in DOMAIN script |-> script[i].chunk]
        ok == /\ AllExtracted(script)
              /\ Len(ch) >= 3
              /\ Lokad(ch[1])
              /\ TokenTyped(ch[2])
    IN  CASE ok /\ ch[3].str = "GENESIS" /\ GenesisOk(ch) ->
                [type |-> "genesis", token_type |-> ch[2].num,
                 ticker |-> ch[4].str, name |-> ch[5].str, document_uri |-> ch[6].str,
                 document_hash |-> ch[7].str, decimals |-> ch[8].num,
                 mint_baton_vout |-> BatonVout(ch[9]), qty |-> ch[10].num]
          [] ok /\ ch[3].str = "MINT" /\ MintOk(ch) ->
                [type |-> "mint", token_type |-> ch[2].num, tokenid |-> ch[4].str,
                 mint_baton_vout |-> BatonVout(ch[5]), qty |-> ch[6].num]
          [] ok /\ ch[3].str = "SEND" /\ SendOk(ch) ->
                [type |-> "send", token_type |-> ch[2].num, tokenid |-> ch[4].str,
                 amounts |-> [i \in 1..(Len(ch) - 4) |-> ch[i + 4].num]]
          [] OTHER -> Invalid
=============================================================================
