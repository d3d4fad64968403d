-------------------------- MODULE MCDifferential --------------------------
(***************************************************************************)
(* Differential over scripts around every check of hydrate, and pairs of   *)
(* messages that differ in a single field.                                 *)
(***************************************************************************)
EXTENDS Differential

Chunk(size, num, str) == [size |-> size, num |-> num, str |-> str]
Pushed(op, c) == [op |-> op, missing |-> FALSE, chunk |-> c]
PushOf(c) == Pushed(IF c.size = 0 THEN "pushdata" ELSE "direct", c)
Pushes(chunks) == [k \in DOMAIN chunks |-> PushOf(chunks[k])]

Text(str)   == Chunk(IF str = "" THEN 0 ELSE 3, 0, str)
Number(n)   == Chunk(1, n, "")
Units(n)    == Chunk(8, n, "")
Lead(tt, action) == <<Chunk(4, 0, "SLP"), Number(tt), Text(action)>>

Gen(tt, ticker, hash, decimals, baton, qty) ==
    Pushes(Lead(tt, "GENESIS") \o <<Text(ticker), Text(""), Text("uri"), hash, decimals, baton, qty>>)
Minted(tt, id, baton, qty) == Pushes(Lead(tt, "MINT") \o <<id, baton, qty>>)
Sent(tt, id, amounts) == Pushes(Lead(tt, "SEND") \o <<id>> \o amounts)

NoData == Chunk(0, 0, "")
Hash(str) == Chunk(32, 0, str)
Plain == Gen(1, "a", NoData, Number(0), NoData, Units(1))

\* A message, and its variations in one field or at one limit.
Geneses ==
    {Gen(tt, "a", NoData, decimals, NoData, Units(1)) : tt \in {1, 2, 65}, decimals \in {Number(0), Number(9)}}
    \cup {Gen(tt, "a", NoData, Number(0), baton, Units(1)) : tt \in {1, 65}, baton \in {Number(1), Number(2)}}
    \cup {Gen(tt, "a", NoData, Number(0), NoData, Units(2)) : tt \in {1, 65}}
    \cup {Gen(1, "a", hash, Number(0), NoData, Units(1)) : hash \in {Hash("h"), Chunk(31, 0, "h")}}
    \cup {Gen(tt, "not utf8", NoData, Number(0), NoData, Units(1)) : tt \in {1, 129}}
    \cup {Gen(1, "a", NoData, Number(10), NoData, Units(1)),
          Gen(1, "a", NoData, Number(0), Chunk(2, 2, ""), Units(1)),
          Gen(1, "a", NoData, Number(0), NoData, Chunk(7, 1, "")),
          Plain \o Pushes(<<Units(1)>>), SubSeq(Plain, 1, 9), SubSeq(Plain, 1, 2), <<>>}

Mints ==
    {Minted(tt, Hash("t"), NoData, Units(0)) : tt \in {1, 65, 129}}
    \cup {Minted(1, id, NoData, Units(0)) : id \in {Hash("u"), Chunk(31, 0, "t")}}
    \cup {Minted(1, Hash("t"), baton, Units(q)) : baton \in {Number(1), Number(2)}, q \in {0, 2}}

Sends ==
    {Sent(1, Hash("t"), amounts) :
        amounts \in {<<>>, <<Units(0)>>, <<Units(1)>>, <<Units(0), Units(1)>>, <<Units(1), Units(0)>>,
                     <<Units(1), Chunk(4, 1, "")>>,
                     [k \in 1..19 |-> Units(1)], [k \in 1..20 |-> Units(1)]}}
    \cup {Sent(1, Hash("u"), <<Units(1)>>), Sent(65, Hash("t"), <<Units(1)>>)}

\* Pushes that are read, or not.
Odd == {Plain \o <<Pushed("pushdata", NoData)>>, Plain \o <<Pushed("other", NoData)>>,
        SubSeq(Plain, 1, 9) \o <<[Pushed("direct", Units(1)) EXCEPT !.missing = TRUE]>>,
        SubSeq(Plain, 1, 9) \o <<Pushed("pushdata", Units(1))>>,
        Sent(1, Hash("t"), <<>>) \o <<Pushed("other", Units(1))>>,
        Pushes(Lead(1, "BURN") \o <<Hash("t"), Units(1)>>)}

AllScripts == Geneses \cup Mints \cup Sends \cup Odd
MCScript == AllScripts
=============================================================================
