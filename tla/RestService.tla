---------------------------- MODULE RestService ----------------------------
(***************************************************************************)
(* What the HTTP gateway promises, in its clients' terms: coins named by   *)
(* txid, output number and owner, with no byte order, script, base64 or    *)
(* gRPC message in sight.  A question is answered with what the UTXO set   *)
(* holds at one moment between the question and the answer, or with an     *)
(* error.                                                                  *)
(***************************************************************************)
EXTENDS Integers, FiniteSets, FiniteSetsExt

CONSTANTS
    Conn,     \* connections
    Coin,     \* [txid, vout, value, owner]
    Indexed,  \* txids of the token graphs
    Limit     \* coins in one answer at most

VARIABLES
    coins,    \* the UTXO set
    up,       \* the gateway runs
    stage,    \* stage[c]: see Stage
    question, \* question[c]: what c asked
    answer    \* answer[c]: what c is or will be told

serviceVars == <<coins, up, stage, question, answer>>

Stage    == {"free", "waiting", "ready", "answered", "lost"}
Nothing  == [kind |-> "nothing"]
Failure  == [kind |-> "failure"]
Refusal  == [kind |-> "refusal"]
Coins(S) == [kind |-> "coins", coins |-> S]
Total(n) == [kind |-> "total", total |-> n]
Known(t) == [kind |-> "known", txid |-> t]

OwnedBy(a) == {o \in coins : o.owner = a}
Value(S)   == MapThenSumSet(LAMBDA o : o.value, S)

\* What an answer may say; a question with a txid that cannot be made out is
\* promised no particular answer.
Truthful(q) ==
    CASE q.kind = "outpoints" -> {Coins({o \in coins : <<o.txid, o.vout>> \in q.outpoints})}
      [] q.kind = "coins"     ->
            {Coins(S) : S \in kSubset(Min({Limit, Cardinality(OwnedBy(q.owner))}), OwnedBy(q.owner))}
      [] q.kind = "balance"   -> {Total(Value(OwnedBy(q.owner)))}
      [] q.kind = "history"   -> IF q.txid \in Indexed THEN {Known(q.txid)} ELSE {Failure}
      [] OTHER                -> {Coins(S) : S \in SUBSET coins} \cup {Known(t) : t \in Indexed}

Lists(a) == a.kind = "coins" /\ a.coins # {}

-----------------------------------------------------------------------------
Move(c, from, to) == stage[c] = from /\ stage' = [stage EXCEPT ![c] = to]

Ask(c, q) ==
    /\ up
    /\ Move(c, "free", "waiting")
    /\ question' = [question EXCEPT ![c] = q]
    /\ UNCHANGED <<coins, up, answer>>

Refuse(c) ==
    /\ up
    /\ question[c].kind = "malformed"
    /\ Move(c, "waiting", "answered")
    /\ answer' = [answer EXCEPT ![c] = Refusal]
    /\ UNCHANGED <<coins, up, question>>

Decide(c) ==
    /\ up
    /\ question[c].kind # "malformed"
    /\ Move(c, "waiting", "ready")
    /\ \E a \in Truthful(question[c]) \cup {Failure} : answer' = [answer EXCEPT ![c] = a]
    /\ UNCHANGED <<coins, up, question>>

Tell(c) ==
    /\ up
    /\ Move(c, "ready", "answered")
    /\ UNCHANGED <<coins, up, question, answer>>

Leave(c) ==
    /\ Move(c, "answered", "free")
    /\ question' = [question EXCEPT ![c] = Nothing]
    /\ answer' = [answer EXCEPT ![c] = Nothing]
    /\ UNCHANGED <<coins, up>>

\* The gateway may end, with every question it holds, and only over an answer
\* that lists coins.
End(c) ==
    /\ up
    /\ stage[c] = "ready" /\ Lists(answer[c])
    /\ up' = FALSE
    /\ stage' = [d \in Conn |-> IF stage[d] \in {"waiting", "ready"} THEN "lost" ELSE stage[d]]
    /\ UNCHANGED <<coins, question, answer>>

Change ==
    /\ coins' \in SUBSET Coin
    /\ UNCHANGED <<up, stage, question, answer>>

ServiceInit ==
    /\ coins = {}
    /\ up = TRUE
    /\ stage = [c \in Conn |-> "free"]
    /\ question = [c \in Conn |-> Nothing]
    /\ answer = [c \in Conn |-> Nothing]

\* Questions are the clients' business: any.
ServiceNext ==
    \/ \E c \in Conn :
          \/ Ask(c, question'[c])
          \/ Refuse(c) \/ Decide(c) \/ Tell(c) \/ Leave(c) \/ End(c)
    \/ Change

ServiceSpec == ServiceInit /\ [][ServiceNext]_serviceVars
=============================================================================
