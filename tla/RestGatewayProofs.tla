------------------------- MODULE RestGatewayProofs -------------------------
(***************************************************************************)
(* The proof that rest/index.js implements RestService, for any number of  *)
(* connections, any requests and outputs, any length of a txid and any     *)
(* limit.  First the conversions: what hexToBytes, bytesToHex, bhash and   *)
(* Reverse make of a txid, and that addressToScriptpubkey and fromScript   *)
(* agree.  Then the coins and their sums, what each handler and callback   *)
(* does, and the steps of the refinement.                                  *)
(***************************************************************************)
EXTENDS RestGateway, FoldTheorems, SequenceTheorems

-----------------------------------------------------------------------------
(* Hexadecimal texts and bytes. *)

\* What a request and an output are made of.
LEMMA OutputType ==
    ASSUME NEW o \in Output
    PROVE  /\ o.prev_tx_id \in [1..TxidLen -> 0..255] /\ o.prev_out_idx \in Nat /\ o.value \in Nat
           /\ o.scriptpubkey \in Seq(0..255)
<1>1. Uint32 \in Nat /\ o.prev_out_idx \in 0..(Uint32 - 1)
  BY GatewayAssumption
<1>2. o \in [prev_tx_id : [1..TxidLen -> 0..255], prev_out_idx : 0..(Uint32 - 1), value : Nat,
             scriptpubkey : Seq(0..255)]
  BY GatewayAssumption
<1>. QED
  BY <1>1, <1>2

\* The digit of a character.
LEMMA DigitOf ==
    ASSUME NEW ch \in Character
    PROVE  /\ Digit(ch) \in 0..15 \cup {NaN} /\ NaN \notin 0..15
           /\ ch < 16 => Digit(ch) = ch /\ Digit(ch) # NaN
BY DEF Digit, NaN, Character

\* hexToBytes reads two characters for a byte.
LEMMA HexToBytes ==
    ASSUME NEW text \in Seq(Character), IsTxid(text)
    PROVE  /\ hexToBytes(text) \in [1..TxidLen -> 0..255]
           /\ \A i \in 1..TxidLen : hexToBytes(text)[i] = Byte(text, i)
<1>1. TxidLen \in Nat /\ Len(text) = 2 * TxidLen /\ DOMAIN text = 1..(2 * TxidLen)
      /\ \A i \in 1..(2 * TxidLen) : text[i] \in Character /\ Digit(text[i]) # NaN
  BY GatewayAssumption, LenProperties, ElementOfSeq DEF IsTxid
<1>2. (Len(text) + 1) \div 2 = TxidLen
  BY <1>1
<1>3. ASSUME NEW i \in 1..TxidLen
      PROVE  /\ parseInt(SubSeq(text, 2 * i - 1, Min({2 * i, Len(text)}))) = Byte(text, i)
             /\ Byte(text, i) \in 0..255
  <2>1. 2 * i - 1 \in 1..(2 * TxidLen) /\ 2 * i \in 1..(2 * TxidLen)
    BY <1>1
  <2>2. Min({2 * i, Len(text)}) = 2 * i
    <3>1. 2 * i <= Len(text) /\ 2 * i \in Int /\ Len(text) \in Int
      BY <1>1, <2>1
    <3>2. \A x \in {2 * i, Len(text)} : (\A y \in {2 * i, Len(text)} : x =< y) => x = 2 * i
      BY <3>1
    <3>3. \A y \in {2 * i, Len(text)} : 2 * i =< y
      BY <3>1
    <3>. QED
      BY <3>2, <3>3 DEF Min
  <2>. DEFINE s == SubSeq(text, 2 * i - 1, 2 * i)
  <2>3. Len(s) = 2 /\ s[1] = text[2 * i - 1] /\ s[2] = text[2 * i]
    <3>1. \A k \in (2 * i - 1)..(2 * i) : text[k] \in Character
      BY <1>1, <2>1
    <3>2. 2 * i - 1 \in Int /\ 2 * i \in Int
      OBVIOUS
    <3>. DEFINE m == 2 * i - 1
                n == 2 * i
    <3>3. m \in Int /\ n \in Int /\ n - m + 1 = 2 /\ m <= n /\ \A k \in m..n : text[k] \in Character
      BY <3>1, <3>2
    <3>4. m + 1 - 1 = 2 * i - 1 /\ m + 2 - 1 = 2 * i
      OBVIOUS
    <3>. HIDE DEF m, n
    <3>5. /\ Len(SubSeq(text, m, n)) = IF m <= n THEN n - m + 1 ELSE 0
          /\ \A k \in 1..(n - m + 1) : SubSeq(text, m, n)[k] = text[m + k - 1]
      BY <3>3, SubSeqProperties
    <3>6. Len(SubSeq(text, m, n)) = 2
      BY <3>3, <3>5
    <3>7. SubSeq(text, m, n)[1] = text[m + 1 - 1] /\ SubSeq(text, m, n)[2] = text[m + 2 - 1]
      <4>1. 1 \in 1..(n - m + 1) /\ 2 \in 1..(n - m + 1)
        BY <3>3
      <4>. QED
        BY <3>5, <4>1
    <3>. QED
      BY <3>4, <3>6, <3>7 DEF m, n
  <2>4. /\ Digit(text[2 * i - 1]) \in 0..15 /\ Digit(text[2 * i]) \in 0..15
        /\ Digit(text[2 * i - 1]) # NaN /\ Digit(text[2 * i]) # NaN
    BY <1>1, <2>1, DigitOf
  <2>. HIDE DEF s
  <2>5. parseInt(s) = 16 * Digit(text[2 * i - 1]) + Digit(text[2 * i])
    <3>. DEFINE a == Digit(s[1])
                b == Digit(s[2])
    <3>1. Len(s) = 2 /\ a # NaN /\ b # NaN /\ Len(s) # 1
      BY <2>3, <2>4
    <3>2. s[1] # Minus /\ s[1] \notin {Plus, Blank} /\ s # <<0, X>>
      <4>1. Digit(Minus) = NaN /\ Digit(Plus) = NaN /\ Digit(Blank) = NaN /\ Digit(X) = NaN
        BY DEF Digit, Minus, Plus, Blank, X
      <4>2. <<0, X>>[2] = X
        OBVIOUS
      <4>. QED
        BY <3>1, <4>1, <4>2
    <3>3. parseInt(s) = 16 * a + b
      <4>. HIDE DEF a, b
      <4>. QED
        BY <3>1, <3>2, Zenon DEF parseInt, a, b
    <3>. QED
      BY <2>3, <3>3
  <2>. DEFINE a == Digit(text[2 * i - 1])
              b == Digit(text[2 * i])
  <2>6. 16 * a + b \in 0..255
    <3>1. a \in 0..15 /\ b \in 0..15
      BY <2>4
    <3>. HIDE DEF a, b
    <3>. QED
      BY <3>1
  <2>. QED
    BY <2>2, <2>5, <2>6 DEF Byte, s
<1>. QED
  BY <1>2, <1>3 DEF hexToBytes

\* A function on 1..n is a sequence of length n.
LEMMA LenOf ==
    ASSUME NEW n \in Nat, NEW D, NEW s \in [1..n -> D]
    PROVE  s \in Seq(D) /\ Len(s) = n
<1>1. s \in Seq(D)
  BY SeqDef
<1>2. Len(s) \in Nat /\ DOMAIN s = 1..Len(s) /\ DOMAIN s = 1..n
  BY <1>1, LenProperties
<1>. QED
  BY <1>1, <1>2

\* Bytes in the other order.
LEMMA ReverseOf ==
    ASSUME NEW n \in Nat, NEW s \in [1..n -> 0..255]
    PROVE  /\ Reverse(s) \in [1..n -> 0..255]
           /\ \A i \in 1..n : Reverse(s)[i] = s[n + 1 - i]
<1>1. Len(s) = n
  BY LenOf
<1>2. \A i \in 1..n : (n - i) + 1 = n + 1 - i /\ n + 1 - i \in 1..n
  OBVIOUS
<1>. QED
  BY <1>1, <1>2 DEF Reverse

\* bytesToHex writes two digits for a byte.
LEMMA BytesToHex ==
    ASSUME NEW n \in Nat, NEW s \in [1..n -> 0..255]
    PROVE  /\ bytesToHex(s) \in [1..(2 * n) -> 0..15]
           /\ \A i \in 1..n : /\ bytesToHex(s)[2 * i - 1] = s[i] \div 16
                              /\ bytesToHex(s)[2 * i] = s[i] % 16
<1>1. Len(s) = n
  BY LenOf
<1>2. \A b \in 0..255 : current(b) = b /\ b \div 16 \in 0..15 /\ b % 16 \in 0..15
  <2>1. ASSUME NEW b \in 0..255 PROVE current(b) = b
    <3>1. b # NaN /\ ~(b < 0)
      BY DEF NaN
    <3>. QED
      BY <3>1 DEF current
  <2>2. \A b \in 0..255 : b \div 16 \in 0..15 /\ b % 16 \in 0..15
    OBVIOUS
  <2>. QED
    BY <2>1, <2>2
<1>3. ASSUME NEW i \in 1..n
      PROVE  /\ 2 * i - 1 \in 1..(2 * n) /\ ((2 * i - 1) + 1) \div 2 = i /\ (2 * i - 1) % 2 = 1
             /\ 2 * i \in 1..(2 * n) /\ (2 * i + 1) \div 2 = i /\ (2 * i) % 2 = 0
  OBVIOUS
<1>4. \A k \in 1..(2 * n) : (k + 1) \div 2 \in 1..n
  OBVIOUS
<1>5. bytesToHex(s) = [k \in 1..(2 * n) |->
          LET b == current(s[(k + 1) \div 2])
          IN  IF k % 2 = 1 THEN b \div 16 ELSE b % 16]
  BY <1>1 DEF bytesToHex
<1>6. \A k \in 1..(2 * n) : s[(k + 1) \div 2] \in 0..255
  BY <1>4
<1>7. bytesToHex(s) \in [1..(2 * n) -> 0..15]
  <2>1. ASSUME NEW k \in 1..(2 * n) PROVE bytesToHex(s)[k] \in 0..15
    <3>. DEFINE b == s[(k + 1) \div 2]
    <3>1. bytesToHex(s)[k] = IF k % 2 = 1 THEN b \div 16 ELSE b % 16
      BY <1>2, <1>5, <1>6
    <3>2. b \in 0..255
      BY <1>6
    <3>. HIDE DEF b
    <3>3. b \div 16 \in 0..15 /\ b % 16 \in 0..15
      BY <1>2, <3>2
    <3>. QED
      BY <3>1, <3>3
  <2>. QED
    BY <1>5, <2>1
<1>8. ASSUME NEW i \in 1..n
      PROVE  bytesToHex(s)[2 * i - 1] = s[i] \div 16 /\ bytesToHex(s)[2 * i] = s[i] % 16
  <2>1. s[i] \in 0..255 /\ current(s[i]) = s[i]
    BY <1>2
  <2>. QED
    BY <1>3, <1>5, <2>1
<1>. QED
  BY <1>7, <1>8

\* Two digits make the byte they were written for.
LEMMA ByteOfDigits ==
    ASSUME NEW b \in 0..255
    PROVE  /\ 16 * (b \div 16) + (b % 16) = b
           /\ b % 256 = b
OBVIOUS

\* The constructor of bhash reads what bytesToHex writes.
LEMMA BhashReadsHex ==
    ASSUME NEW s \in [1..TxidLen -> 0..255]
    PROVE  bhash(bytesToHex(s)) = s /\ Len(bytesToHex(s)) = 2 * TxidLen
<1>1. TxidLen \in Nat
  BY GatewayAssumption
<1>. DEFINE hex == bytesToHex(s)
<1>2. /\ hex \in [1..(2 * TxidLen) -> 0..15]
      /\ \A i \in 1..TxidLen : hex[2 * i - 1] = s[i] \div 16 /\ hex[2 * i] = s[i] % 16
  BY <1>1, BytesToHex
<1>. HIDE DEF hex
<1>3. ASSUME NEW i \in 1..TxidLen PROVE bhash(hex)[i] = s[i]
  <2>1. 2 * i - 1 \in 1..(2 * TxidLen) /\ 2 * i \in 1..(2 * TxidLen)
    BY <1>1
  <2>2. hex[2 * i - 1] < 16 /\ hex[2 * i] < 16
    BY <1>2, <2>1
  <2>3. bhash(hex)[i] = (16 * hex[2 * i - 1] + hex[2 * i]) % 256
    BY <2>2 DEF bhash
  <2>. DEFINE b == s[i]
  <2>4. hex[2 * i - 1] = b \div 16 /\ hex[2 * i] = b % 16 /\ b \in 0..255
    BY <1>2
  <2>. HIDE DEF b
  <2>5. (16 * (b \div 16) + (b % 16)) % 256 = b
    BY <2>4, ByteOfDigits
  <2>6. bhash(hex)[i] = (16 * (b \div 16) + (b % 16)) % 256
    BY ONLY <2>3, <2>4
  <2>. QED
    BY <2>5, <2>6 DEF b
<1>4. bhash(hex) = s
  BY <1>3 DEF bhash
<1>5. Len(hex) = 2 * TxidLen
  <2>1. 2 * TxidLen \in Nat
    BY <1>1
  <2>. QED
    BY <1>2, <2>1, LenOf
<1>. QED
  BY <1>4, <1>5 DEF hex

\* The txid of an outpoint in a request is the one it shows.
LEMMA OutpointIsShown ==
    ASSUME NEW text \in Seq(Character), IsTxid(text)
    PROVE  LET hex == bytesToHex(Reverse(hexToBytes(text)))
           IN  Len(hex) = 2 * TxidLen /\ bhash(hex) = Shown(text)
<1>1. TxidLen \in Nat
  BY GatewayAssumption
<1>. DEFINE bytes == hexToBytes(text)
            rev == Reverse(bytes)
<1>2. bytes \in [1..TxidLen -> 0..255] /\ \A i \in 1..TxidLen : bytes[i] = Byte(text, i)
  BY HexToBytes
<1>3. rev \in [1..TxidLen -> 0..255] /\ \A i \in 1..TxidLen : rev[i] = bytes[TxidLen + 1 - i]
  <2>. HIDE DEF bytes
  <2>. QED
    BY <1>1, <1>2, ReverseOf
<1>4. \A i \in 1..TxidLen : TxidLen + 1 - i \in 1..TxidLen
  BY <1>1
<1>. HIDE DEF bytes, rev
<1>5. rev = Shown(text)
  BY <1>2, <1>3, <1>4 DEF Shown
<1>6. bhash(bytesToHex(rev)) = rev /\ Len(bytesToHex(rev)) = 2 * TxidLen
  BY <1>3, BhashReadsHex
<1>. QED
  BY <1>5, <1>6 DEF rev, bytes

\* A txid that a response shows is the one of the output.
LEMMA JsonIsShown ==
    ASSUME NEW o \in Output
    PROVE  Shown(json(o).prevTxId) = o.prev_tx_id
<1>1. TxidLen \in Nat
  BY GatewayAssumption
<1>. DEFINE id == o.prev_tx_id
            rev == Reverse(id)
            hex == bytesToHex(rev)
<1>2. id \in [1..TxidLen -> 0..255]
  BY OutputType
<1>. HIDE DEF id
<1>3. rev \in [1..TxidLen -> 0..255] /\ \A i \in 1..TxidLen : rev[i] = id[TxidLen + 1 - i]
  BY <1>1, <1>2, ReverseOf
<1>. HIDE DEF rev
<1>4. /\ hex \in [1..(2 * TxidLen) -> 0..15]
      /\ \A i \in 1..TxidLen : hex[2 * i - 1] = rev[i] \div 16 /\ hex[2 * i] = rev[i] % 16
  BY <1>1, <1>3, BytesToHex
<1>. HIDE DEF hex
<1>5. ASSUME NEW i \in 1..TxidLen PROVE Shown(hex)[i] = id[i]
  <2>. DEFINE j == TxidLen + 1 - i
  <2>1. j \in 1..TxidLen /\ TxidLen + 1 - j = i
    BY <1>1
  <2>2. Shown(hex)[i] = Byte(hex, j)
    BY DEF Shown
  <2>. HIDE DEF j
  <2>3. 2 * j - 1 \in 1..(2 * TxidLen) /\ 2 * j \in 1..(2 * TxidLen)
    BY <1>1, <2>1
  <2>4. hex[2 * j - 1] \in Character /\ hex[2 * j - 1] < 16 /\ hex[2 * j] \in Character /\ hex[2 * j] < 16
    BY <1>4, <2>3 DEF Character
  <2>5. Byte(hex, j) = 16 * hex[2 * j - 1] + hex[2 * j]
    BY <2>4, DigitOf DEF Byte
  <2>. DEFINE b == rev[j]
  <2>6. hex[2 * j - 1] = b \div 16 /\ hex[2 * j] = b % 16 /\ b \in 0..255 /\ b = id[i]
    <3>1. rev[j] = id[TxidLen + 1 - j]
      BY <1>3, <2>1
    <3>. QED
      BY <1>3, <1>4, <2>1, <3>1
  <2>. HIDE DEF b
  <2>7. 16 * (b \div 16) + (b % 16) = b
    BY <2>6, ByteOfDigits
  <2>8. Shown(hex)[i] = 16 * (b \div 16) + (b % 16)
    BY ONLY <2>2, <2>5, <2>6
  <2>. QED
    BY <2>6, <2>7, <2>8
<1>6. Shown(hex) = id
  BY <1>2, <1>5 DEF Shown
<1>. QED
  BY <1>6 DEF json, hex, rev, id

\* In the order of its bytes and in small letters a text names what bhash reads.
LEMMA PlainIsRead ==
    ASSUME NEW text \in Seq(Character), IsTxid(text), \A i \in DOMAIN text : text[i] < 16
    PROVE  bhash(text) = Plain(text)
<1>1. TxidLen \in Nat /\ Len(text) = 2 * TxidLen /\ DOMAIN text = 1..(2 * TxidLen)
      /\ \A i \in 1..(2 * TxidLen) : text[i] \in Character /\ text[i] < 16
  BY GatewayAssumption, LenProperties, ElementOfSeq DEF IsTxid
<1>2. ASSUME NEW i \in 1..TxidLen
      PROVE  bhash(text)[i] = Plain(text)[i]
  <2>. DEFINE a == text[2 * i - 1]
              b == text[2 * i]
  <2>1. 2 * i - 1 \in 1..(2 * TxidLen) /\ 2 * i \in 1..(2 * TxidLen)
    BY <1>1
  <2>2. a \in Character /\ b \in Character /\ a < 16 /\ b < 16
    BY <1>1, <2>1
  <2>3. bhash(text)[i] = (16 * a + b) % 256
    BY <2>2 DEF bhash
  <2>4. Plain(text)[i] = 16 * a + b
    BY <2>2, DigitOf DEF Plain, Byte
  <2>. HIDE DEF a, b
  <2>5. 16 * a + b \in 0..255
    BY <2>2 DEF Character
  <2>. QED
    BY <2>3, <2>4, <2>5, ByteOfDigits
<1>. QED
  BY <1>2 DEF bhash, Plain
-----------------------------------------------------------------------------
(* Scripts and addresses. *)

\* A sequence put together from three parts, and the same by its elements.
Joined(p, h, q) == p \o h \o q

HasParts(s, p, h, q) ==
    /\ s \in Seq(Nat) /\ Len(s) = Len(p) + Len(h) + Len(q)
    /\ \A i \in 1..Len(p) : s[i] = p[i]
    /\ \A i \in 1..Len(h) : s[Len(p) + i] = h[i]
    /\ \A i \in 1..Len(q) : s[Len(p) + Len(h) + i] = q[i]

\* The one is the other.
LEMMA PartsOf ==
    ASSUME NEW p \in Seq(Nat), NEW h \in Seq(Nat), NEW q \in Seq(Nat), NEW s, s = Joined(p, h, q)
    PROVE  HasParts(s, p, h, q)
<1>. DEFINE r == p \o h
<1>1. Len(p) \in Nat /\ Len(h) \in Nat /\ Len(q) \in Nat
  BY LenProperties
<1>2. /\ r \in Seq(Nat) /\ Len(r) = Len(p) + Len(h)
      /\ \A i \in 1..(Len(p) + Len(h)) : r[i] = IF i <= Len(p) THEN p[i] ELSE h[i - Len(p)]
  BY ConcatProperties
<1>. HIDE DEF r
<1>9. r \in Seq(Nat) /\ q \in Seq(Nat)
  BY <1>2
<1>3. /\ r \o q \in Seq(Nat) /\ Len(r \o q) = Len(r) + Len(q)
      /\ \A i \in 1..(Len(r) + Len(q)) : (r \o q)[i] = IF i <= Len(r) THEN r[i] ELSE q[i - Len(r)]
  BY ONLY <1>9, ConcatProperties
<1>4. s = r \o q
  BY DEF r, Joined
<1>5. ASSUME NEW i \in 1..Len(p) PROVE s[i] = p[i]
  <2>1. i \in 1..(Len(p) + Len(h)) /\ i \in 1..(Len(r) + Len(q)) /\ i <= Len(r) /\ i <= Len(p)
    BY <1>1, <1>2
  <2>. QED
    BY <1>2, <1>3, <1>4, <2>1
<1>6. ASSUME NEW i \in 1..Len(h) PROVE s[Len(p) + i] = h[i]
  <2>. DEFINE k == Len(p) + i
  <2>1. k \in 1..(Len(p) + Len(h)) /\ k \in 1..(Len(r) + Len(q)) /\ k <= Len(r) /\ ~(k <= Len(p))
        /\ k - Len(p) = i
    BY <1>1, <1>2
  <2>. HIDE DEF k
  <2>2. s[k] = h[i]
    BY <1>2, <1>3, <1>4, <2>1
  <2>. QED
    BY <2>2 DEF k
<1>7. ASSUME NEW i \in 1..Len(q) PROVE s[Len(p) + Len(h) + i] = q[i]
  <2>. DEFINE k == Len(p) + Len(h) + i
  <2>1. k \in 1..(Len(r) + Len(q)) /\ ~(k <= Len(r)) /\ k - Len(r) = i
    BY <1>1, <1>2
  <2>. HIDE DEF k
  <2>2. s[k] = q[i]
    BY <1>3, <1>4, <2>1
  <2>. QED
    BY <2>2 DEF k
<1>8. s \in Seq(Nat) /\ Len(s) = Len(p) + Len(h) + Len(q)
  BY <1>2, <1>3, <1>4
<1>. QED
  BY <1>5, <1>6, <1>7, <1>8 DEF HasParts

\* The first three bytes of a script.
LEMMA FirstThree ==
    ASSUME NEW s \in Seq(Nat), 3 <= Len(s), NEW a \in Nat, NEW b \in Nat, NEW c \in Nat
    PROVE  SubSeq(s, 1, 3) = <<a, b, c>> <=> s[1] = a /\ s[2] = b /\ s[3] = c
<1>. DEFINE x == SubSeq(s, 1, 3)
            y == <<a, b, c>>
<1>1. x \in Seq(Nat) /\ Len(x) = 3 /\ y \in Seq(Nat) /\ Len(y) = 3
  OBVIOUS
<1>2. x[1] = s[1] /\ x[2] = s[2] /\ x[3] = s[3] /\ y[1] = a /\ y[2] = b /\ y[3] = c
  OBVIOUS
<1>. HIDE DEF x, y
<1>3. ASSUME x[1] = y[1], x[2] = y[2], x[3] = y[3]
      PROVE  x = y
  <2>1. \A i \in 1..3 : x[i] = y[i]
    BY <1>3
  <2>. QED
    BY <1>1, <2>1, SeqEqual
<1>4. x = y <=> s[1] = a /\ s[2] = b /\ s[3] = c
  BY <1>2, <1>3
<1>. QED
  BY <1>4 DEF x, y

\* Its first two.
LEMMA FirstTwo ==
    ASSUME NEW s \in Seq(Nat), 2 <= Len(s), NEW a \in Nat, NEW b \in Nat
    PROVE  SubSeq(s, 1, 2) = <<a, b>> <=> s[1] = a /\ s[2] = b
<1>. DEFINE x == SubSeq(s, 1, 2)
            y == <<a, b>>
<1>1. x \in Seq(Nat) /\ Len(x) = 2 /\ y \in Seq(Nat) /\ Len(y) = 2
  OBVIOUS
<1>2. x[1] = s[1] /\ x[2] = s[2] /\ y[1] = a /\ y[2] = b
  OBVIOUS
<1>. HIDE DEF x, y
<1>3. ASSUME x[1] = y[1], x[2] = y[2]
      PROVE  x = y
  <2>1. \A i \in 1..2 : x[i] = y[i]
    BY <1>3
  <2>. QED
    BY <1>1, <2>1, SeqEqual
<1>4. x = y <=> s[1] = a /\ s[2] = b
  BY <1>2, <1>3
<1>. QED
  BY <1>4 DEF x, y

\* Its last two.
LEMMA LastTwo ==
    ASSUME NEW s \in Seq(Nat), 2 <= Len(s), NEW a \in Nat, NEW b \in Nat
    PROVE  SubSeq(s, Len(s) - 1, Len(s)) = <<a, b>> <=> s[Len(s) - 1] = a /\ s[Len(s)] = b
<1>. DEFINE x == SubSeq(s, Len(s) - 1, Len(s))
            y == <<a, b>>
<1>1. x \in Seq(Nat) /\ Len(x) = 2 /\ y \in Seq(Nat) /\ Len(y) = 2
  OBVIOUS
<1>2. x[1] = s[Len(s) - 1] /\ x[2] = s[Len(s)] /\ y[1] = a /\ y[2] = b
  OBVIOUS
<1>. HIDE DEF x, y
<1>3. ASSUME x[1] = y[1], x[2] = y[2]
      PROVE  x = y
  <2>1. \A i \in 1..2 : x[i] = y[i]
    BY <1>3
  <2>. QED
    BY <1>1, <2>1, SeqEqual
<1>4. x = y <=> s[Len(s) - 1] = a /\ s[Len(s)] = b
  BY <1>2, <1>3
<1>. QED
  BY <1>4 DEF x, y

\* The scripts that bitcore.Address.fromScript knows.
IsPkh(s) ==
    /\ Len(s) >= 5 /\ s[1] = 118 /\ s[2] = 169 /\ s[3] = Len(s) - 5
    /\ s[Len(s) - 1] = 136 /\ s[Len(s)] = 172
IsSh(s) == Len(s) >= 3 /\ s[1] = 169 /\ s[2] = Len(s) - 3 /\ s[Len(s)] = 135

\* fromScript, with the parts of the script by their elements.
LEMMA FromScriptOf ==
    ASSUME NEW s \in Seq(Nat)
    PROVE  fromScript(s) = IF IsPkh(s) THEN [type |-> "P2PKH", hash |-> SubSeq(s, 4, Len(s) - 2)]
                           ELSE IF IsSh(s) THEN [type |-> "P2SH", hash |-> SubSeq(s, 3, Len(s) - 1)]
                           ELSE [type |-> "null", hash |-> <<>>]
<1>1. Len(s) \in Nat
  BY LenProperties
<1>2. (Len(s) >= 5 /\ SubSeq(s, 1, 3) = <<118, 169, Len(s) - 5>>
         /\ SubSeq(s, Len(s) - 1, Len(s)) = <<136, 172>>) <=> IsPkh(s)
  <2>. SUFFICES ASSUME Len(s) >= 5
                PROVE  SubSeq(s, 1, 3) = <<118, 169, Len(s) - 5>>
                         /\ SubSeq(s, Len(s) - 1, Len(s)) = <<136, 172>> <=> IsPkh(s)
    BY DEF IsPkh
  <2>1. Len(s) - 5 \in Nat /\ 2 <= Len(s) /\ 3 <= Len(s)
    BY <1>1
  <2>2. SubSeq(s, 1, 3) = <<118, 169, Len(s) - 5>> <=> s[1] = 118 /\ s[2] = 169 /\ s[3] = Len(s) - 5
    BY <2>1, FirstThree
  <2>3. SubSeq(s, Len(s) - 1, Len(s)) = <<136, 172>> <=> s[Len(s) - 1] = 136 /\ s[Len(s)] = 172
    BY <2>1, LastTwo
  <2>. QED
    BY <2>2, <2>3 DEF IsPkh
<1>3. (Len(s) >= 3 /\ SubSeq(s, 1, 2) = <<169, Len(s) - 3>> /\ s[Len(s)] = 135) <=> IsSh(s)
  <2>. SUFFICES ASSUME Len(s) >= 3
                PROVE  SubSeq(s, 1, 2) = <<169, Len(s) - 3>> /\ s[Len(s)] = 135 <=> IsSh(s)
    BY DEF IsSh
  <2>1. Len(s) - 3 \in Nat /\ 2 <= Len(s)
    BY <1>1
  <2>2. SubSeq(s, 1, 2) = <<169, Len(s) - 3>> <=> s[1] = 169 /\ s[2] = Len(s) - 3
    BY <2>1, FirstTwo
  <2>. QED
    BY <2>2 DEF IsSh
<1>4. ~(IsPkh(s) /\ IsSh(s))
  BY DEF IsPkh, IsSh
<1>. QED
  BY <1>2, <1>3, <1>4 DEF fromScript

\* The addresses that a clear question is about.
Address == [type : {"P2PKH", "P2SH"}, hash : Seq(0..255)]

\* The script of an address, by its elements.
LEMMA ScriptOf ==
    ASSUME NEW a \in Address
    PROVE  LET s == addressToScriptpubkey(a)
               k == Len(a.hash)
           IN  /\ s \in Seq(Nat)
               /\ a.type = "P2PKH" => /\ IsPkh(s) /\ Len(s) = k + 5
                                      /\ \A i \in 1..k : s[3 + i] = a.hash[i]
               /\ a.type = "P2SH" => /\ IsSh(s) /\ Len(s) = k + 3
                                     /\ \A i \in 1..k : s[2 + i] = a.hash[i]
<1>. DEFINE s == addressToScriptpubkey(a)
            h == a.hash
            k == Len(h)
<1>1. a.type \in {"P2PKH", "P2SH"} /\ h \in Seq(0..255) /\ h \in Seq(Nat) /\ k \in Nat
  <2>1. h \in Seq(0..255) /\ a.type \in {"P2PKH", "P2SH"}
    BY DEF Address
  <2>2. k \in Nat /\ h \in [1..k -> 0..255]
    BY <2>1, LenProperties
  <2>3. h \in [1..k -> Nat]
    <3>. HIDE DEF h, k
    <3>1. 0..255 \subseteq Nat
      OBVIOUS
    <3>. QED
      BY ONLY <2>2, <3>1, Zenon
  <2>4. h \in Seq(Nat)
    <3>. HIDE DEF h, k
    <3>. QED
      BY <2>2, <2>3, LenOf
  <2>. QED
    BY <2>1, <2>2, <2>4
<1>. HIDE DEF k, h
<1>2. CASE a.type = "P2PKH"
  <2>. DEFINE p == <<118, 169, k>>
              q == <<136, 172>>
  <2>1. s = p \o h \o q
    BY <1>2 DEF addressToScriptpubkey, h, k
  <2>2. /\ p \in Seq(Nat) /\ Len(p) = 3 /\ p[1] = 118 /\ p[2] = 169 /\ p[3] = k
        /\ q \in Seq(Nat) /\ Len(q) = 2 /\ q[1] = 136 /\ q[2] = 172
    BY <1>1
  <2>. HIDE DEF s, p, q
  <2>3. /\ s \in Seq(Nat) /\ Len(s) = 3 + k + 2
        /\ \A i \in 1..3 : s[i] = p[i]
        /\ \A i \in 1..k : s[3 + i] = h[i]
        /\ \A i \in 1..2 : s[3 + k + i] = q[i]
    <3>1. h \in Seq(Nat) /\ p \in Seq(Nat) /\ q \in Seq(Nat) /\ s = Joined(p, h, q)
      BY <1>1, <2>1, <2>2 DEF Joined
    <3>2. HasParts(s, p, h, q)
      BY ONLY <3>1, PartsOf
    <3>. QED
      BY <1>1, <2>2, <3>2 DEF k, HasParts
  <2>4. s[1] = 118 /\ s[2] = 169 /\ s[3] = k /\ s[3 + k + 1] = 136 /\ s[3 + k + 2] = 172
    <3>1. 1 \in 1..3 /\ 2 \in 1..3 /\ 3 \in 1..3 /\ 1 \in 1..2 /\ 2 \in 1..2
      OBVIOUS
    <3>. QED
      BY <2>2, <2>3, <3>1
  <2>5. Len(s) >= 5 /\ Len(s) = k + 5 /\ Len(s) - 5 = k /\ Len(s) - 1 = 3 + k + 1 /\ Len(s) = 3 + k + 2
    BY <1>1, <2>3
  <2>6. IsPkh(s)
    BY <2>4, <2>5 DEF IsPkh
  <2>. QED
    BY <1>2, <2>3, <2>5, <2>6 DEF s, h, k
<1>3. CASE a.type = "P2SH"
  <2>. DEFINE p == <<169, k>>
              q == <<135>>
  <2>1. s = p \o h \o q
    BY <1>3 DEF addressToScriptpubkey, h, k
  <2>2. /\ p \in Seq(Nat) /\ Len(p) = 2 /\ p[1] = 169 /\ p[2] = k
        /\ q \in Seq(Nat) /\ Len(q) = 1 /\ q[1] = 135
    BY <1>1
  <2>. HIDE DEF s, p, q
  <2>3. /\ s \in Seq(Nat) /\ Len(s) = 2 + k + 1
        /\ \A i \in 1..2 : s[i] = p[i]
        /\ \A i \in 1..k : s[2 + i] = h[i]
        /\ \A i \in 1..1 : s[2 + k + i] = q[i]
    <3>1. h \in Seq(Nat) /\ p \in Seq(Nat) /\ q \in Seq(Nat) /\ s = Joined(p, h, q)
      BY <1>1, <2>1, <2>2 DEF Joined
    <3>2. HasParts(s, p, h, q)
      BY ONLY <3>1, PartsOf
    <3>. QED
      BY <1>1, <2>2, <3>2 DEF k, HasParts
  <2>4. s[1] = 169 /\ s[2] = k /\ s[2 + k + 1] = 135
    <3>1. 1 \in 1..2 /\ 2 \in 1..2 /\ 1 \in 1..1
      OBVIOUS
    <3>. QED
      BY <2>2, <2>3, <3>1
  <2>5. Len(s) >= 3 /\ Len(s) = k + 3 /\ Len(s) - 3 = k /\ Len(s) = 2 + k + 1
    BY <1>1, <2>3
  <2>6. IsSh(s)
    BY <2>4, <2>5 DEF IsSh
  <2>. QED
    BY <1>3, <2>3, <2>5, <2>6 DEF s, h, k
<1>. QED
  BY <1>1, <1>2, <1>3 DEF s, h, k

\* The hash in a script to a public key hash, by its elements.
LEMMA HashInPkh ==
    ASSUME NEW s \in Seq(Nat), Len(s) >= 5
    PROVE  /\ SubSeq(s, 4, Len(s) - 2) \in Seq(Nat) /\ Len(SubSeq(s, 4, Len(s) - 2)) = Len(s) - 5
           /\ \A i \in 1..(Len(s) - 5) : SubSeq(s, 4, Len(s) - 2)[i] = s[3 + i]
<1>1. Len(s) \in Nat /\ Len(s) - 2 - 4 + 1 = Len(s) - 5 /\ \A i \in 1..Len(s) : s[i] \in Nat
  BY LenProperties, ElementOfSeq
<1>. DEFINE n == Len(s) - 2
<1>2. 4 \in Int /\ n \in Int /\ \A i \in 4..n : s[i] \in Nat
  BY <1>1
<1>3. n = Len(s) - 2
  OBVIOUS
<1>. HIDE DEF n
<1>4. /\ SubSeq(s, 4, n) \in Seq(Nat)
      /\ Len(SubSeq(s, 4, n)) = IF 4 <= n THEN n - 4 + 1 ELSE 0
      /\ \A i \in 1..(n - 4 + 1) : SubSeq(s, 4, n)[i] = s[4 + i - 1]
  <2>1. s \in Seq(Nat)
    OBVIOUS
  <2>. QED
    BY ONLY <1>2, <2>1, SubSeqProperties
<1>5. \A i \in 1..(n - 4 + 1) : 4 + i - 1 = 3 + i
  BY <1>2
<1>6. n - 4 + 1 = Len(s) - 5 /\ (4 <= n \/ n - 4 + 1 = 0)
  BY <1>1, <1>3
<1>7. /\ SubSeq(s, 4, n) \in Seq(Nat) /\ Len(SubSeq(s, 4, n)) = Len(s) - 5
      /\ \A i \in 1..(Len(s) - 5) : SubSeq(s, 4, n)[i] = s[3 + i]
  BY <1>2, <1>4, <1>5, <1>6
<1>. QED
  BY <1>3, <1>7

\* The hash in a script to a script hash.
LEMMA HashInSh ==
    ASSUME NEW s \in Seq(Nat), Len(s) >= 3
    PROVE  /\ SubSeq(s, 3, Len(s) - 1) \in Seq(Nat) /\ Len(SubSeq(s, 3, Len(s) - 1)) = Len(s) - 3
           /\ \A i \in 1..(Len(s) - 3) : SubSeq(s, 3, Len(s) - 1)[i] = s[2 + i]
<1>1. Len(s) \in Nat /\ Len(s) - 1 - 3 + 1 = Len(s) - 3 /\ \A i \in 1..Len(s) : s[i] \in Nat
  BY LenProperties, ElementOfSeq
<1>. DEFINE n == Len(s) - 1
<1>2. 3 \in Int /\ n \in Int /\ \A i \in 3..n : s[i] \in Nat
  BY <1>1
<1>3. n = Len(s) - 1
  OBVIOUS
<1>. HIDE DEF n
<1>4. /\ SubSeq(s, 3, n) \in Seq(Nat)
      /\ Len(SubSeq(s, 3, n)) = IF 3 <= n THEN n - 3 + 1 ELSE 0
      /\ \A i \in 1..(n - 3 + 1) : SubSeq(s, 3, n)[i] = s[3 + i - 1]
  <2>1. s \in Seq(Nat)
    OBVIOUS
  <2>. QED
    BY ONLY <1>2, <2>1, SubSeqProperties
<1>5. \A i \in 1..(n - 3 + 1) : 3 + i - 1 = 2 + i
  BY <1>2
<1>6. n - 3 + 1 = Len(s) - 3 /\ (3 <= n \/ n - 3 + 1 = 0)
  BY <1>1, <1>3
<1>7. /\ SubSeq(s, 3, n) \in Seq(Nat) /\ Len(SubSeq(s, 3, n)) = Len(s) - 3
      /\ \A i \in 1..(Len(s) - 3) : SubSeq(s, 3, n)[i] = s[2 + i]
  BY <1>2, <1>4, <1>5, <1>6
<1>. QED
  BY <1>3, <1>7

\* A sequence of bytes is a sequence of numbers.
LEMMA BytesAreNumbers ==
    ASSUME NEW s \in Seq(0..255)
    PROVE  s \in Seq(Nat)
<1>1. Len(s) \in Nat /\ s \in [1..Len(s) -> 0..255]
  BY LenProperties
<1>2. 0..255 \subseteq Nat
  OBVIOUS
<1>3. s \in [1..Len(s) -> Nat]
  BY ONLY <1>1, <1>2, Zenon
<1>. DEFINE n == Len(s)
<1>. HIDE DEF n
<1>4. n \in Nat /\ s \in [1..n -> Nat]
  BY <1>1, <1>3 DEF n
<1>. QED
  BY <1>4, LenOf

\* The script of an address is the only one with this address: addressToScriptpubkey
\* and fromScript agree.
LEMMA OwnerOfScript ==
    ASSUME NEW a \in Address, NEW s \in Seq(Nat)
    PROVE  fromScript(s) = a <=> s = addressToScriptpubkey(a)
<1>. DEFINE x == addressToScriptpubkey(a)
            h == a.hash
<1>1. a = [type |-> a.type, hash |-> h] /\ a.type \in {"P2PKH", "P2SH"} /\ h \in Seq(Nat)
      /\ Len(h) \in Nat
  <2>1. a = [type |-> a.type, hash |-> a.hash] /\ a.type \in {"P2PKH", "P2SH"} /\ h \in Seq(0..255)
    BY DEF Address
  <2>. HIDE DEF h
  <2>2. h \in Seq(Nat)
    BY <2>1, BytesAreNumbers
  <2>. QED
    BY <2>1, <2>2, LenProperties DEF h
<1>2. /\ x \in Seq(Nat)
      /\ a.type = "P2PKH" => IsPkh(x) /\ Len(x) = Len(h) + 5 /\ \A i \in 1..Len(h) : x[3 + i] = h[i]
      /\ a.type = "P2SH" => IsSh(x) /\ Len(x) = Len(h) + 3 /\ \A i \in 1..Len(h) : x[2 + i] = h[i]
  BY ScriptOf
<1>3. Len(s) \in Nat
  BY LenProperties
<1>. HIDE DEF x, h
<1>4. CASE a.type = "P2PKH"
  <2>1. ASSUME s = x PROVE fromScript(s) = a
    <3>. DEFINE t == SubSeq(s, 4, Len(s) - 2)
    <3>1. IsPkh(s) /\ Len(s) = Len(h) + 5 /\ \A i \in 1..Len(h) : s[3 + i] = h[i]
      BY <1>2, <1>4, <2>1
    <3>2. Len(s) >= 5 /\ Len(s) - 5 = Len(h)
      BY <1>1, <3>1
    <3>3. t \in Seq(Nat) /\ Len(t) = Len(s) - 5 /\ \A i \in 1..(Len(s) - 5) : t[i] = s[3 + i]
      BY <3>2, HashInPkh
    <3>. HIDE DEF t
    <3>4. t = h
      BY <1>1, <3>1, <3>2, <3>3, SeqEqual
    <3>5. fromScript(s) = [type |-> "P2PKH", hash |-> t]
      BY <3>1, FromScriptOf DEF t
    <3>. QED
      BY <1>1, <1>4, <3>4, <3>5
  <2>2. ASSUME fromScript(s) = a PROVE s = x
    <3>. DEFINE t == SubSeq(s, 4, Len(s) - 2)
    <3>1. IsPkh(s) /\ h = t
      <4>1. fromScript(s).type = "P2PKH" /\ fromScript(s).hash = h
        BY <1>4, <2>2 DEF h
      <4>2. IsPkh(s)
        BY <4>1, FromScriptOf
      <4>3. fromScript(s) = [type |-> "P2PKH", hash |-> t]
        BY <4>2, FromScriptOf
      <4>. HIDE DEF t
      <4>. QED
        BY <4>1, <4>2, <4>3
    <3>2. Len(s) >= 5
      BY <3>1 DEF IsPkh
    <3>3. t \in Seq(Nat) /\ Len(t) = Len(s) - 5 /\ \A i \in 1..(Len(s) - 5) : t[i] = s[3 + i]
      BY <3>2, HashInPkh
    <3>. HIDE DEF t
    <3>4. Len(x) = Len(s) /\ Len(h) = Len(s) - 5
      <4>1. Len(h) = Len(s) - 5 /\ Len(x) = Len(h) + 5
        BY <1>2, <1>4, <3>1, <3>3
      <4>. QED
        BY ONLY <1>3, <4>1
    <3>5. /\ s[1] = x[1] /\ s[2] = x[2] /\ s[3] = x[3]
          /\ s[Len(s) - 1] = x[Len(s) - 1] /\ s[Len(s)] = x[Len(s)]
      <4>1. IsPkh(x) /\ IsPkh(s)
        BY <1>2, <1>4, <3>1
      <4>2. /\ s[1] = 118 /\ s[2] = 169 /\ s[3] = Len(s) - 5 /\ s[Len(s) - 1] = 136 /\ s[Len(s)] = 172
            /\ x[1] = 118 /\ x[2] = 169 /\ x[3] = Len(x) - 5 /\ x[Len(x) - 1] = 136 /\ x[Len(x)] = 172
        BY ONLY <4>1 DEF IsPkh
      <4>. QED
        BY ONLY <3>4, <4>2
    <3>6. \A i \in 1..(Len(s) - 5) : s[3 + i] = x[3 + i]
      BY <1>2, <1>4, <3>1, <3>3, <3>4
    <3>7. \A i \in 1..Len(s) : s[i] = x[i]
      <4>. TAKE i \in 1..Len(s)
      <4>1. \/ i = 1 \/ i = 2 \/ i = 3 \/ i = Len(s) - 1 \/ i = Len(s)
            \/ (i - 3 \in 1..(Len(s) - 5) /\ i = 3 + (i - 3))
        BY <1>3
      <4>. QED
        BY <3>5, <3>6, <4>1
    <3>. QED
      BY <1>2, <3>4, <3>7, SeqEqual
  <2>. QED
    BY <2>1, <2>2 DEF x
<1>5. CASE a.type = "P2SH"
  <2>0. ASSUME NEW r \in Seq(Nat), IsSh(r) PROVE ~IsPkh(r)
    BY <2>0 DEF IsSh, IsPkh
  <2>1. ASSUME s = x PROVE fromScript(s) = a
    <3>. DEFINE t == SubSeq(s, 3, Len(s) - 1)
    <3>1. IsSh(s) /\ Len(s) = Len(h) + 3 /\ \A i \in 1..Len(h) : s[2 + i] = h[i]
      BY <1>2, <1>5, <2>1
    <3>2. Len(s) >= 3 /\ Len(s) - 3 = Len(h)
      BY <1>1, <3>1
    <3>3. t \in Seq(Nat) /\ Len(t) = Len(s) - 3 /\ \A i \in 1..(Len(s) - 3) : t[i] = s[2 + i]
      BY <3>2, HashInSh
    <3>. HIDE DEF t
    <3>4. t = h
      BY <1>1, <3>1, <3>2, <3>3, SeqEqual
    <3>5. fromScript(s) = [type |-> "P2SH", hash |-> t]
      BY <2>0, <3>1, FromScriptOf DEF t
    <3>. QED
      BY <1>1, <1>5, <3>4, <3>5
  <2>2. ASSUME fromScript(s) = a PROVE s = x
    <3>. DEFINE t == SubSeq(s, 3, Len(s) - 1)
    <3>1. IsSh(s) /\ h = t
      <4>1. fromScript(s).type = "P2SH" /\ fromScript(s).hash = h
        BY <1>5, <2>2 DEF h
      <4>2. IsSh(s) /\ ~IsPkh(s)
        BY <4>1, FromScriptOf
      <4>3. fromScript(s) = [type |-> "P2SH", hash |-> t]
        BY <4>2, FromScriptOf
      <4>. HIDE DEF t
      <4>. QED
        BY <4>1, <4>2, <4>3
    <3>2. Len(s) >= 3
      BY <3>1 DEF IsSh
    <3>3. t \in Seq(Nat) /\ Len(t) = Len(s) - 3 /\ \A i \in 1..(Len(s) - 3) : t[i] = s[2 + i]
      BY <3>2, HashInSh
    <3>. HIDE DEF t
    <3>4. Len(x) = Len(s) /\ Len(h) = Len(s) - 3
      <4>1. Len(h) = Len(s) - 3 /\ Len(x) = Len(h) + 3
        BY <1>2, <1>5, <3>1, <3>3
      <4>. QED
        BY ONLY <1>3, <4>1
    <3>5. s[1] = x[1] /\ s[2] = x[2] /\ s[Len(s)] = x[Len(s)]
      <4>1. IsSh(x) /\ IsSh(s)
        BY <1>2, <1>5, <3>1
      <4>2. /\ s[1] = 169 /\ s[2] = Len(s) - 3 /\ s[Len(s)] = 135
            /\ x[1] = 169 /\ x[2] = Len(x) - 3 /\ x[Len(x)] = 135
        BY ONLY <4>1 DEF IsSh
      <4>. QED
        BY ONLY <3>4, <4>2
    <3>6. \A i \in 1..(Len(s) - 3) : s[2 + i] = x[2 + i]
      BY <1>2, <1>5, <3>1, <3>3, <3>4
    <3>7. \A i \in 1..Len(s) : s[i] = x[i]
      <4>. TAKE i \in 1..Len(s)
      <4>1. \/ i = 1 \/ i = 2 \/ i = Len(s)
            \/ (i - 2 \in 1..(Len(s) - 3) /\ i = 2 + (i - 2))
        BY <1>3
      <4>. QED
        BY <3>5, <3>6, <4>1
    <3>. QED
      BY <1>2, <3>4, <3>7, SeqEqual
  <2>. QED
    BY <2>1, <2>2 DEF x
<1>. QED
  BY <1>1, <1>4, <1>5

-----------------------------------------------------------------------------
(* Outputs and coins. *)

CoinsOf(S) == {CoinOf(o) : o \in S}

\* Two outputs are not one coin.
LEMMA OneCoinOneOutput ==
    ASSUME NEW o \in Output, NEW p \in Output, CoinOf(o) = CoinOf(p)
    PROVE  o = p
<1>1. CoinOf(o).txid = o.prev_tx_id /\ CoinOf(o).vout = o.prev_out_idx
      /\ CoinOf(p).txid = p.prev_tx_id /\ CoinOf(p).vout = p.prev_out_idx
  BY DEF CoinOf
<1>. QED
  BY <1>1, GatewayAssumption

\* There are as many coins as outputs.
LEMMA CoinsCounted ==
    ASSUME NEW S \in SUBSET Output
    PROVE  IsFiniteSet(S) /\ IsFiniteSet(CoinsOf(S)) /\ Cardinality(CoinsOf(S)) = Cardinality(S)
<1>1. IsFiniteSet(S)
  BY GatewayAssumption, FS_Subset
<1>. DEFINE c == [o \in S |-> CoinOf(o)]
            T == CoinsOf(S)
<1>2. c \in [S -> T] /\ (\A o, p \in S : c[o] = c[p] => o = p) /\ \A x \in T : \E o \in S : c[o] = x
  BY OneCoinOneOutput DEF CoinsOf
<1>. HIDE DEF c, T
<1>3. ExistsBijection(S, T)
  <2>1. c \in Bijection(S, T)
    BY <1>2 DEF Bijection, Injection, IsInjective, Surjection
  <2>. QED
    BY <2>1 DEF ExistsBijection
<1>4. IsFiniteSet(T) /\ Cardinality(T) = Cardinality(S)
  BY ONLY <1>1, <1>3, FS_Bijection
<1>. QED
  BY <1>1, <1>4 DEF T

\* A response shows the coin of the output.
LEMMA JsonShowsCoin ==
    ASSUME NEW o \in Output
    PROVE  CoinFrom(json(o), fromScript(o.scriptpubkey)) = CoinOf(o)
<1>1. Shown(json(o).prevTxId) = o.prev_tx_id
  BY JsonIsShown
<1>2. json(o).prevOutIdx = o.prev_out_idx /\ json(o).value = o.value
  BY DEF json
<1>. QED
  BY <1>1, <1>2 DEF CoinFrom, CoinOf

\* The coins of an owner are those of the outputs that pay to the script of its
\* address.
LEMMA OwnedAreLocked ==
    ASSUME NEW U \in SUBSET Output, NEW a \in Address
    PROVE  {x \in CoinsOf(U) : x.owner = a} =
               CoinsOf({o \in U : o.scriptpubkey = addressToScriptpubkey(a)})
<1>1. ASSUME NEW o \in U
      PROVE  CoinOf(o).owner = a <=> o.scriptpubkey = addressToScriptpubkey(a)
  <2>1. o.scriptpubkey \in Seq(Nat)
    BY OutputType, BytesAreNumbers
  <2>2. CoinOf(o).owner = fromScript(o.scriptpubkey)
    BY DEF CoinOf
  <2>. QED
    BY <2>1, <2>2, OwnerOfScript
<1>. DEFINE L == {o \in U : o.scriptpubkey = addressToScriptpubkey(a)}
<1>2. ASSUME NEW x \in CoinsOf(U), x.owner = a PROVE x \in CoinsOf(L)
  <2>1. PICK o \in U : x = CoinOf(o)
    BY DEF CoinsOf
  <2>2. o \in L
    BY <1>1, <1>2, <2>1
  <2>. HIDE DEF L
  <2>. QED
    BY <2>1, <2>2 DEF CoinsOf
<1>3. ASSUME NEW x \in CoinsOf(L) PROVE x \in CoinsOf(U) /\ x.owner = a
  <2>1. PICK o \in L : x = CoinOf(o)
    BY DEF CoinsOf
  <2>2. o \in U /\ CoinOf(o).owner = a
    BY <1>1
  <2>. QED
    BY <2>1, <2>2 DEF CoinsOf
<1>. HIDE DEF L
<1>4. {x \in CoinsOf(U) : x.owner = a} = CoinsOf(L)
  BY <1>2, <1>3
<1>. QED
  BY <1>4 DEF L

\* The sum of the values.
Total(S) == MapThenSumSet(LAMBDA o : o.value, S)

\* It is a sum in the sense of FoldTheorems.
LEMMA TotalSumsUp ==
    ASSUME NEW S, IsFiniteSet(S), \A o \in S : o.value \in Nat
    PROVE  \E f : SumsUp(f, S, [o \in S |-> o.value]) /\ Total(S) = f[S]
<1>. DEFINE w == [o \in S |-> o.value]
            pick == [s \in SUBSET S |-> CHOOSE x \in s : TRUE]
            Fold(f) == f = [s \in SUBSET S |->
                               IF s = {} THEN 0
                               ELSE (CHOOSE x \in s : TRUE).value + f[s \ {CHOOSE x \in s : TRUE}]]
            it == CHOOSE f : Fold(f)
<1>1. Total(S) = it[S]
  BY DEF Total, MapThenSumSet, MapThenFoldSet
<1>2. w \in [S -> Nat] /\ Picks(pick, S)
  BY DEF Picks
<1>3. \A s \in SUBSET S : s # {} => (CHOOSE x \in s : TRUE) \in S
  OBVIOUS
<1>4. PICK f : SumsByPick(f, S, w, pick)
  <2>1. IsFiniteSet(S) /\ w \in [S -> Nat] /\ Picks(pick, S)
    BY <1>2
  <2>. HIDE DEF w, pick
  <2>. QED
    BY ONLY <2>1, SumExists
<1>5. Fold(f)
  <2>1. ASSUME NEW s \in SUBSET S, s # {}
        PROVE  f[s] = (CHOOSE x \in s : TRUE).value + f[s \ {CHOOSE x \in s : TRUE}]
    <3>1. pick[s] = (CHOOSE x \in s : TRUE) /\ pick[s] \in S
      BY <1>3, <2>1
    <3>2. w[pick[s]] = (CHOOSE x \in s : TRUE).value
      <4>. HIDE DEF pick
      <4>. QED
        BY <3>1
    <3>3. f[s] = w[pick[s]] + f[s \ {pick[s]}]
      <4>. HIDE DEF w, pick
      <4>. QED
        BY <1>4, <2>1 DEF SumsByPick
    <3>. HIDE DEF w, pick
    <3>. QED
      BY <3>1, <3>2, <3>3
  <2>2. f \in [SUBSET S -> Nat] /\ f[{}] = 0
    BY <1>4 DEF SumsByPick
  <2>. QED
    BY <2>1, <2>2
<1>6. Fold(it)
  <2>. HIDE DEF Fold
  <2>. QED
    BY <1>5
<1>. DEFINE P == {n \in Nat : \A s \in SUBSET S : Cardinality(s) = n => it[s] = f[s]}
<1>. HIDE DEF it
<1>7. \A s \in SUBSET S : IsFiniteSet(s) /\ Cardinality(s) \in Nat
  BY FS_Subset, FS_CardinalityType
<1>8. ASSUME NEW g, Fold(g)
      PROVE  /\ g[{}] = 0
             /\ \A s \in SUBSET S : s # {} =>
                   g[s] = (CHOOSE x \in s : TRUE).value + g[s \ {CHOOSE x \in s : TRUE}]
  BY <1>8
<1>9. 0 \in P
  <2>1. ASSUME NEW s \in SUBSET S, Cardinality(s) = 0 PROVE s = {}
    BY <1>7, <2>1, FS_EmptySet
  <2>2. it[{}] = f[{}]
    <3>. HIDE DEF Fold
    <3>. QED
      BY <1>5, <1>6, <1>8
  <2>. QED
    BY <2>1, <2>2
<1>10. ASSUME NEW n \in Nat, n \in P PROVE n + 1 \in P
  <2>. SUFFICES ASSUME NEW s \in SUBSET S, Cardinality(s) = n + 1
                PROVE  it[s] = f[s]
    OBVIOUS
  <2>. DEFINE x == CHOOSE y \in s : TRUE
  <2>1. s # {} /\ x \in s
    <3>1. s # {}
      BY FS_EmptySet
    <3>. QED
      BY <3>1
  <2>2. it[s] = x.value + it[s \ {x}] /\ f[s] = x.value + f[s \ {x}]
    <3>. HIDE DEF Fold
    <3>. QED
      BY <1>5, <1>6, <1>8, <2>1
  <2>. HIDE DEF x
  <2>3. Cardinality(s \ {x}) = n
    <3>1. Cardinality(s \ {x}) = Cardinality(s) - 1
      BY <1>7, <2>1, FS_RemoveElement
    <3>. QED
      BY <3>1
  <2>4. it[s \ {x}] = f[s \ {x}]
    BY <1>10, <2>3
  <2>. QED
    BY <2>2, <2>4
<1>11. \A n \in Nat : n \in P
  <2>. HIDE DEF P
  <2>. QED
    BY <1>9, <1>10, NatSetInduction
<1>12. it[S] = f[S]
  BY <1>7, <1>11
<1>13. SumsUp(f, S, w)
  <2>1. w \in [S -> Nat] /\ Picks(pick, S) /\ SumsByPick(f, S, w, pick) /\ IsFiniteSet(S)
    <3>. HIDE DEF w, pick
    <3>. QED
      BY <1>2, <1>4
  <2>. HIDE DEF w, pick
  <2>. QED
    BY ONLY <2>1, FoldSumsUp
<1>. QED
  BY <1>1, <1>12, <1>13

\* Outputs and their coins come to the same total.
LEMMA SameTotal ==
    ASSUME NEW S \in SUBSET Output
    PROVE  Total(S) = Total(CoinsOf(S))
<1>. DEFINE T == CoinsOf(S)
            c == [o \in S |-> CoinOf(o)]
            w == [o \in S |-> o.value]
            v == [x \in T |-> x.value]
<1>1. IsFiniteSet(S) /\ IsFiniteSet(T)
  BY CoinsCounted
<1>2. \A o \in S : o.value \in Nat /\ CoinOf(o).value = o.value
  BY OutputType DEF CoinOf
<1>3. \A x \in T : x.value \in Nat
  BY <1>2 DEF CoinsOf
<1>4. /\ c \in [S -> T] /\ (\A x, y \in S : c[x] = c[y] => x = y) /\ {c[o] : o \in S} = T
      /\ \A o \in S : w[o] \in Nat /\ v[c[o]] = w[o]
  BY <1>2, OneCoinOneOutput DEF CoinsOf
<1>5. (\E f : SumsUp(f, S, w) /\ Total(S) = f[S]) /\ \E g : SumsUp(g, T, v) /\ Total(T) = g[T]
  <2>. HIDE DEF T
  <2>. QED
    BY <1>1, <1>2, <1>3, TotalSumsUp
<1>6. PICK f, g : SumsUp(f, S, w) /\ Total(S) = f[S] /\ SumsUp(g, T, v) /\ Total(T) = g[T]
  <2>. HIDE DEF T, w, v
  <2>. QED
    BY <1>5
<1>. HIDE DEF T, w, v, c
<1>7. f[S] = g[{c[o] : o \in S}]
  BY <1>1, <1>4, <1>6, SumsAgree
<1>. QED
  BY <1>4, <1>6, <1>7 DEF T

-----------------------------------------------------------------------------
(* Questions and truthful answers. *)

\* What a request is made of.
LEMMA RequestType ==
    ASSUME NEW r \in Request
    PROVE  /\ r # None
           /\ r.route \in {"graphsearch", "utxo", "address/utxos", "address/balance"}
           /\ r.route = "graphsearch" => r.txid \in Seq(Character)
           /\ r.route = "utxo" => r.outpoints \in Seq(Seq(Seq(Character)))
           /\ r.route \in {"address/utxos", "address/balance"} =>
                 r.address \in [type : {"P2PKH", "P2SH", "invalid"}, hash : Seq(0..255)]
<1>1. \/ r \in [route : {"graphsearch"}, txid : Seq(Character)]
      \/ r \in [route : {"utxo"}, outpoints : Seq(Seq(Seq(Character)))]
      \/ r \in [route : {"address/utxos", "address/balance"},
                address : [type : {"P2PKH", "P2SH", "invalid"}, hash : Seq(0..255)]]
  BY GatewayAssumption
<1>2. r # None
  <2>1. "route" \in DOMAIN r /\ DOMAIN None = {"kind"}
    BY <1>1 DEF None
  <2>. QED
    BY <2>1
<1>. QED
  BY <1>1, <1>2

\* The library's operators as RestService uses them.
LEMMA ServiceLibrary ==
    ASSUME NEW S, NEW k
    PROVE  /\ Service!Cardinality(S) = Cardinality(S)
           /\ Service!kSubset(k, S) = kSubset(k, S)
           /\ Service!Min(S) = Min(S)
           /\ Service!Value(S) = Total(S)
<1>1. ASSUME NEW T PROVE Service!Cardinality(T) = Cardinality(T)
  BY DEF Service!Cardinality, Cardinality
<1>2. Service!kSubset(k, S) = kSubset(k, S)
  BY <1>1 DEF Service!kSubset, kSubset
<1>3. Service!Min(S) = Min(S)
  BY DEF Service!Min, Min
<1>4. Service!Value(S) = Total(S)
  BY DEF Service!Value, Total, Service!MapThenSumSet, MapThenSumSet, Service!MapThenFoldSet, MapThenFoldSet
<1>. QED
  BY <1>1, <1>2, <1>3, <1>4

\* The coins that a client knows of.
Held == CoinsOf(utxos)
HeldBy(a) == {x \in Held : x.owner = a}
CoinList(S) == [kind |-> "coins", coins |-> S]

\* What RestService promises: of outpoints, the coins with these.
LEMMA TruthfulOutpoints ==
    ASSUME NEW q, q.kind = "outpoints"
    PROVE  Service!Truthful(q) = {CoinList({x \in Held : <<x.txid, x.vout>> \in q.outpoints})}
BY Zenon DEF Service!Truthful, Service!Coins, Held, CoinsOf, CoinList

\* Of an address, its coins, up to the limit.
LEMMA TruthfulCoins ==
    ASSUME NEW q, q.kind = "coins"
    PROVE  Service!Truthful(q) =
               {CoinList(S) : S \in kSubset(Min({Limit, Cardinality(HeldBy(q.owner))}), HeldBy(q.owner))}
<1>1. Service!Truthful(q) =
          {Service!Coins(S) : S \in Service!kSubset(
              Service!Min({Limit, Service!Cardinality(Service!OwnedBy(q.owner))}), Service!OwnedBy(q.owner))}
  BY Zenon DEF Service!Truthful
<1>2. Service!OwnedBy(q.owner) = HeldBy(q.owner)
  BY DEF Service!OwnedBy, HeldBy, Held, CoinsOf
<1>3. \A S : Service!Coins(S) = CoinList(S)
  BY DEF Service!Coins, CoinList
<1>. QED
  BY <1>1, <1>2, <1>3, ServiceLibrary

\* Of its balance, their sum.
LEMMA TruthfulBalance ==
    ASSUME NEW q, q.kind = "balance"
    PROVE  Service!Truthful(q) = {[kind |-> "total", total |-> Total(HeldBy(q.owner))]}
<1>1. Service!Truthful(q) = {Service!Total(Service!Value(Service!OwnedBy(q.owner)))}
  BY Zenon DEF Service!Truthful
<1>2. Service!OwnedBy(q.owner) = HeldBy(q.owner)
  BY DEF Service!OwnedBy, HeldBy, Held, CoinsOf
<1>. QED
  BY <1>1, <1>2, ServiceLibrary DEF Service!Total

\* Of a txid, that it is in the graphs.
LEMMA TruthfulHistory ==
    ASSUME NEW q, q.kind = "history"
    PROVE  Service!Truthful(q) = IF q.txid \in Indexed THEN {[kind |-> "known", txid |-> q.txid]}
                                 ELSE {Service!Failure}
BY Zenon DEF Service!Truthful, Service!Known

\* Of what is unclear, only what is there.
LEMMA TruthfulUnclear ==
    ASSUME NEW q, q.kind = "unclear"
    PROVE  Service!Truthful(q) = {CoinList(S) : S \in SUBSET Held}
                                   \cup {[kind |-> "known", txid |-> t] : t \in Indexed}
<1>1. Service!Truthful(q) = {Service!Coins(S) : S \in SUBSET {CoinOf(o) : o \in utxos}}
                              \cup {Service!Known(t) : t \in Indexed}
  BY Zenon DEF Service!Truthful
<1>2. (\A S : Service!Coins(S) = CoinList(S)) /\ \A t : Service!Known(t) = [kind |-> "known", txid |-> t]
  BY DEF Service!Coins, CoinList, Service!Known
<1>. QED
  BY <1>1, <1>2, Zenon DEF Held, CoinsOf

\* What a malformed request, an unclear and a clear one ask.
LEMMA QuestionOf ==
    ASSUME NEW r \in Request
    PROVE  /\ Malformed(r) => Question(r) = [kind |-> "malformed"]
           /\ ~Malformed(r) /\ ~Clear(r) => Question(r) = [kind |-> "unclear"]
           /\ Clear(r) /\ r.route = "utxo" => Question(r) =
                 [kind |-> "outpoints",
                  outpoints |-> {<<Shown(p[1]), Number[p[2]]>> : p \in ToSet(r.outpoints)}]
           /\ Clear(r) /\ r.route = "address/utxos" => Question(r) = [kind |-> "coins", owner |-> r.address]
           /\ Clear(r) /\ r.route = "address/balance" => Question(r) = [kind |-> "balance", owner |-> r.address]
           /\ Clear(r) /\ r.route = "graphsearch" => Question(r) = [kind |-> "history", txid |-> Plain(r.txid)]
<1>1. r # None /\ (Clear(r) => ~Malformed(r))
  BY RequestType DEF Clear
<1>2. ASSUME Malformed(r) PROVE Question(r) = [kind |-> "malformed"]
  BY <1>1, <1>2, Zenon DEF Question
<1>3. ASSUME ~Malformed(r), ~Clear(r) PROVE Question(r) = [kind |-> "unclear"]
  BY <1>1, <1>3, Zenon DEF Question
<1>4. ASSUME Clear(r), r.route = "utxo"
      PROVE  Question(r) = [kind |-> "outpoints",
                            outpoints |-> {<<Shown(p[1]), Number[p[2]]>> : p \in ToSet(r.outpoints)}]
  BY <1>1, <1>4, Zenon DEF Question
<1>5. ASSUME Clear(r), r.route = "address/utxos" PROVE Question(r) = [kind |-> "coins", owner |-> r.address]
  BY <1>1, <1>5, Zenon DEF Question
<1>6. ASSUME Clear(r), r.route = "address/balance" PROVE Question(r) = [kind |-> "balance", owner |-> r.address]
  BY <1>1, <1>6, Zenon DEF Question
<1>7. ASSUME Clear(r), r.route = "graphsearch" PROVE Question(r) = [kind |-> "history", txid |-> Plain(r.txid)]
  BY <1>1, <1>7, Zenon DEF Question
<1>. QED
  BY <1>2, <1>3, <1>4, <1>5, <1>6, <1>7

-----------------------------------------------------------------------------
(* The calls to gs++. *)

\* The requests that a handler ends itself, and the message it sends for another.
Refused(r) ==
    \/ r.route = "utxo" /\ \E i \in DOMAIN r.outpoints :
          BadFormat(r.outpoints[i]) \/ writeUint32Throws(Number[r.outpoints[i][2]])
    \/ r.route \in {"address/utxos", "address/balance"} /\ r.address.type = "invalid"

MessageFor(r) ==
    CASE r.route = "graphsearch"     -> [kind |-> "graphSearch", txid |-> r.txid]
      [] r.route = "utxo"            ->
            [kind |-> "utxoSearchByOutpoints",
             outpoints |-> [i \in DOMAIN r.outpoints |-> outpoint(r.outpoints[i])]]
      [] r.route = "address/utxos"   ->
            [kind |-> "utxoSearchByScriptPubKey", limit |-> Limit,
             scriptpubkey |-> addressToScriptpubkey(r.address)]
      [] r.route = "address/balance" ->
            [kind |-> "balanceByScriptPubKey", scriptpubkey |-> addressToScriptpubkey(r.address)]

\* What may come back over gRPC.
PaidTo(a) == {o \in Output : o.scriptpubkey = addressToScriptpubkey(a)}

Fits(r, x) ==
    \/ x = GrpcError
    \/ r.route = "graphsearch" /\ \E t : x = [kind |-> "txdata", of |-> t]
    \/ r.route = "utxo" /\ \E S \in SUBSET Output : x = [kind |-> "outputs", outputs |-> S]
    \/ r.route = "address/utxos" /\ \E S \in SUBSET PaidTo(r.address) : x = [kind |-> "outputs", outputs |-> S]
    \/ r.route = "address/balance" /\ \E n : x = [kind |-> "balance", balance |-> n]

\* A handler refuses what is malformed and nothing else, and sends every address
\* it can read.
LEMMA RefusedIsMalformed ==
    ASSUME NEW r \in Request
    PROVE  /\ Refused(r) <=> Malformed(r)
           /\ r.route \in {"address/utxos", "address/balance"} /\ ~Refused(r) => Clear(r) /\ r.address \in Address
<1>1. Uint32 \in Nat /\ NaN \notin 0..(Uint32 - 1)
  BY GatewayAssumption DEF NaN
<1>2. \A p : (BadFormat(p) \/ writeUint32Throws(Number[p[2]])) <=>
               (Len(p) # 2 \/ Number[p[2]] \notin 0..(Uint32 - 1))
  BY <1>1 DEF BadFormat, writeUint32Throws
<1>3. Refused(r) <=> Malformed(r)
  BY <1>2, Zenon DEF Refused, Malformed
<1>4. ASSUME r.route \in {"address/utxos", "address/balance"}, ~Refused(r)
      PROVE  Clear(r) /\ r.address \in Address
  <2>1. r.address.type # "invalid" /\ r.address \in [type : {"P2PKH", "P2SH", "invalid"}, hash : Seq(0..255)]
    BY <1>4, RequestType DEF Refused
  <2>2. r.route # "utxo" /\ r.route # "graphsearch"
    BY <1>4
  <2>. QED
    BY <1>3, <1>4, <2>1, <2>2 DEF Address, Clear
<1>. QED
  BY <1>3, <1>4

\* What a response is, in the client's terms.
LEMMA ResponseRead ==
    ASSUME NEW x
    PROVE  /\ FromResponse([kind |-> "outputs", outputs |-> x]) = CoinList(CoinsOf(x))
           /\ FromResponse([kind |-> "balance", balance |-> x]) = [kind |-> "total", total |-> x]
           /\ FromResponse([kind |-> "txdata", of |-> x]) = [kind |-> "known", txid |-> x]
           /\ FromResponse(GrpcError) = Service!Failure
           /\ FromResponse(None) = Service!Nothing
BY DEF FromResponse, CoinList, CoinsOf, GrpcError, None, Service!Failure, Service!Nothing

\* gs++ tells of the very outputs that the outpoints name.
LEMMA DecideOutpoints ==
    ASSUME NEW r \in Request, r.route = "utxo", ~Refused(r), utxos \in SUBSET Output,
           NEW x \in Reply(MessageFor(r))
    PROVE  Fits(r, x) /\ FromResponse(x) \in Service!Truthful(Question(r))
<1>. DEFINE ops == r.outpoints
            m == MessageFor(r)
            listed == ToSet(m.outpoints)
            named == {o \in utxos : \E p \in {q \in listed : Sized(q)} :
                         o.prev_tx_id = bhash(p.txid) /\ o.prev_out_idx = p.vout}
            stray == {o \in utxos : \E p \in listed : ~Sized(p) /\ o.prev_out_idx = p.vout}
<1>1. m = [kind |-> "utxoSearchByOutpoints", outpoints |-> [i \in DOMAIN ops |-> outpoint(ops[i])]]
  BY DEF MessageFor
<1>2. Reply(m) = {[kind |-> "outputs", outputs |-> named \cup S] :
                     S \in {T \in SUBSET stray : Cardinality(T) <= Len(m.outpoints)}}
  <2>1. m.kind = "utxoSearchByOutpoints"
    BY <1>1
  <2>. HIDE DEF m
  <2>2. Reply(m) = OutpointsReply(m)
    BY <2>1 DEF Reply
  <2>. QED
    BY <2>2, Zenon DEF OutpointsReply
<1>3. listed = {outpoint(ops[i]) : i \in DOMAIN ops}
  <2>1. m.outpoints = [i \in DOMAIN ops |-> outpoint(ops[i])]
    BY <1>1
  <2>. HIDE DEF m, ops
  <2>. QED
    BY <2>1 DEF ToSet
<1>4. PICK S \in SUBSET stray : x = [kind |-> "outputs", outputs |-> named \cup S]
  <2>. HIDE DEF named, stray
  <2>. QED
    BY <1>2 DEF m
<1>5. named \cup S \in SUBSET utxos
  OBVIOUS
<1>6. Fits(r, x)
  <2>. HIDE DEF named, stray
  <2>. QED
    BY <1>4, <1>5 DEF Fits
<1>7. FromResponse(x) = CoinList(CoinsOf(named \cup S))
  <2>. HIDE DEF named, stray
  <2>. QED
    BY <1>4, ResponseRead
<1>8. CASE ~Clear(r)
  <2>1. Question(r).kind = "unclear"
    BY <1>8, QuestionOf, RefusedIsMalformed
  <2>2. CoinsOf(named \cup S) \in SUBSET Held
    <3>. HIDE DEF named, stray
    <3>. QED
      BY <1>5 DEF CoinsOf, Held
  <2>. HIDE DEF named, stray
  <2>. QED
    BY <1>6, <1>7, <2>1, <2>2, TruthfulUnclear
<1>9. CASE Clear(r)
  <2>1. ops \in Seq(Seq(Seq(Character)))
    BY RequestType
  <2>2. ASSUME NEW i \in DOMAIN ops
        PROVE  /\ Sized(outpoint(ops[i]))
               /\ bhash(outpoint(ops[i]).txid) = Shown(ops[i][1])
               /\ outpoint(ops[i]).vout = Number[ops[i][2]]
    <3>1. Len(ops[i]) = 2 /\ IsTxid(ops[i][1])
      <4>1. ~BadFormat(ops[i])
        BY DEF Refused
      <4>. QED
        BY <1>9, <4>1 DEF Clear, BadFormat
    <3>2. ops[i] \in Seq(Seq(Character))
      BY <2>1
    <3>3. ops[i][1] \in Seq(Character)
      BY <3>1, <3>2
    <3>. DEFINE text == ops[i][1]
                hex == bytesToHex(Reverse(hexToBytes(text)))
    <3>4. outpoint(ops[i]) = [txid |-> hex, vout |-> Number[ops[i][2]]]
      BY DEF outpoint
    <3>5. Len(hex) = 2 * TxidLen /\ bhash(hex) = Shown(text)
      <4>. HIDE DEF ops, text
      <4>1. text \in Seq(Character) /\ IsTxid(text)
        BY <3>1, <3>3 DEF text
      <4>. QED
        BY <4>1, OutpointIsShown
    <3>. HIDE DEF hex
    <3>. QED
      BY <3>4, <3>5 DEF Sized
  <2>. DEFINE asked == {<<Shown(p[1]), Number[p[2]]>> : p \in ToSet(ops)}
  <2>3. Question(r) = [kind |-> "outpoints", outpoints |-> asked]
    BY <1>9, QuestionOf
  <2>4. stray = {} /\ S = {}
    BY <1>3, <2>2
  <2>5. \A o \in utxos : o \in named <=> <<o.prev_tx_id, o.prev_out_idx>> \in asked
    <3>1. asked = {<<Shown(ops[i][1]), Number[ops[i][2]]>> : i \in DOMAIN ops}
      BY DEF ToSet
    <3>2. ASSUME NEW o \in utxos
          PROVE  o \in named <=> \E i \in DOMAIN ops : /\ o.prev_tx_id = Shown(ops[i][1])
                                                       /\ o.prev_out_idx = Number[ops[i][2]]
      BY <1>3, <2>2
    <3>3. ASSUME NEW o \in utxos
          PROVE  <<o.prev_tx_id, o.prev_out_idx>> \in asked <=>
                     \E i \in DOMAIN ops : /\ o.prev_tx_id = Shown(ops[i][1])
                                           /\ o.prev_out_idx = Number[ops[i][2]]
      BY <3>1
    <3>. HIDE DEF asked, named, ops
    <3>. QED
      BY <3>2, <3>3
  <2>. HIDE DEF asked, named, stray, ops, m
  <2>6. CoinsOf(named \cup S) = {y \in Held : <<y.txid, y.vout>> \in asked}
    <3>1. \A o \in utxos : CoinOf(o).txid = o.prev_tx_id /\ CoinOf(o).vout = o.prev_out_idx
      BY DEF CoinOf
    <3>2. named \cup S = named /\ named \in SUBSET utxos
      BY <1>5, <2>4
    <3>3. ASSUME NEW y \in CoinsOf(named) PROVE y \in Held /\ <<y.txid, y.vout>> \in asked
      <4>1. PICK o \in named : y = CoinOf(o)
        BY DEF CoinsOf
      <4>. QED
        BY <2>5, <3>1, <3>2, <4>1 DEF Held, CoinsOf
    <3>4. ASSUME NEW y \in Held, <<y.txid, y.vout>> \in asked PROVE y \in CoinsOf(named)
      <4>1. PICK o \in utxos : y = CoinOf(o)
        BY DEF Held, CoinsOf
      <4>2. o \in named
        BY <2>5, <3>1, <3>4, <4>1
      <4>. QED
        BY <4>1, <4>2 DEF CoinsOf
    <3>5. CoinsOf(named) = {y \in Held : <<y.txid, y.vout>> \in asked}
      BY <3>3, <3>4
    <3>. QED
      BY <3>2, <3>5
  <2>7. Question(r).kind = "outpoints" /\ Question(r).outpoints = asked
    BY <2>3
  <2>. QED
    <3>1. Service!Truthful(Question(r)) = {CoinList({y \in Held : <<y.txid, y.vout>> \in asked})}
      BY <2>7, TruthfulOutpoints
    <3>. QED
      BY <1>6, <1>7, <2>6, <3>1
<1>. QED
  BY <1>8, <1>9

\* gs++ tells of as many outputs of the address as it has, up to the limit.
LEMMA DecideCoins ==
    ASSUME NEW r \in Request, r.route = "address/utxos", ~Refused(r), utxos \in SUBSET Output,
           NEW x \in Reply(MessageFor(r))
    PROVE  Fits(r, x) /\ FromResponse(x) \in Service!Truthful(Question(r))
<1>. DEFINE m == MessageFor(r)
            L == LockedBy(addressToScriptpubkey(r.address))
<1>1. Clear(r) /\ r.address \in Address
  BY RefusedIsMalformed
<1>2. m = [kind |-> "utxoSearchByScriptPubKey", limit |-> Limit,
           scriptpubkey |-> addressToScriptpubkey(r.address)]
  BY DEF MessageFor
<1>3. m.kind = "utxoSearchByScriptPubKey" /\ m.limit = Limit
      /\ m.scriptpubkey = addressToScriptpubkey(r.address)
  BY <1>2
<1>. HIDE DEF m
<1>4. Reply(m) = {[kind |-> "outputs", outputs |-> S] : S \in kSubset(Min({Limit, Cardinality(L)}), L)}
  <2>1. Reply(m) = ScriptPubKeyReply(m)
    BY <1>3 DEF Reply
  <2>. QED
    BY <1>3, <2>1, Zenon DEF ScriptPubKeyReply
<1>5. L = {o \in utxos : o.scriptpubkey = addressToScriptpubkey(r.address)}
  BY DEF LockedBy
<1>6. HeldBy(r.address) = CoinsOf(L)
  BY <1>1, <1>5, OwnedAreLocked DEF HeldBy, Held
<1>. HIDE DEF L
<1>7. PICK S \in kSubset(Min({Limit, Cardinality(L)}), L) : x = [kind |-> "outputs", outputs |-> S]
  BY <1>4 DEF m
<1>8. S \in SUBSET L /\ Cardinality(S) = Min({Limit, Cardinality(L)}) /\ L \in SUBSET Output
      /\ L \in SUBSET PaidTo(r.address)
  BY <1>5 DEF kSubset, PaidTo
<1>9. Fits(r, x)
  BY <1>7, <1>8 DEF Fits
<1>10. FromResponse(x) = CoinList(CoinsOf(S))
  BY <1>7, ResponseRead
<1>11. Cardinality(CoinsOf(S)) = Cardinality(S) /\ Cardinality(CoinsOf(L)) = Cardinality(L)
  BY <1>8, CoinsCounted
<1>12. CoinsOf(S) \in kSubset(Min({Limit, Cardinality(CoinsOf(L))}), CoinsOf(L))
  <2>1. CoinsOf(S) \in SUBSET CoinsOf(L)
    BY <1>8 DEF CoinsOf
  <2>. QED
    BY <1>8, <1>11, <2>1 DEF kSubset
<1>13. Question(r).kind = "coins" /\ Question(r).owner = r.address
  BY <1>1, QuestionOf
<1>14. Service!Truthful(Question(r)) =
           {CoinList(T) : T \in kSubset(Min({Limit, Cardinality(CoinsOf(L))}), CoinsOf(L))}
  BY <1>6, <1>13, TruthfulCoins
<1>. QED
  BY <1>9, <1>10, <1>12, <1>14

\* gs++ tells the total of the address.
LEMMA DecideBalance ==
    ASSUME NEW r \in Request, r.route = "address/balance", ~Refused(r), utxos \in SUBSET Output,
           NEW x \in Reply(MessageFor(r))
    PROVE  Fits(r, x) /\ FromResponse(x) \in Service!Truthful(Question(r))
<1>. DEFINE m == MessageFor(r)
            L == LockedBy(addressToScriptpubkey(r.address))
<1>1. Clear(r) /\ r.address \in Address
  BY RefusedIsMalformed
<1>2. m = [kind |-> "balanceByScriptPubKey", scriptpubkey |-> addressToScriptpubkey(r.address)]
  BY DEF MessageFor
<1>3. m.kind = "balanceByScriptPubKey" /\ m.scriptpubkey = addressToScriptpubkey(r.address)
  BY <1>2
<1>. HIDE DEF m
<1>4. Reply(m) = {[kind |-> "balance", balance |-> Total(L)]}
  <2>1. Reply(m) = BalanceReply(m)
    BY <1>3 DEF Reply
  <2>. QED
    BY <1>3, <2>1, Zenon DEF BalanceReply, Total
<1>5. L = {o \in utxos : o.scriptpubkey = addressToScriptpubkey(r.address)}
  BY DEF LockedBy
<1>6. HeldBy(r.address) = CoinsOf(L)
  BY <1>1, <1>5, OwnedAreLocked DEF HeldBy, Held
<1>7. L \in SUBSET Output
  BY <1>5
<1>. HIDE DEF L
<1>8. x = [kind |-> "balance", balance |-> Total(L)]
  BY <1>4 DEF m
<1>9. Fits(r, x)
  BY <1>8 DEF Fits
<1>10. FromResponse(x) = [kind |-> "total", total |-> Total(L)]
  BY <1>8, ResponseRead
<1>11. Total(L) = Total(CoinsOf(L))
  BY <1>7, SameTotal
<1>12. Question(r).kind = "balance" /\ Question(r).owner = r.address
  BY <1>1, QuestionOf
<1>13. Service!Truthful(Question(r)) = {[kind |-> "total", total |-> Total(CoinsOf(L))]}
  BY <1>6, <1>12, TruthfulBalance
<1>. QED
  BY <1>9, <1>10, <1>11, <1>13

\* gs++ tells of the transaction that was named, and of an indexed one only.
LEMMA DecideHistory ==
    ASSUME NEW r \in Request, r.route = "graphsearch", NEW x \in Reply(MessageFor(r))
    PROVE  Fits(r, x) /\ FromResponse(x) \in Service!Truthful(Question(r)) \cup {Service!Failure}
<1>. DEFINE m == MessageFor(r)
            text == r.txid
<1>1. m = [kind |-> "graphSearch", txid |-> text]
  BY DEF MessageFor
<1>2. m.kind = "graphSearch" /\ m.txid = text
  BY <1>1
<1>. HIDE DEF m, text
<1>3. Reply(m) = GraphSearchReply(m)
  BY <1>2 DEF Reply
<1>4. \/ x = GrpcError
      \/ bhash(text) \in Indexed /\ x = [kind |-> "txdata", of |-> bhash(text)]
  BY <1>2, <1>3 DEF GraphSearchReply, m
<1>5. CASE x = GrpcError
  BY <1>5, ResponseRead DEF Fits
<1>6. CASE bhash(text) \in Indexed /\ x = [kind |-> "txdata", of |-> bhash(text)]
  <2>1. Fits(r, x)
    BY <1>6 DEF Fits
  <2>2. FromResponse(x) = [kind |-> "known", txid |-> bhash(text)]
    BY <1>6, ResponseRead
  <2>3. CASE ~Clear(r)
    <3>1. Question(r).kind = "unclear"
      BY <2>3, QuestionOf, RefusedIsMalformed DEF Refused
    <3>. QED
      BY <1>6, <2>1, <2>2, <3>1, TruthfulUnclear
  <2>4. CASE Clear(r)
    <3>1. text \in Seq(Character) /\ IsTxid(text) /\ \A i \in DOMAIN text : text[i] < 16
      BY <2>4, RequestType DEF text, Clear
    <3>2. bhash(text) = Plain(text)
      BY <3>1, PlainIsRead
    <3>3. Question(r).kind = "history" /\ Question(r).txid = Plain(text)
      BY <2>4, QuestionOf DEF text
    <3>4. Service!Truthful(Question(r)) = {[kind |-> "known", txid |-> Plain(text)]}
      BY <1>6, <3>2, <3>3, TruthfulHistory
    <3>. QED
      BY <2>1, <2>2, <3>2, <3>4
  <2>. QED
    BY <2>3, <2>4
<1>. QED
  BY <1>4, <1>5, <1>6

\* Whatever gs++ replies, and an error too, is an answer that RestService allows.
LEMMA DecideAll ==
    ASSUME NEW r \in Request, ~Refused(r), utxos \in SUBSET Output,
           NEW x \in Reply(MessageFor(r)) \cup {GrpcError}
    PROVE  Fits(r, x) /\ FromResponse(x) \in Service!Truthful(Question(r)) \cup {Service!Failure}
<1>1. CASE x = GrpcError
  BY <1>1, ResponseRead DEF Fits
<1>2. CASE x \in Reply(MessageFor(r))
  BY <1>2, RequestType, DecideOutpoints, DecideCoins, DecideBalance, DecideHistory
<1>. QED
  BY <1>1, <1>2

-----------------------------------------------------------------------------
(* The invariant. *)

\* A connection at p, with the request r, the message m, the response x and the
\* body b.
ConnOK(p, r, m, x, b) ==
    /\ p = "closed" => r = None /\ x = None /\ b = None
    /\ p \in {"accepted", "called"} => r \in Request /\ x = None /\ b = None
    /\ p = "called" => ~Refused(r) /\ m = MessageFor(r)
    /\ p = "served" => r \in Request /\ ~Refused(r) /\ Fits(r, x) /\ b = None
    /\ p = "ended" => r \in Request /\ b # None

\* Each connection has the message of its own request and an answer of the kind
\* it asked for, with outputs of the very address it named.
GatewayInv ==
    /\ utxos \in SUBSET Output /\ alive \in BOOLEAN /\ pc \in [Conn -> Pc]
    /\ DOMAIN req = Conn /\ DOMAIN call = Conn /\ DOMAIN response = Conn /\ DOMAIN res = Conn
    /\ \A c \in Conn : ConnOK(pc[c], req[c], call[c], response[c], res[c])

\* What a handler does: it refuses the request, or sends its message.
LEMMA HandleIs ==
    ASSUME GatewayInv, NEW c \in Conn, Handle(c)
    PROVE  /\ alive /\ pc[c] = "accepted" /\ req[c] \in Request
           /\ \/ /\ Refused(req[c])
                 /\ \E b \in {[kind |-> "bad format"], [kind |-> "500"]} : End(c, b)
              \/ ~Refused(req[c]) /\ Send(c, MessageFor(req[c]))
<1>. DEFINE r == req[c]
<1>1. alive /\ pc[c] = "accepted"
  BY DEF Handle, Graphsearch, Utxo, AddressUtxos, AddressBalance, Handling
<1>2. r \in Request
  BY <1>1 DEF GatewayInv, ConnOK
<1>3. ASSUME Graphsearch(c) PROVE ~Refused(r) /\ Send(c, MessageFor(r))
  <2>1. r.route = "graphsearch" /\ Send(c, [kind |-> "graphSearch", txid |-> r.txid])
    BY <1>3 DEF Graphsearch, Handling
  <2>2. MessageFor(r) = [kind |-> "graphSearch", txid |-> r.txid]
    BY <2>1 DEF MessageFor
  <2>. QED
    BY <2>1, <2>2 DEF Refused
<1>4. ASSUME Utxo(c)
      PROVE  \/ Refused(r) /\ \E b \in {[kind |-> "bad format"], [kind |-> "500"]} : End(c, b)
             \/ ~Refused(r) /\ Send(c, MessageFor(r))
  <2>1. r.route = "utxo"
    BY <1>4 DEF Utxo, Handling
  <2>2. MessageFor(r) = [kind |-> "utxoSearchByOutpoints",
                         outpoints |-> [i \in DOMAIN r.outpoints |-> outpoint(r.outpoints[i])]]
    BY <2>1 DEF MessageFor
  <2>3. Refused(r) <=> \E i \in DOMAIN r.outpoints :
                           BadFormat(r.outpoints[i]) \/ writeUint32Throws(Number[r.outpoints[i][2]])
    BY <2>1 DEF Refused
  <2>. QED
    BY <1>4, <2>2, <2>3, Zenon DEF Utxo
<1>5. ASSUME AddressUtxos(c)
      PROVE  \/ Refused(r) /\ End(c, [kind |-> "500"])
             \/ ~Refused(r) /\ Send(c, MessageFor(r))
  <2>1. r.route = "address/utxos"
    BY <1>5 DEF AddressUtxos, Handling
  <2>2. MessageFor(r) = [kind |-> "utxoSearchByScriptPubKey", limit |-> Limit,
                         scriptpubkey |-> addressToScriptpubkey(r.address)]
    BY <2>1 DEF MessageFor
  <2>3. Refused(r) <=> r.address.type = "invalid"
    BY <2>1 DEF Refused
  <2>. QED
    BY <1>5, <2>2, <2>3, Zenon DEF AddressUtxos
<1>6. ASSUME AddressBalance(c)
      PROVE  \/ Refused(r) /\ End(c, [kind |-> "500"])
             \/ ~Refused(r) /\ Send(c, MessageFor(r))
  <2>1. r.route = "address/balance"
    BY <1>6 DEF AddressBalance, Handling
  <2>2. MessageFor(r) = [kind |-> "balanceByScriptPubKey",
                         scriptpubkey |-> addressToScriptpubkey(r.address)]
    BY <2>1 DEF MessageFor
  <2>3. Refused(r) <=> r.address.type = "invalid"
    BY <2>1 DEF Refused
  <2>. QED
    BY <1>6, <2>2, <2>3, Zenon DEF AddressBalance
<1>. QED
  BY <1>1, <1>2, <1>3, <1>4, <1>5, <1>6 DEF Handle

\* What a body says, in the client's terms.
LEMMA ResRead ==
    ASSUME NEW r, NEW b
    PROVE  /\ b.kind = "list" => FromRes(b, r) = CoinList({CoinFrom(d.out, d.address) : d \in b.data})
           /\ b.kind = "address list" => FromRes(b, r) = CoinList({CoinFrom(d, r.address) : d \in b.data})
           /\ b.kind = "balance" => FromRes(b, r) = [kind |-> "total", total |-> b.data]
           /\ b.kind = "txdata" => FromRes(b, r) = [kind |-> "known", txid |-> b.of]
           /\ b.kind = "err" => FromRes(b, r) = Service!Failure
           /\ b.kind \in {"bad format", "500"} => FromRes(b, r) = Service!Refusal
<1>1. ASSUME b.kind = "list"
      PROVE  FromRes(b, r) = CoinList({CoinFrom(d.out, d.address) : d \in b.data})
  BY <1>1, Zenon DEF FromRes, CoinList
<1>2. ASSUME b.kind = "address list"
      PROVE  FromRes(b, r) = CoinList({CoinFrom(d, r.address) : d \in b.data})
  BY <1>2, Zenon DEF FromRes, CoinList
<1>3. ASSUME b.kind = "balance" PROVE FromRes(b, r) = [kind |-> "total", total |-> b.data]
  BY <1>3, Zenon DEF FromRes
<1>4. ASSUME b.kind = "txdata" PROVE FromRes(b, r) = [kind |-> "known", txid |-> b.of]
  BY <1>4, Zenon DEF FromRes
<1>5. ASSUME b.kind = "err" PROVE FromRes(b, r) = Service!Failure
  BY <1>5, Zenon DEF FromRes, Service!Failure
<1>6. ASSUME b.kind \in {"bad format", "500"} PROVE FromRes(b, r) = Service!Refusal
  BY <1>6, Zenon DEF FromRes, Service!Refusal
<1>. QED
  BY <1>1, <1>2, <1>3, <1>4, <1>5, <1>6

\* What a callback does: it ends the process over a list of outputs, or says what
\* came back.
LEMMA CallbackIs ==
    ASSUME GatewayInv, NEW c \in Conn, Callback(c)
    PROVE  /\ alive /\ pc[c] = "served" /\ req[c] \in Request
           /\ \/ /\ Throw
                 /\ \E S : S # {} /\ response[c] = [kind |-> "outputs", outputs |-> S]
              \/ \E b : b # None /\ End(c, b) /\ FromRes(b, req[c]) = FromResponse(response[c])
<1>. DEFINE r == req[c]
            x == response[c]
            Ends == \E b : b # None /\ End(c, b) /\ FromRes(b, r) = FromResponse(x)
<1>1. alive /\ pc[c] = "served"
  BY DEF Callback, GraphsearchDone, UtxoDone, AddressUtxosDone, AddressBalanceDone, Called
<1>2. r \in Request /\ ~Refused(r) /\ Fits(r, x)
  BY <1>1 DEF GatewayInv, ConnOK
<1>3. ASSUME NEW b, b.kind # "none" PROVE b # None
  BY <1>3 DEF None
<1>4. ASSUME Failed(c) PROVE Ends
  <2>1. x = GrpcError /\ End(c, [kind |-> "err"])
    BY <1>4 DEF Failed
  <2>2. FromRes([kind |-> "err"], r) = FromResponse(x)
    <3>. DEFINE b == [kind |-> "err"]
    <3>1. b.kind = "err"
      OBVIOUS
    <3>. HIDE DEF b, r, x
    <3>2. FromRes(b, r) = Service!Failure
      BY <3>1, ResRead
    <3>. QED
      BY <2>1, <3>2, ResponseRead DEF b
  <2>3. [kind |-> "err"] # None
    BY <1>3
  <2>. QED
    BY <2>1, <2>2, <2>3
<1>5. ASSUME GraphsearchDone(c), ~Failed(c) PROVE Ends
  <2>1. r.route = "graphsearch" /\ x # GrpcError /\ End(c, [kind |-> "txdata", of |-> x.of])
    BY <1>5 DEF GraphsearchDone, Called
  <2>2. PICK t : x = [kind |-> "txdata", of |-> t]
    BY <1>2, <2>1 DEF Fits
  <2>3. End(c, [kind |-> "txdata", of |-> t])
    BY <2>1, <2>2
  <2>4. FromRes([kind |-> "txdata", of |-> t], r) = FromResponse(x)
    <3>. DEFINE b == [kind |-> "txdata", of |-> t]
    <3>1. b.kind = "txdata" /\ b.of = t
      OBVIOUS
    <3>. HIDE DEF b, r, x
    <3>2. FromRes(b, r) = [kind |-> "known", txid |-> t]
      BY <3>1, ResRead
    <3>. QED
      BY <2>2, <3>2, ResponseRead DEF b
  <2>5. [kind |-> "txdata", of |-> t] # None
    BY <1>3
  <2>. QED
    BY <2>3, <2>4, <2>5
<1>6. ASSUME UtxoDone(c), ~Failed(c)
      PROVE  \/ Throw /\ \E S : S # {} /\ x = [kind |-> "outputs", outputs |-> S]
             \/ Ends
  <2>1. r.route = "utxo" /\ x # GrpcError
    BY <1>6 DEF UtxoDone, Called
  <2>2. PICK S \in SUBSET Output : x = [kind |-> "outputs", outputs |-> S]
    BY <1>2, <2>1 DEF Fits
  <2>. DEFINE D == {[out |-> json(o), address |-> fromScript(o.scriptpubkey)] : o \in S}
              b == [kind |-> "list", data |-> D]
  <2>3. \/ S # {} /\ Throw
        \/ End(c, b)
    <3>1. x.outputs = S
      BY <2>2
    <3>2. IF x.outputs # {} /\ "height" \notin fields
          THEN Throw
          ELSE End(c, [kind |-> "list",
                       data |-> {[out |-> json(o), address |-> fromScript(o.scriptpubkey)] : o \in x.outputs}])
      BY <1>6 DEF UtxoDone
    <3>. QED
      BY <3>1, <3>2, Zenon
  <2>4. FromRes(b, r) = FromResponse(x)
    <3>1. FromRes(b, r) = CoinList({CoinFrom(d.out, d.address) : d \in D})
      <4>1. b.kind = "list" /\ b.data = D
        OBVIOUS
      <4>. HIDE DEF D, b, r
      <4>. QED
        BY <4>1, ResRead
    <3>2. {CoinFrom(d.out, d.address) : d \in D} = CoinsOf(S)
      <4>1. \A o \in S : CoinFrom(json(o), fromScript(o.scriptpubkey)) = CoinOf(o)
        BY JsonShowsCoin
      <4>2. {CoinFrom(d.out, d.address) : d \in D} =
                {CoinFrom(json(o), fromScript(o.scriptpubkey)) : o \in S}
        <5>. DEFINE e(o) == [out |-> json(o), address |-> fromScript(o.scriptpubkey)]
        <5>1. \A o \in S : e(o).out = json(o) /\ e(o).address = fromScript(o.scriptpubkey)
          OBVIOUS
        <5>2. D = {e(o) : o \in S}
          OBVIOUS
        <5>. HIDE DEF D, e
        <5>. QED
          BY <5>1, <5>2
      <4>. QED
        BY <4>1, <4>2 DEF CoinsOf
    <3>. QED
      BY <2>2, <3>1, <3>2, ResponseRead
  <2>5. b # None
    BY <1>3
  <2>. HIDE DEF b
  <2>. QED
    BY <2>2, <2>3, <2>4, <2>5
<1>7. ASSUME AddressUtxosDone(c), ~Failed(c)
      PROVE  \/ Throw /\ \E S : S # {} /\ x = [kind |-> "outputs", outputs |-> S]
             \/ Ends
  <2>1. r.route = "address/utxos" /\ x # GrpcError
    BY <1>7 DEF AddressUtxosDone, Called
  <2>2. PICK S \in SUBSET PaidTo(r.address) : x = [kind |-> "outputs", outputs |-> S]
    BY <1>2, <2>1 DEF Fits
  <2>. DEFINE D == {json(o) : o \in S}
              b == [kind |-> "address list", data |-> D]
  <2>3. \/ S # {} /\ Throw
        \/ End(c, b)
    <3>1. x.outputs = S
      BY <2>2
    <3>2. IF x.outputs # {} /\ "height" \notin fields
          THEN Throw
          ELSE End(c, [kind |-> "address list", data |-> {json(o) : o \in x.outputs}])
      BY <1>7 DEF AddressUtxosDone
    <3>. QED
      BY <3>1, <3>2, Zenon
  <2>4. FromRes(b, r) = FromResponse(x)
    <3>1. FromRes(b, r) = CoinList({CoinFrom(d, r.address) : d \in D})
      <4>1. b.kind = "address list" /\ b.data = D
        OBVIOUS
      <4>. HIDE DEF D, b, r
      <4>. QED
        BY <4>1, ResRead
    <3>2. {CoinFrom(d, r.address) : d \in D} = CoinsOf(S)
      <4>1. ASSUME NEW o \in S PROVE CoinFrom(json(o), r.address) = CoinOf(o)
        <5>1. o \in Output /\ o.scriptpubkey = addressToScriptpubkey(r.address) /\ r.address \in Address
          BY <1>2, <2>1, RefusedIsMalformed DEF PaidTo
        <5>2. o.scriptpubkey \in Seq(Nat)
          BY <5>1, OutputType, BytesAreNumbers
        <5>3. fromScript(o.scriptpubkey) = r.address
          BY <5>1, <5>2, OwnerOfScript
        <5>. QED
          BY <5>1, <5>3, JsonShowsCoin
      <4>2. {CoinFrom(d, r.address) : d \in D} = {CoinFrom(json(o), r.address) : o \in S}
        OBVIOUS
      <4>. QED
        BY <4>1, <4>2 DEF CoinsOf
    <3>. QED
      BY <2>2, <3>1, <3>2, ResponseRead
  <2>5. b # None
    BY <1>3
  <2>. HIDE DEF b
  <2>. QED
    BY <2>2, <2>3, <2>4, <2>5
<1>8. ASSUME AddressBalanceDone(c), ~Failed(c) PROVE Ends
  <2>1. r.route = "address/balance" /\ x # GrpcError /\ End(c, [kind |-> "balance", data |-> x.balance])
    BY <1>8 DEF AddressBalanceDone, Called
  <2>2. PICK n : x = [kind |-> "balance", balance |-> n]
    BY <1>2, <2>1 DEF Fits
  <2>3. End(c, [kind |-> "balance", data |-> n])
    BY <2>1, <2>2
  <2>4. FromRes([kind |-> "balance", data |-> n], r) = FromResponse(x)
    <3>. DEFINE b == [kind |-> "balance", data |-> n]
    <3>1. b.kind = "balance" /\ b.data = n
      OBVIOUS
    <3>. HIDE DEF b, r, x
    <3>2. FromRes(b, r) = [kind |-> "total", total |-> n]
      BY <3>1, ResRead
    <3>. QED
      BY <2>2, <3>2, ResponseRead DEF b
  <2>5. [kind |-> "balance", data |-> n] # None
    BY <1>3
  <2>. QED
    BY <2>3, <2>4, <2>5
<1>. HIDE DEF Ends
<1>9. \/ Throw /\ \E S : S # {} /\ x = [kind |-> "outputs", outputs |-> S]
      \/ Ends
  BY <1>4, <1>5, <1>6, <1>7, <1>8 DEF Callback
<1>. QED
  BY <1>1, <1>2, <1>9 DEF Ends

\* No connection is in use at the start.
LEMMA GatewayStart ==
    ASSUME GatewayInit
    PROVE  GatewayInv
BY DEF GatewayInit, GatewayInv, ConnOK, Pc

\* A step of one connection leaves the others as they are.
LEMMA OneConnection ==
    ASSUME GatewayInv, NEW c \in Conn, NEW p \in Pc, pc' = [pc EXCEPT ![c] = p],
           utxos' = utxos, alive' = alive,
           DOMAIN req' = Conn, DOMAIN call' = Conn, DOMAIN response' = Conn, DOMAIN res' = Conn,
           \A d \in Conn : d # c => /\ req'[d] = req[d] /\ call'[d] = call[d]
                                   /\ response'[d] = response[d] /\ res'[d] = res[d],
           ConnOK(p, req'[c], call'[c], response'[c], res'[c])
    PROVE  GatewayInv'
<1>1. pc' \in [Conn -> Pc] /\ pc'[c] = p /\ \A d \in Conn : d # c => pc'[d] = pc[d]
  BY DEF GatewayInv
<1>2. ASSUME NEW d \in Conn PROVE ConnOK(pc'[d], req'[d], call'[d], response'[d], res'[d])
  <2>1. CASE d = c
    BY <1>1, <2>1
  <2>2. CASE d # c
    BY <1>1, <2>2 DEF GatewayInv
  <2>. QED
    BY <2>1, <2>2
<1>. QED
  BY <1>1, <1>2 DEF GatewayInv

\* Every step keeps the invariant.
LEMMA GatewayStep ==
    ASSUME GatewayInv, [GatewayNext]_gatewayVars
    PROVE  GatewayInv'
<1>1. CASE UNCHANGED gatewayVars
  BY <1>1 DEF gatewayVars, connVars, GatewayInv
<1>2. CASE UtxosChange
  <2>1. PICK o \in Output : utxos' = SymDiff(utxos, {o})
    BY <1>2 DEF UtxosChange
  <2>2. utxos' \in SUBSET Output
    BY <2>1 DEF SymDiff, GatewayInv
  <2>. QED
    BY <1>2, <2>2 DEF UtxosChange, connVars, GatewayInv
<1>3. ASSUME NEW c \in Conn, NEW r \in Request, Accept(c, r)
      PROVE  GatewayInv'
  <2>1. ConnOK(pc[c], req[c], call[c], response[c], res[c]) /\ DOMAIN req = Conn /\ DOMAIN call = Conn
        /\ DOMAIN response = Conn /\ DOMAIN res = Conn
    BY DEF GatewayInv
  <2>2. ConnOK("accepted", req'[c], call'[c], response'[c], res'[c])
    BY <1>3, <2>1 DEF Accept, ConnOK
  <2>. QED
    BY <1>3, <2>1, <2>2, OneConnection DEF Accept, Pc
<1>4. ASSUME NEW c \in Conn, Close(c)
      PROVE  GatewayInv'
  <2>1. DOMAIN req = Conn /\ DOMAIN call = Conn /\ DOMAIN response = Conn /\ DOMAIN res = Conn
    BY DEF GatewayInv
  <2>2. ConnOK("closed", req'[c], call'[c], response'[c], res'[c])
    BY <1>4, <2>1 DEF Close, ConnOK
  <2>. QED
    BY <1>4, <2>1, <2>2, OneConnection DEF Close, Pc
<1>5. ASSUME NEW c \in Conn, NEW b, b # None, req[c] \in Request, End(c, b)
      PROVE  GatewayInv'
  <2>1. DOMAIN req = Conn /\ DOMAIN call = Conn /\ DOMAIN response = Conn /\ DOMAIN res = Conn
    BY DEF GatewayInv
  <2>2. ConnOK("ended", req'[c], call'[c], response'[c], res'[c])
    BY <1>5, <2>1 DEF End, ConnOK
  <2>. QED
    BY <1>5, <2>1, <2>2, OneConnection DEF End, Pc
<1>6. ASSUME NEW c \in Conn, Handle(c)
      PROVE  GatewayInv'
  <2>1. pc[c] = "accepted" /\ req[c] \in Request
    BY <1>6, HandleIs
  <2>2. CASE \E b \in {[kind |-> "bad format"], [kind |-> "500"]} : End(c, b)
    <3>1. PICK b \in {[kind |-> "bad format"], [kind |-> "500"]} : End(c, b)
      BY <2>2
    <3>2. b # None
      <4>1. [kind |-> "bad format"] # None /\ [kind |-> "500"] # None
        BY DEF None
      <4>. QED
        BY <4>1
    <3>. QED
      BY <1>5, <2>1, <3>1, <3>2
  <2>3. CASE ~Refused(req[c]) /\ Send(c, MessageFor(req[c]))
    <3>1. ConnOK(pc[c], req[c], call[c], response[c], res[c]) /\ DOMAIN req = Conn /\ DOMAIN call = Conn
          /\ DOMAIN response = Conn /\ DOMAIN res = Conn
      BY DEF GatewayInv
    <3>2. ConnOK("called", req'[c], call'[c], response'[c], res'[c])
      BY <2>1, <2>3, <3>1 DEF Send, ConnOK
    <3>. QED
      BY <2>3, <3>1, <3>2, OneConnection DEF Send, Pc
  <2>. QED
    BY <1>6, <2>2, <2>3, HandleIs
<1>7. ASSUME NEW c \in Conn, Serve(c)
      PROVE  GatewayInv'
  <2>1. ConnOK(pc[c], req[c], call[c], response[c], res[c]) /\ DOMAIN req = Conn /\ DOMAIN call = Conn
        /\ DOMAIN response = Conn /\ DOMAIN res = Conn /\ utxos \in SUBSET Output
    BY DEF GatewayInv
  <2>2. req[c] \in Request /\ ~Refused(req[c]) /\ call[c] = MessageFor(req[c]) /\ res[c] = None
    BY <1>7, <2>1 DEF Serve, ConnOK
  <2>3. PICK x \in Reply(MessageFor(req[c])) \cup {GrpcError} : response' = [response EXCEPT ![c] = x]
    BY <1>7, <2>2 DEF Serve
  <2>4. Fits(req[c], x)
    BY <2>1, <2>2, DecideAll
  <2>5. ConnOK("served", req'[c], call'[c], response'[c], res'[c])
    BY <1>7, <2>1, <2>2, <2>3, <2>4 DEF Serve, ConnOK
  <2>. QED
    BY <1>7, <2>1, <2>3, <2>5, OneConnection DEF Serve, Pc
<1>8. ASSUME Throw
      PROVE  GatewayInv'
  <2>1. pc' \in [Conn -> Pc] /\ \A c \in Conn : pc'[c] = "lost" \/ pc'[c] = pc[c]
    BY <1>8 DEF Throw, GatewayInv, Pc
  <2>2. \A r, m, x, b : ConnOK("lost", r, m, x, b)
    BY DEF ConnOK
  <2>3. /\ req' = req /\ call' = call /\ response' = response /\ res' = res /\ utxos' = utxos
        /\ alive' \in BOOLEAN
    BY <1>8 DEF Throw
  <2>4. \A c \in Conn : ConnOK(pc'[c], req[c], call[c], response[c], res[c])
    BY <2>1, <2>2 DEF GatewayInv
  <2>. QED
    BY <2>1, <2>3, <2>4 DEF GatewayInv
<1>9. ASSUME NEW c \in Conn, Callback(c)
      PROVE  GatewayInv'
  BY <1>5, <1>8, <1>9, CallbackIs
<1>. QED
  BY <1>1, <1>2, <1>3, <1>4, <1>6, <1>7, <1>9 DEF GatewayNext, Advance

-----------------------------------------------------------------------------
(* The refinement: the variables of RestService, and its actions over them. *)

StageOf(p) ==
    CASE p = "closed"               -> "free"
      [] p \in {"accepted", "called"} -> "waiting"
      [] p = "served"               -> "ready"
      [] p = "ended"                -> "answered"
      [] p = "lost"                 -> "lost"

Staged == [c \in Conn |-> StageOf(pc[c])]
Asked  == [c \in Conn |-> Question(req[c])]
Told   == [c \in Conn |-> IF res[c] = None THEN FromResponse(response[c]) ELSE FromRes(res[c], req[c])]

\* The actions of RestService, over these variables.  Ask:
LEMMA ServiceAsk ==
    ASSUME NEW c \in Conn, alive, Staged[c] = "free", Staged' = [Staged EXCEPT ![c] = "waiting"],
           Asked' = [Asked EXCEPT ![c] = Asked'[c]], Held' = Held, alive' = alive, Told' = Told
    PROVE  Service!ServiceNext
<1>1. Service!Ask(c, Asked'[c])
  BY DEF Service!Ask, Service!Move, Held, CoinsOf, Staged, StageOf, Asked, Told
<1>. QED
  BY <1>1 DEF Service!ServiceNext, Asked

\* Refuse:
LEMMA ServiceRefuse ==
    ASSUME NEW c \in Conn, alive, Asked[c].kind = "malformed",
           Staged[c] = "waiting", Staged' = [Staged EXCEPT ![c] = "answered"],
           Told' = [Told EXCEPT ![c] = Service!Refusal], Held' = Held, alive' = alive, Asked' = Asked
    PROVE  Service!ServiceNext
<1>1. Service!Refuse(c)
  BY DEF Service!Refuse, Service!Move, Held, CoinsOf, Staged, StageOf, Asked, Told
<1>. QED
  BY <1>1 DEF Service!ServiceNext

\* Decide:
LEMMA ServiceDecide ==
    ASSUME NEW c \in Conn, alive, Asked[c].kind # "malformed",
           Staged[c] = "waiting", Staged' = [Staged EXCEPT ![c] = "ready"],
           NEW a \in Service!Truthful(Asked[c]) \cup {Service!Failure}, Told' = [Told EXCEPT ![c] = a],
           Held' = Held, alive' = alive, Asked' = Asked
    PROVE  Service!ServiceNext
<1>1. Service!Decide(c)
  BY DEF Service!Decide, Service!Move, Held, CoinsOf, Staged, StageOf, Asked, Told
<1>. QED
  BY <1>1 DEF Service!ServiceNext

\* Tell:
LEMMA ServiceTell ==
    ASSUME NEW c \in Conn, alive, Staged[c] = "ready", Staged' = [Staged EXCEPT ![c] = "answered"],
           Held' = Held, alive' = alive, Asked' = Asked, Told' = Told
    PROVE  Service!ServiceNext
<1>1. Service!Tell(c)
  BY DEF Service!Tell, Service!Move, Held, CoinsOf, Staged, StageOf, Asked, Told
<1>. QED
  BY <1>1 DEF Service!ServiceNext

\* Leave:
LEMMA ServiceLeave ==
    ASSUME NEW c \in Conn, Staged[c] = "answered", Staged' = [Staged EXCEPT ![c] = "free"],
           Asked' = [Asked EXCEPT ![c] = Service!Nothing], Told' = [Told EXCEPT ![c] = Service!Nothing],
           Held' = Held, alive' = alive
    PROVE  Service!ServiceNext
<1>1. Service!Leave(c)
  BY DEF Service!Leave, Service!Move, Held, CoinsOf, Staged, StageOf, Asked, Told
<1>. QED
  BY <1>1 DEF Service!ServiceNext

\* End:
LEMMA ServiceEnd ==
    ASSUME NEW c \in Conn, alive, Staged[c] = "ready", Told[c].kind = "coins", Told[c].coins # {},
           alive' = FALSE,
           Staged' = [d \in Conn |-> IF Staged[d] \in {"waiting", "ready"} THEN "lost" ELSE Staged[d]],
           Held' = Held, Asked' = Asked, Told' = Told
    PROVE  Service!ServiceNext
<1>1. Service!End(c)
  BY DEF Service!End, Service!Move, Service!Lists, Held, CoinsOf, Staged, StageOf, Asked, Told
<1>. QED
  BY <1>1 DEF Service!ServiceNext

\* A step of one connection changes its stage.
LEMMA OneStaged ==
    ASSUME GatewayInv, NEW c \in Conn, NEW p \in Pc, pc' = [pc EXCEPT ![c] = p]
    PROVE  Staged' = [Staged EXCEPT ![c] = StageOf(p)] /\ Staged[c] = StageOf(pc[c])
BY DEF GatewayInv, Staged

\* And what it is or will be told.
LEMMA OneTold ==
    ASSUME NEW c \in Conn, NEW a,
           \A d \in Conn : d # c => req'[d] = req[d] /\ response'[d] = response[d] /\ res'[d] = res[d],
           a = IF res'[c] = None THEN FromResponse(response'[c]) ELSE FromRes(res'[c], req'[c])
    PROVE  Told' = [Told EXCEPT ![c] = a]
BY Zenon DEF Told

\* The gateway starts as RestService does.
LEMMA RefineStart ==
    ASSUME GatewayInit
    PROVE  Service!ServiceInit
BY DEF GatewayInit, Service!ServiceInit, Service!Nothing, FromResponse, Question, None

\* Every step of the gateway is one of RestService, or none.
LEMMA RefineStep ==
    ASSUME GatewayInv, [GatewayNext]_gatewayVars
    PROVE  [Service!ServiceNext]_(Service!serviceVars)
<1>. DEFINE Stutter == Held' = Held /\ alive' = alive /\ Staged' = Staged /\ Asked' = Asked /\ Told' = Told
<1>0. Stutter => UNCHANGED Service!serviceVars
  BY DEF Service!serviceVars, Held, CoinsOf, Staged, StageOf, Asked, Told
<1>1. CASE UNCHANGED gatewayVars
  <2>1. Stutter
    BY <1>1 DEF gatewayVars, connVars, Held, CoinsOf, Staged, Asked, Told
  <2>. QED
    BY <1>0, <2>1
<1>2. CASE UtxosChange
  <2>1. utxos' \in SUBSET Output
    BY GatewayStep DEF GatewayInv
  <2>2. Held' \in SUBSET {CoinOf(o) : o \in Output}
    BY <2>1 DEF Held, CoinsOf
  <2>3. alive' = alive /\ Staged' = Staged /\ Asked' = Asked /\ Told' = Told
    BY <1>2 DEF UtxosChange, connVars, Staged, Asked, Told
  <2>4. Service!Change
    BY <2>2, <2>3 DEF Service!Change, Held, CoinsOf, Staged, StageOf, Asked, Told
  <2>. QED
    BY <2>4 DEF Service!ServiceNext
<1>3. ASSUME NEW c \in Conn, NEW r \in Request, Accept(c, r)
      PROVE  Service!ServiceNext
  <2>1. alive /\ pc[c] = "closed" /\ pc' = [pc EXCEPT ![c] = "accepted"]
        /\ req' = [req EXCEPT ![c] = r] /\ utxos' = utxos /\ alive' = alive /\ response' = response /\ res' = res
    BY <1>3 DEF Accept
  <2>2. Staged' = [Staged EXCEPT ![c] = "waiting"] /\ Staged[c] = "free"
    <3>1. "accepted" \in Pc /\ StageOf("accepted") = "waiting" /\ StageOf("closed") = "free"
      BY DEF Pc, StageOf
    <3>. QED
      BY <2>1, <3>1, OneStaged
  <2>3. res[c] = None /\ response[c] = None /\ DOMAIN req = Conn
    BY <2>1 DEF GatewayInv, ConnOK
  <2>4. Asked' = [Asked EXCEPT ![c] = Asked'[c]]
    <3>1. \A d \in Conn : d # c => Asked'[d] = Asked[d]
      BY <2>1, <2>3 DEF Asked
    <3>2. Asked' = [d \in Conn |-> Asked'[d]] /\ Asked = [d \in Conn |-> Asked[d]]
      BY DEF Asked
    <3>. QED
      BY <3>1, <3>2
  <2>5. Told' = Told
    BY <2>1, <2>3 DEF Told
  <2>6. Held' = Held
    BY <2>1 DEF Held, CoinsOf
  <2>. QED
    BY <2>1, <2>2, <2>4, <2>5, <2>6, ServiceAsk
<1>4. ASSUME NEW c \in Conn, Close(c)
      PROVE  Service!ServiceNext
  <2>1. pc[c] = "ended" /\ pc' = [pc EXCEPT ![c] = "closed"]
        /\ req' = [req EXCEPT ![c] = None] /\ response' = [response EXCEPT ![c] = None]
        /\ res' = [res EXCEPT ![c] = None] /\ utxos' = utxos /\ alive' = alive
    BY <1>4 DEF Close
  <2>2. Staged' = [Staged EXCEPT ![c] = "free"] /\ Staged[c] = "answered"
    <3>1. "closed" \in Pc /\ StageOf("closed") = "free" /\ StageOf("ended") = "answered"
      BY DEF Pc, StageOf
    <3>. QED
      BY <2>1, <3>1, OneStaged
  <2>3. DOMAIN req = Conn /\ DOMAIN response = Conn /\ DOMAIN res = Conn
    BY DEF GatewayInv
  <2>4. Asked' = [Asked EXCEPT ![c] = Service!Nothing]
    <3>1. Question(None) = Service!Nothing
      BY DEF Question, Service!Nothing
    <3>2. \A d \in Conn : Asked'[d] = IF d = c THEN Service!Nothing ELSE Asked[d]
      BY <2>1, <2>3, <3>1 DEF Asked
    <3>3. Asked' = [d \in Conn |-> Asked'[d]] /\ Asked = [d \in Conn |-> Asked[d]]
      BY DEF Asked
    <3>. QED
      BY <3>2, <3>3
  <2>5. Told' = [Told EXCEPT ![c] = Service!Nothing]
    <3>1. FromResponse(None) = Service!Nothing
      BY ResponseRead
    <3>2. /\ \A d \in Conn : d # c => req'[d] = req[d] /\ response'[d] = response[d] /\ res'[d] = res[d]
          /\ Service!Nothing = IF res'[c] = None THEN FromResponse(response'[c]) ELSE FromRes(res'[c], req'[c])
      BY <2>1, <2>3, <3>1
    <3>. QED
      BY <3>2, OneTold
  <2>6. Held' = Held
    BY <2>1 DEF Held, CoinsOf
  <2>. QED
    BY <2>1, <2>2, <2>4, <2>5, <2>6, ServiceLeave
<1>5. ASSUME NEW c \in Conn, Handle(c)
      PROVE  Stutter \/ Service!ServiceNext
  <2>1. alive /\ pc[c] = "accepted" /\ req[c] \in Request
    BY <1>5, HandleIs
  <2>2. ASSUME Refused(req[c]), NEW b \in {[kind |-> "bad format"], [kind |-> "500"]}, End(c, b)
        PROVE  Service!ServiceNext
    <3>1. pc' = [pc EXCEPT ![c] = "ended"] /\ res' = [res EXCEPT ![c] = b]
          /\ utxos' = utxos /\ alive' = alive /\ req' = req /\ response' = response
      BY <2>2 DEF End
    <3>2. Staged' = [Staged EXCEPT ![c] = "answered"] /\ Staged[c] = "waiting"
      <4>1. "ended" \in Pc /\ StageOf("ended") = "answered" /\ StageOf("accepted") = "waiting"
        BY DEF Pc, StageOf
      <4>. QED
        BY <2>1, <3>1, <4>1, OneStaged
    <3>3. b # None /\ b.kind \in {"bad format", "500"}
      <4>1. [kind |-> "bad format"] # None /\ [kind |-> "500"] # None
        BY DEF None
      <4>. DEFINE u == [kind |-> "bad format"]
                  v == [kind |-> "500"]
      <4>2. (b = u \/ b = v) /\ u.kind = "bad format" /\ v.kind = "500" /\ u # None /\ v # None
        BY <4>1
      <4>. HIDE DEF u, v
      <4>. QED
        BY <4>2
    <3>4. FromRes(b, req[c]) = Service!Refusal
      BY <3>3, ResRead
    <3>5. Told' = [Told EXCEPT ![c] = Service!Refusal]
      <4>1. DOMAIN res = Conn
        BY DEF GatewayInv
      <4>2. /\ \A d \in Conn : d # c => req'[d] = req[d] /\ response'[d] = response[d] /\ res'[d] = res[d]
            /\ Service!Refusal = IF res'[c] = None THEN FromResponse(response'[c]) ELSE FromRes(res'[c], req'[c])
        BY <3>1, <3>3, <3>4, <4>1
      <4>. QED
        BY <4>2, OneTold
    <3>6. Asked[c].kind = "malformed"
      <4>1. Question(req[c]) = [kind |-> "malformed"]
        BY <2>1, <2>2, RefusedIsMalformed, QuestionOf
      <4>2. Asked[c] = Question(req[c])
        BY DEF Asked
      <4>. DEFINE u == [kind |-> "malformed"]
      <4>3. u.kind = "malformed"
        OBVIOUS
      <4>4. Asked[c] = u
        BY <4>1, <4>2
      <4>. HIDE DEF u
      <4>. QED
        BY <4>3, <4>4
    <3>7. Held' = Held /\ Asked' = Asked
      BY <3>1 DEF Held, CoinsOf, Asked
    <3>. QED
      BY <2>1, <3>1, <3>2, <3>5, <3>6, <3>7, ServiceRefuse
  <2>3. ASSUME Send(c, MessageFor(req[c]))
        PROVE  Stutter
    <3>1. pc' = [pc EXCEPT ![c] = "called"] /\ utxos' = utxos /\ alive' = alive /\ req' = req
          /\ response' = response /\ res' = res
      BY <2>3 DEF Send
    <3>2. Staged' = Staged
      <4>1. "called" \in Pc /\ StageOf("called") = "waiting" /\ StageOf("accepted") = "waiting"
        BY DEF Pc, StageOf
      <4>2. Staged' = [Staged EXCEPT ![c] = "waiting"] /\ Staged[c] = "waiting"
        BY <2>1, <3>1, <4>1, OneStaged
      <4>3. Staged = [d \in Conn |-> Staged[d]]
        BY DEF Staged
      <4>. QED
        BY <4>2, <4>3
    <3>3. Held' = Held /\ Asked' = Asked /\ Told' = Told
      BY <3>1 DEF Held, CoinsOf, Asked, Told
    <3>. QED
      BY <3>1, <3>2, <3>3
  <2>. HIDE DEF Stutter
  <2>. QED
    BY <1>5, <2>2, <2>3, HandleIs
<1>6. ASSUME NEW c \in Conn, Serve(c)
      PROVE  Service!ServiceNext
  <2>1. alive /\ pc[c] = "called" /\ pc' = [pc EXCEPT ![c] = "served"] /\ utxos' = utxos /\ alive' = alive
        /\ req' = req /\ res' = res
    BY <1>6 DEF Serve
  <2>2. req[c] \in Request /\ ~Refused(req[c]) /\ call[c] = MessageFor(req[c]) /\ res[c] = None
        /\ utxos \in SUBSET Output /\ DOMAIN response = Conn
    BY <2>1 DEF GatewayInv, ConnOK
  <2>3. PICK x \in Reply(MessageFor(req[c])) \cup {GrpcError} : response' = [response EXCEPT ![c] = x]
    BY <1>6, <2>2 DEF Serve
  <2>4. FromResponse(x) \in Service!Truthful(Asked[c]) \cup {Service!Failure}
    <3>1. Asked[c] = Question(req[c])
      BY DEF Asked
    <3>. QED
      BY <2>2, <3>1, DecideAll
  <2>5. Staged' = [Staged EXCEPT ![c] = "ready"] /\ Staged[c] = "waiting"
    <3>1. "served" \in Pc /\ StageOf("served") = "ready" /\ StageOf("called") = "waiting"
      BY DEF Pc, StageOf
    <3>. QED
      BY <2>1, <3>1, OneStaged
  <2>6. Told' = [Told EXCEPT ![c] = FromResponse(x)]
    <3>1. /\ \A d \in Conn : d # c => req'[d] = req[d] /\ response'[d] = response[d] /\ res'[d] = res[d]
          /\ FromResponse(x) = IF res'[c] = None THEN FromResponse(response'[c]) ELSE FromRes(res'[c], req'[c])
      BY <2>1, <2>2, <2>3
    <3>. QED
      BY <3>1, OneTold
  <2>7. Held' = Held /\ Asked' = Asked
    BY <2>1 DEF Held, CoinsOf, Asked
  <2>8. Asked[c].kind # "malformed"
    <3>1. ~Malformed(req[c])
      BY <2>2, RefusedIsMalformed
    <3>2. Question(req[c]).kind \in {"unclear", "outpoints", "coins", "balance", "history"}
      BY <2>2, <3>1, RequestType, QuestionOf
    <3>3. Asked[c] = Question(req[c])
      BY DEF Asked
    <3>. QED
      BY <3>2, <3>3
  <2>. QED
    BY <2>1, <2>4, <2>5, <2>6, <2>7, <2>8, ServiceDecide
<1>7. ASSUME NEW c \in Conn, Callback(c)
      PROVE  Service!ServiceNext
  <2>1. alive /\ pc[c] = "served" /\ req[c] \in Request
    BY <1>7, CallbackIs
  <2>2. res[c] = None /\ DOMAIN res = Conn /\ pc \in [Conn -> Pc]
    BY <2>1 DEF GatewayInv, ConnOK
  <2>3. Told[c] = FromResponse(response[c])
    BY <2>2 DEF Told
  <2>4. Staged[c] = "ready"
    BY <2>1 DEF Staged, StageOf
  <2>5. ASSUME NEW b, b # None, End(c, b), FromRes(b, req[c]) = FromResponse(response[c])
        PROVE  Service!ServiceNext
    <3>1. pc' = [pc EXCEPT ![c] = "ended"] /\ res' = [res EXCEPT ![c] = b]
          /\ utxos' = utxos /\ alive' = alive /\ req' = req /\ response' = response
      BY <2>5 DEF End
    <3>2. Staged' = [Staged EXCEPT ![c] = "answered"]
      <4>1. "ended" \in Pc /\ StageOf("ended") = "answered"
        BY DEF Pc, StageOf
      <4>. QED
        BY <3>1, <4>1, OneStaged
    <3>3. Told' = Told
      <4>1. /\ \A d \in Conn : d # c => req'[d] = req[d] /\ response'[d] = response[d] /\ res'[d] = res[d]
            /\ Told[c] = IF res'[c] = None THEN FromResponse(response'[c]) ELSE FromRes(res'[c], req'[c])
        BY <2>2, <2>3, <2>5, <3>1
      <4>2. Told' = [Told EXCEPT ![c] = Told[c]]
        BY <4>1, OneTold
      <4>3. Told = [d \in Conn |-> Told[d]]
        BY DEF Told
      <4>. QED
        BY <4>2, <4>3
    <3>4. Held' = Held /\ Asked' = Asked
      BY <3>1 DEF Held, CoinsOf, Asked
    <3>. QED
      BY <2>1, <2>4, <3>1, <3>2, <3>3, <3>4, ServiceTell
  <2>6. ASSUME Throw, NEW S, S # {}, response[c] = [kind |-> "outputs", outputs |-> S]
        PROVE  Service!ServiceNext
    <3>1. Told[c].kind = "coins" /\ Told[c].coins # {}
      <4>1. Told[c] = CoinList(CoinsOf(S))
        BY <2>3, <2>6, ResponseRead
      <4>2. CoinsOf(S) # {}
        BY <2>6 DEF CoinsOf
      <4>. QED
        BY <4>1, <4>2 DEF CoinList
    <3>2. Staged' = [d \in Conn |-> IF Staged[d] \in {"waiting", "ready"} THEN "lost" ELSE Staged[d]]
      <4>1. pc' = [d \in Conn |-> IF pc[d] \in {"accepted", "called", "served"} THEN "lost" ELSE pc[d]]
        BY <2>6 DEF Throw
      <4>2. \A p \in Pc : StageOf(IF p \in {"accepted", "called", "served"} THEN "lost" ELSE p) =
                              IF StageOf(p) \in {"waiting", "ready"} THEN "lost" ELSE StageOf(p)
        BY DEF Pc, StageOf
      <4>3. \A d \in Conn : pc[d] \in Pc
        BY <2>2
      <4>. QED
        BY <4>1, <4>2, <4>3 DEF Staged
    <3>3. alive' = FALSE /\ Held' = Held /\ Asked' = Asked /\ Told' = Told
      BY <2>6 DEF Throw, Held, CoinsOf, Asked, Told
    <3>. QED
      BY <2>1, <2>4, <3>1, <3>2, <3>3, ServiceEnd
  <2>. QED
    BY <1>7, <2>5, <2>6, CallbackIs
<1>. HIDE DEF Stutter
<1>. QED
  BY <1>0, <1>1, <1>2, <1>3, <1>4, <1>5, <1>6, <1>7 DEF GatewayNext, Advance

-----------------------------------------------------------------------------
\* In every state each connection of the gateway has the message of its own
\* request and a response of the kind it asked for: with the calls of several
\* connections in flight none gets the outputs of another's address.
THEOREM GatewayInvariant == GatewaySpec => []GatewayInv
<1>1. GatewayInit => GatewayInv
  BY GatewayStart
<1>2. GatewayInv /\ [GatewayNext]_gatewayVars => GatewayInv'
  BY GatewayStep
<1>. QED
  BY <1>1, <1>2, PTL DEF GatewaySpec

\* rest/index.js implements RestService: for any number of connections, any
\* requests, outputs, length of a txid and limit, each client is told about the
\* very coins it asked for as they were at one moment since it asked, only what
\* is malformed is refused, and the process ends only over a list of coins.
THEOREM GatewayImplementsService == GatewaySpec => ImplementsService
<1>1. GatewayInit => Service!ServiceInit
  BY RefineStart
<1>2. GatewayInv /\ [GatewayNext]_gatewayVars => [Service!ServiceNext]_(Service!serviceVars)
  BY RefineStep
<1>. QED
  BY <1>1, <1>2, GatewayInvariant, PTL DEF GatewaySpec, ImplementsService, Service!ServiceSpec
=============================================================================
