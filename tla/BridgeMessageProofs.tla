------------------------ MODULE BridgeMessageProofs ------------------------
(***************************************************************************)
(* The decoder of bridge messages agrees with the ABI, for words and       *)
(* lengths of any width and for any calls.                                 *)
(***************************************************************************)
EXTENDS BridgeMessage, SequenceTheorems, TLAPS

-----------------------------------------------------------------------------
\* Words and bytes.

\* The words of a string of at most one word.
LEMMA OneWord ==
    ASSUME NEW n \in Nat, n # 0, n <= WordBytes
    PROVE  Words(n) = 1
<1> DEFINE q == (n + WordBytes - 1) \div WordBytes
           r == (n + WordBytes - 1) % WordBytes
<1>1. WordBytes \in Nat \ {0}
  BY MessageAssumption
<1>2. /\ q \in Int /\ r \in 0 .. WordBytes - 1
      /\ n + WordBytes - 1 = WordBytes * q + r
  BY <1>1
<1> HIDE DEF q, r
<1>3. q = 1
  <2>1. ~(q <= 0)
    BY <1>1, <1>2
  <2>2. ~(q >= 2)
    BY <1>1, <1>2
  <2> QED  BY <1>2, <2>1, <2>2
<1> QED  BY <1>3 DEF Words, q

\* Rounding up in 32 bits loses nothing for a string that fits the memory.
LEMMA PaddedIsWords ==
    ASSUME NEW n \in 0 .. MaxMemory
    PROVE  Padded(n) = Words(n) /\ Words(n) \in Nat
<1> DEFINE b == n + WordBytes - 1
<1>1. /\ WordBytes \in Nat \ {0} /\ LenWord \in Nat \ {0}
      /\ b \in 0 .. LenWord - 1
  BY MessageAssumption
<1>2. b % LenWord = b
  BY <1>1
<1>3. b \div WordBytes \in Nat
  BY <1>1
<1> QED  BY <1>2, <1>3 DEF Padded, Words

\* The word to which an offset of k words points.
LEMMA AtWord ==
    ASSUME NEW k \in Nat
    PROVE  AbiAt(k * WordBytes) = k + 1
<1> DEFINE q == (k * WordBytes) \div WordBytes
           r == (k * WordBytes) % WordBytes
<1>1. WordBytes \in Nat \ {0}
  BY MessageAssumption
<1>2. q \in Int /\ r \in 0 .. WordBytes - 1 /\ k * WordBytes = WordBytes * q + r
  BY <1>1
<1> HIDE DEF q, r
<1>3. q = k
  <2>1. (k - q) * WordBytes = r
    BY <1>1, <1>2
  <2>2. ~(k - q >= 1)
    BY <1>1, <1>2, <2>1
  <2>3. ~(k - q <= -1)
    BY <1>1, <1>2, <2>1
  <2> QED  BY <1>2, <2>2, <2>3
<1> QED  BY <1>3 DEF AbiAt, q

-----------------------------------------------------------------------------
\* Where the name is one word, the data's length is the sixth word, which is
\* also where the constant offset of the third argument points.
LEMMA NameOfOneWord ==
    ASSUME NEW ds \in Seq(Nat), Len(ds) >= 4, ds[4] # 0, ds[4] <= MaxName, ds[4] <= MaxMemory
    PROVE  Padded(ds[4]) = 1 /\ Words(ds[4]) = 1 /\ DataAt(ds) = 6
<1>1. ds[4] \in Nat
  OBVIOUS
<1>2. ds[4] <= WordBytes /\ ds[4] \in 0 .. MaxMemory
  BY <1>1, MessageAssumption
<1>3. Words(ds[4]) = 1
  BY <1>1, <1>2, OneWord, Zenon
<1>4. Padded(ds[4]) = Words(ds[4])
  BY <1>2, PaddedIsWords, Zenon
<1> QED  BY <1>3, <1>4 DEF DataAt

\* What the decoder accepts with such a name is what the ABI says.
LEMMA DecodedIsAbi ==
    ASSUME NEW ds \in Seq(Nat), CanDecode(ds), ds[4] # 0, ds[4] <= MaxName
    PROVE  /\ AbiHas(ds, ds[1]) /\ AbiHas(ds, ds[3])
           /\ decode_message_v0(ds) = AbiDecoded(ds)
<1>1. /\ ds[1] = 3 * WordBytes /\ ds[3] = 5 * WordBytes
      /\ CanReadString(ds, 4) /\ CanReadString(ds, DataAt(ds))
  BY DEF CanDecode
<1>2. Len(ds) >= 4 /\ ds[4] <= MaxMemory /\ 4 + Padded(ds[4]) <= Len(ds)
  BY <1>1 DEF CanReadString
<1>3. Padded(ds[4]) = 1 /\ Words(ds[4]) = 1 /\ DataAt(ds) = 6
  BY <1>2, NameOfOneWord, Zenon
<1>4. 6 <= Len(ds) /\ ds[6] <= MaxMemory /\ 6 + Padded(ds[6]) <= Len(ds)
  BY <1>1, <1>3 DEF CanReadString
<1>5. ds[6] \in 0 .. MaxMemory
  BY <1>4, MessageAssumption
<1>6. Padded(ds[6]) = Words(ds[6])
  BY <1>5, PaddedIsWords, Zenon
<1>7. AbiAt(ds[1]) = 4 /\ AbiAt(ds[3]) = 6
  <2>1. 3 \in Nat /\ 5 \in Nat /\ 3 + 1 = 4 /\ 5 + 1 = 6
    OBVIOUS
  <2> QED  BY <1>1, <2>1, AtWord, Zenon
<1>8. AbiHas(ds, ds[1]) /\ AbiHas(ds, ds[3])
  BY <1>2, <1>3, <1>4, <1>6, <1>7 DEF AbiHas
<1>9. StringAt(ds, 4) = AbiString(ds, ds[1]) /\ StringAt(ds, DataAt(ds)) = AbiString(ds, ds[3])
  BY <1>3, <1>6, <1>7, Zenon DEF StringAt, AbiString
<1> QED  BY <1>8, <1>9, Zenon DEF decode_message_v0, AbiDecoded

\* A message is handed to its receiver only if an ABI decoder finds the same
\* message in the call: the constant offsets of decode_message_v0 and the
\* length check of get_account_as_name together do the work of following the
\* offsets.
THEOREM ReceiverGetsTheMessage == Spec => []ReceivedIsAbi
<1> DEFINE Inv == call \in Calls /\ ReceivedIsAbi
<1>1. Init => Inv
  BY DEF Init, ReceivedIsAbi
<1>2. Inv /\ [process_filtered_messages]_<<call, received>> => Inv'
  <2> SUFFICES ASSUME Inv, process_filtered_messages PROVE Inv'
    BY DEF ReceivedIsAbi
  <2> DEFINE ds == call.args
  <2>1. ds \in Seq(Nat)
    BY CallsAssumption
  <2>2. /\ CanDecode(ds) /\ received' = <<decode_message_v0(ds)>> /\ call' = call
        /\ ds[4] <= MaxName /\ ds[4] > 0
    BY DEF process_filtered_messages, NameLength, decode_message_v0, StringAt
  <2>3. ds[4] # 0
    BY <2>2
  <2>4. /\ AbiHas(ds, ds[1]) /\ AbiHas(ds, ds[3])
        /\ decode_message_v0(ds) = AbiDecoded(ds)
    BY <2>1, <2>2, <2>3, DecodedIsAbi, Zenon
  <2> QED  BY <2>2, <2>4, Zenon DEF ReceivedIsAbi
<1>3. Inv => ReceivedIsAbi
  OBVIOUS
<1> QED  BY <1>1, <1>2, <1>3, PTL DEF Spec

-----------------------------------------------------------------------------
\* The words of two sequences, one after the other.
LEMMA ConcatWords ==
    ASSUME NEW s \in Seq(Nat), NEW t \in Seq(Nat)
    PROVE  /\ s \o t \in Seq(Nat) /\ Len(s \o t) = Len(s) + Len(t)
           /\ \A i \in 1 .. Len(s) : (s \o t)[i] = s[i]
           /\ \A i \in 1 .. Len(t) : (s \o t)[Len(s) + i] = t[i]
<1>1. /\ s \o t \in Seq(Nat) /\ Len(s \o t) = Len(s) + Len(t)
      /\ \A i \in 1 .. Len(s) + Len(t) :
            (s \o t)[i] = IF i <= Len(s) THEN s[i] ELSE t[i - Len(s)]
  BY ConcatProperties, Zenon
<1>2. Len(s) \in Nat /\ Len(t) \in Nat
  OBVIOUS
<1> DEFINE u == s \o t
<1> HIDE DEF u
<1>3. /\ \A i \in 1 .. Len(s) + Len(t) : u[i] = IF i <= Len(s) THEN s[i] ELSE t[i - Len(s)]
  BY <1>1 DEF u
<1>4. ASSUME NEW i \in 1 .. Len(s) PROVE u[i] = s[i]
  BY <1>2, <1>3, SMTT(30)
<1>5. ASSUME NEW i \in 1 .. Len(t) PROVE u[Len(s) + i] = t[i]
  <2>1. Len(s) + i \in 1 .. Len(s) + Len(t) /\ ~(Len(s) + i <= Len(s)) /\ Len(s) + i - Len(s) = i
    BY <1>2
  <2> QED  BY <1>3, <2>1
<1> QED  BY <1>1, <1>4, <1>5, Zenon DEF u

\* A head of four words, one word, another one, and the rest.
Joined(h, a, l, d) == h \o a \o l \o d

Consists(e, h, a, l, d) ==
    /\ e \in Seq(Nat) /\ Len(e) = 6 + Len(d)
    /\ e[1] = h[1] /\ e[2] = h[2] /\ e[3] = h[3] /\ e[4] = h[4]
    /\ e[5] = a[1] /\ e[6] = l[1] /\ \A i \in 1 .. Len(d) : e[6 + i] = d[i]

LEMMA FourParts ==
    ASSUME NEW h \in Seq(Nat), NEW a \in Seq(Nat), NEW l \in Seq(Nat), NEW d \in Seq(Nat),
           Len(h) = 4, Len(a) = 1, Len(l) = 1
    PROVE  Consists(Joined(h, a, l, d), h, a, l, d)
<1> DEFINE u == h \o a
           v == u \o l
           e == Joined(h, a, l, d)
<1>1. /\ u \in Seq(Nat) /\ Len(u) = Len(h) + Len(a)
      /\ \A i \in 1 .. Len(h) : u[i] = h[i]
      /\ \A i \in 1 .. Len(a) : u[Len(h) + i] = a[i]
  BY ConcatWords, Zenon
<1> HIDE DEF u
<1>2. /\ v \in Seq(Nat) /\ Len(v) = Len(u) + Len(l)
      /\ \A i \in 1 .. Len(u) : v[i] = u[i]
      /\ \A i \in 1 .. Len(l) : v[Len(u) + i] = l[i]
  BY <1>1, ConcatWords, Zenon
<1> HIDE DEF v
<1>3. e = v \o d
  BY DEF Joined, u, v
<1> HIDE DEF e
<1>4. /\ e \in Seq(Nat) /\ Len(e) = Len(v) + Len(d)
      /\ \A i \in 1 .. Len(v) : e[i] = v[i]
      /\ \A i \in 1 .. Len(d) : e[Len(v) + i] = d[i]
  <2>1. /\ v \o d \in Seq(Nat) /\ Len(v \o d) = Len(v) + Len(d)
        /\ \A i \in 1 .. Len(v) : (v \o d)[i] = v[i]
        /\ \A i \in 1 .. Len(d) : (v \o d)[Len(v) + i] = d[i]
    BY <1>2, ConcatWords, Zenon
  <2> QED  BY <1>3, <2>1, Zenon
<1>5. Len(u) = 5 /\ Len(v) = 6
  BY <1>1, <1>2
<1>6. u[1] = h[1] /\ u[2] = h[2] /\ u[3] = h[3] /\ u[4] = h[4] /\ u[5] = a[1]
  BY <1>1
<1>7. v[1] = u[1] /\ v[2] = u[2] /\ v[3] = u[3] /\ v[4] = u[4] /\ v[5] = u[5] /\ v[6] = l[1]
  BY <1>2, <1>5
<1>8. e[1] = v[1] /\ e[2] = v[2] /\ e[3] = v[3] /\ e[4] = v[4] /\ e[5] = v[5] /\ e[6] = v[6]
  <2>1. {1, 2, 3, 4, 5, 6} \subseteq 1 .. Len(v)
    BY <1>5
  <2> QED  BY <1>4, <2>1, Zenon
<1> QED  BY <1>4, <1>5, <1>6, <1>7, <1>8, Zenon DEF e, Consists

\* The words of an encoded message: the head, the name's length and its one
\* word, the data's length and its words.
LEMMA EncodedWords ==
    ASSUME NEW msg, IsMessage(msg), NEW e, e = AbiEncoded(msg)
    PROVE  /\ e \in Seq(Nat) /\ Len(e) = 6 + Len(msg.data.words)
           /\ e[1] = 3 * WordBytes /\ e[2] = IF msg.force_atomic THEN 1 ELSE 0
           /\ e[3] = 5 * WordBytes /\ e[4] = msg.account.len
           /\ Len(msg.account.words) = 1 /\ msg.account.words[1] = e[5]
           /\ e[6] = msg.data.len
           /\ \A i \in 1 .. Len(msg.data.words) : e[6 + i] = msg.data.words[i]
<1> DEFINE a == msg.account.words
           d == msg.data.words
           flag == IF msg.force_atomic THEN 1 ELSE 0
           h == <<3 * WordBytes, flag, 5 * WordBytes, msg.account.len>>
           l == <<msg.data.len>>
<1>1. /\ msg.account.len \in Nat /\ msg.account.len # 0 /\ msg.account.len <= WordBytes
      /\ a \in Seq(Nat) /\ Len(a) = Words(msg.account.len)
      /\ d \in Seq(Nat) /\ msg.data.len \in Nat
  BY MessageAssumption DEF IsMessage, IsText
<1>2. Words(msg.account.len) = 1
  BY <1>1, OneWord, Zenon
<1>3. e = Joined(h, a, l, d)
  <2>1. (4 + 1) * WordBytes = 5 * WordBytes
    BY MessageAssumption
  <2> QED  BY <1>2, <2>1, Zenon DEF AbiEncoded, Joined
<1>4. h \in Seq(Nat) /\ l \in Seq(Nat) /\ Len(h) = 4 /\ Len(l) = 1
  BY <1>1, MessageAssumption
<1>5. /\ h[1] = 3 * WordBytes /\ h[2] = flag /\ h[3] = 5 * WordBytes /\ h[4] = msg.account.len
      /\ l[1] = msg.data.len
  OBVIOUS
<1> HIDE DEF h, l, a, d, flag
<1>6. Len(a) = 1
  BY <1>1, <1>2
<1>7. Consists(Joined(h, a, l, d), h, a, l, d)
  <2>1. /\ h \in Seq(Nat) /\ a \in Seq(Nat) /\ l \in Seq(Nat) /\ d \in Seq(Nat)
        /\ Len(h) = 4 /\ Len(a) = 1 /\ Len(l) = 1
    BY <1>1, <1>4, <1>6
  <2> QED  BY <2>1, FourParts, Zenon
<1>8. Consists(e, h, a, l, d)
  BY <1>3, <1>7
<1> QED  BY <1>5, <1>6, <1>8, Zenon DEF Consists, a, d, flag

\* A prefix keeps its place.
LEMMA PrefixWords ==
    ASSUME NEW s \in Seq(Nat), NEW t \in Seq(Nat), IsPrefix(s, t)
    PROVE  Len(s) <= Len(t) /\ \A i \in 1 .. Len(s) : t[i] = s[i]
<1>1. Len(s) <= Len(t) /\ SubSeq(s, 1, Len(s)) = SubSeq(t, 1, Len(s))
  BY DEF IsPrefix
<1>2. ASSUME NEW i \in 1 .. Len(s) PROVE t[i] = s[i]
  <2>1. SubSeq(s, 1, Len(s))[i] = s[i] /\ SubSeq(t, 1, Len(s))[i] = t[i]
    BY <1>1
  <2> QED  BY <1>1, <2>1
<1> QED  BY <1>1, <1>2

\* Reading the words after word i gives d if they are those of d.
LEMMA WordsRead ==
    ASSUME NEW ds \in Seq(Nat), NEW i \in Nat, NEW d \in Seq(Nat), i + Len(d) <= Len(ds),
           \A j \in 1 .. Len(d) : ds[i + j] = d[j]
    PROVE  SubSeq(ds, i + 1, i + Len(d)) = d
<1> DEFINE m == i + 1
           n == i + Len(d)
           w == SubSeq(ds, m, n)
<1>1. /\ m \in Nat \ {0} /\ n \in Nat /\ Len(d) \in Nat /\ Len(ds) \in Nat
      /\ n <= Len(ds) /\ n - m + 1 = Len(d)
  OBVIOUS
<1>2. ASSUME NEW j \in 1 .. Len(d) PROVE m + j - 1 = i + j /\ j \in 1 .. n - m + 1
  BY <1>1
<1> HIDE DEF m, n
<1>3. w \in Seq(Nat)
  BY <1>1, SMTT(30)
<1>4. Len(w) = n - m + 1 /\ \A j \in 1 .. n - m + 1 : w[j] = ds[m + j - 1]
  BY <1>1
<1> HIDE DEF w
<1>5. Len(w) = Len(d)
  BY <1>1, <1>4
<1>6. ASSUME NEW j \in 1 .. Len(d) PROVE w[j] = d[j]
  BY <1>2, <1>4, Zenon
<1>7. w = d
  BY <1>3, <1>5, <1>6, SeqEqual, Zenon
<1> QED  BY <1>7, Zenon DEF w, m, n

\* The decoder reads back every message from an encoding, whatever follows.
LEMMA DecodesEncoded ==
    ASSUME NEW msg, IsMessage(msg), NEW ds \in Seq(Nat), IsPrefix(AbiEncoded(msg), ds)
    PROVE  CanDecode(ds) /\ decode_message_v0(ds) = msg
<1> DEFINE e == AbiEncoded(msg)
           d == msg.data.words
           n == Len(msg.data.words)
<1>1. /\ e \in Seq(Nat) /\ Len(e) = 6 + n
      /\ e[1] = 3 * WordBytes /\ e[2] = IF msg.force_atomic THEN 1 ELSE 0
      /\ e[3] = 5 * WordBytes /\ e[4] = msg.account.len
      /\ Len(msg.account.words) = 1 /\ msg.account.words[1] = e[5]
      /\ e[6] = msg.data.len
      /\ \A i \in 1 .. n : e[6 + i] = d[i]
  BY EncodedWords, Zenon
<1>2. Len(e) <= Len(ds) /\ \A i \in 1 .. Len(e) : ds[i] = e[i]
  BY <1>1, PrefixWords, Zenon
<1>3. /\ msg = [account |-> msg.account, force_atomic |-> msg.force_atomic, data |-> msg.data]
      /\ msg.account = [len |-> msg.account.len, words |-> msg.account.words]
      /\ msg.data = [len |-> msg.data.len, words |-> d]
      /\ msg.force_atomic \in BOOLEAN
      /\ msg.account.len \in 0 .. MaxName /\ msg.account.len # 0
      /\ msg.account.words \in Seq(Nat)
      /\ msg.data.len \in 0 .. MaxMemory /\ d \in Seq(Nat) /\ n = Words(msg.data.len)
  BY DEF IsMessage, IsText
<1>4. n \in Nat
  BY <1>3, SMTT(30)
<1> HIDE DEF e, d, n
<1>5. Len(ds) \in Nat /\ 6 + n <= Len(ds)
  BY <1>1, <1>2, <1>4
<1>6. {1, 2, 3, 4, 5, 6} \subseteq 1 .. Len(e)
  BY <1>1, <1>4, SMTT(30)
<1>7. /\ ds[1] = 3 * WordBytes /\ ds[2] = (IF msg.force_atomic THEN 1 ELSE 0)
      /\ ds[3] = 5 * WordBytes /\ ds[4] = msg.account.len
      /\ ds[5] = msg.account.words[1] /\ ds[6] = msg.data.len
  BY <1>1, <1>2, <1>6, Zenon
<1>8. ASSUME NEW i \in 1 .. n PROVE ds[6 + i] = d[i]
  <2>1. 6 + i \in 1 .. Len(e)
    BY <1>1, <1>4
  <2> QED  BY <1>1, <1>2, <2>1, Zenon
<1>9. /\ ds[4] \in Nat /\ ds[4] # 0 /\ ds[4] <= MaxName /\ ds[4] <= MaxMemory
      /\ ds[6] \in 0 .. MaxMemory
  BY <1>3, <1>7, MessageAssumption, SMTT(30)
<1>10. n = Padded(ds[6])
  BY <1>3, <1>7, <1>9, PaddedIsWords, Zenon
<1>11. Len(ds) >= 6 /\ Len(ds) >= 4
  BY <1>4, <1>5
<1>12. Padded(ds[4]) = 1 /\ DataAt(ds) = 6
  BY <1>9, <1>11, NameOfOneWord, Zenon
<1>13. CanReadString(ds, 4) /\ CanReadString(ds, 6)
  <2>1. 4 <= Len(ds) /\ 4 + 1 <= Len(ds) /\ 6 <= Len(ds) /\ 6 + n <= Len(ds)
    BY <1>4, <1>5, SMTT(30)
  <2>2. MaxMemory \in Nat /\ LenWord \in Nat /\ MaxMemory < LenWord - 1
    BY MessageAssumption, SMTT(30)
  <2>3. ds[4] < LenWord - 1 /\ ds[6] < LenWord - 1 /\ ds[6] <= MaxMemory
    BY <1>9, <2>2, SMTT(30)
  <2> QED  BY <1>9, <1>10, <1>12, <2>1, <2>3, Zenon DEF CanReadString
<1>14. CanDecode(ds)
  BY <1>3, <1>7, <1>11, <1>12, <1>13 DEF CanDecode
<1>15. SubSeq(ds, 4 + 1, 4 + 1) = msg.account.words
  <2>1. /\ Len(msg.account.words) = 1 /\ 4 \in Nat /\ 4 + 1 <= Len(ds)
        /\ \A j \in 1 .. 1 : ds[4 + j] = msg.account.words[j]
    BY <1>1, <1>5, <1>7, <1>11
  <2> QED  BY <1>3, <2>1, WordsRead, Zenon
<1>16. SubSeq(ds, 6 + 1, 6 + n) = d
  <2>1. Len(d) = n /\ 6 \in Nat
    BY DEF d, n
  <2> QED  BY <1>3, <1>5, <1>8, <2>1, WordsRead, Zenon
<1>17. StringAt(ds, 4) = msg.account
  BY <1>3, <1>7, <1>12, <1>15, Zenon DEF StringAt
<1>18. StringAt(ds, DataAt(ds)) = msg.data
  BY <1>3, <1>7, <1>10, <1>12, <1>16, Zenon DEF StringAt
<1>19. (ds[2] = 1) = msg.force_atomic
  BY <1>3, <1>7
<1>20. decode_message_v0(ds) = msg
  BY <1>3, <1>17, <1>18, <1>19, Zenon DEF decode_message_v0
<1> QED  BY <1>14, <1>20

\* No message that a compiler encodes is refused or misread by the decoder.
THEOREM EncodingsAreRead == Spec => []EncodedIsDecoded
<1>1. Init => call \in Calls
  BY DEF Init
<1>2. call \in Calls /\ [process_filtered_messages]_<<call, received>> => (call \in Calls)'
  BY DEF process_filtered_messages
<1>3. call \in Calls => EncodedIsDecoded
  <2> SUFFICES ASSUME call \in Calls, NEW m \in Range(call.encodes)
               PROVE  CanDecode(call.args) /\ decode_message_v0(call.args) = m
    BY DEF EncodedIsDecoded
  <2>1. call.args \in Seq(Nat) /\ IsMessage(m) /\ IsPrefix(AbiEncoded(m), call.args)
    BY CallsAssumption, Zenon
  <2> QED  BY <2>1, DecodesEncoded, Zenon
<1> QED  BY <1>1, <1>2, <1>3, PTL DEF Spec

=============================================================================
