---------------------------- MODULE BridgeMessage ----------------------------
(***************************************************************************)
(* The decoder of bridge messages (bridge.hpp): what a contract sends to   *)
(* the reserved address, ABI-encoded as bridgeMsgV0(string,bool,bytes).    *)
(* The decoder reads the arguments one after the other and compares the    *)
(* offsets the sender gave with two constants; an ABI decoder follows      *)
(* them.  Arguments are words; a string is its length in bytes and the     *)
(* words that hold it.                                                     *)
(***************************************************************************)
EXTENDS Integers, SequencesExt

CONSTANTS
    WordBytes,          \* bytes in a word, 32
    LenWord,            \* 2^32, the width of a length
    MaxMemory,          \* bytes that a string may have: the contract's memory
    MaxName,            \* bytes in an account name, 13
    Registered,         \* words that hold the name of a registered receiver
    Calls               \* inputs: what is sent, and the message it encodes if any

ASSUME MessageAssumption ==
    /\ WordBytes \in Nat \ {0} /\ LenWord \in Nat /\ MaxMemory \in Nat
    /\ MaxName \in 0 .. WordBytes
    /\ MaxName <= MaxMemory /\ MaxMemory < LenWord - WordBytes

VARIABLES
    call,               \* the message that was sent
    received            \* the message handed to the receiver, if any

Init == call \in Calls /\ received = <<>>

-----------------------------------------------------------------------------
\* The datastream ds is the rest of the words from position i on; reading past
\* its end fails a check.

PaddedDown(n) == n \div WordBytes            \* mutant: a part of a word is no word

\* (len + 31) / 32 * 32, in words; the sum is computed in 32 bits.
Padded(n) == ((n + WordBytes - 1) % LenWord) \div WordBytes

\* get_length, resize and read of a string whose length is word i.
CanReadString(ds, i) ==
    /\ i <= Len(ds)
    /\ ds[i] < LenWord - 1                               \* "invalid length"
    /\ ds[i] <= MaxMemory
    /\ i + Padded(ds[i]) <= Len(ds)

StringAt(ds, i) == [len |-> ds[i], words |-> SubSeq(ds, i + 1, i + Padded(ds[i]))]

DataAt(ds) == 5 + Padded(ds[4])

\* decode_message_v0
CanDecode(ds) ==
    /\ Len(ds) >= 3
    /\ ds[1] = 3 * WordBytes                             \* "invalid p1 offset"
    /\ ds[2] <= 1                                        \* "invalid p2 value"
    /\ ds[3] = 5 * WordBytes                             \* "invalid p3 offset"
    /\ CanReadString(ds, 4)
    /\ CanReadString(ds, DataAt(ds))

decode_message_v0(ds) ==
    [account |-> StringAt(ds, 4), force_atomic |-> ds[2] = 1, data |-> StringAt(ds, DataAt(ds))]

AnyLength(account) == TRUE                   \* mutant: only the first word is looked at

\* get_account_as_name: a string that is no name, or not the one its name prints
\* as, fails a check.
NameLength(account) == account.len <= MaxName

\* The start of process_filtered_messages.  The rest, with the fee and the
\* flag of the receiver, is in Ledger.
process_filtered_messages ==
    /\ received = <<>>
    /\ call.method = "bridgeMsgV0"                       \* "unable to decode bridge message"
    /\ CanDecode(call.args)
    /\ LET msg == decode_message_v0(call.args)
       IN  /\ NameLength(msg.account)
           /\ msg.account.len > 0 /\ Head(msg.account.words) \in Registered
           /\ received' = <<msg>>
    /\ UNCHANGED call

Spec == Init /\ [][process_filtered_messages]_<<call, received>>

-----------------------------------------------------------------------------
\* What the ABI says: the first and the third argument are where their offsets
\* point, counted in bytes from the first word.

Words(n) == (n + WordBytes - 1) \div WordBytes

AbiAt(offset) == offset \div WordBytes + 1

AbiHas(args, offset) ==
    AbiAt(offset) <= Len(args) /\ AbiAt(offset) + Words(args[AbiAt(offset)]) <= Len(args)

AbiString(args, offset) ==
    LET i == AbiAt(offset)
    IN  [len |-> args[i], words |-> SubSeq(args, i + 1, i + Words(args[i]))]

AbiDecoded(args) ==
    [account |-> AbiString(args, args[1]), force_atomic |-> args[2] = 1,
     data |-> AbiString(args, args[3])]

\* The encoding a compiler makes of a message.
AbiEncoded(msg) ==
    <<3 * WordBytes, IF msg.force_atomic THEN 1 ELSE 0, (4 + Words(msg.account.len)) * WordBytes,
      msg.account.len>> \o msg.account.words \o <<msg.data.len>> \o msg.data.words

\* A string of at most max bytes, in as many words as it needs.
IsText(text, max) ==
    /\ text \in [len : 0 .. max, words : Seq(Nat)]
    /\ Len(text.words) = Words(text.len)

\* A message whose receiver may be a name and whose data fits the memory.
IsMessage(msg) ==
    /\ msg = [account |-> msg.account, force_atomic |-> msg.force_atomic, data |-> msg.data]
    /\ IsText(msg.account, MaxName) /\ msg.account.len # 0
    /\ msg.force_atomic \in BOOLEAN
    /\ IsText(msg.data, MaxMemory)

\* Any words may be sent.  A call that is said to encode a message starts with
\* its encoding.
ASSUME CallsAssumption ==
    \A c \in Calls :
        /\ c.args \in Seq(Nat)
        /\ \A msg \in Range(c.encodes) : IsMessage(msg) /\ IsPrefix(AbiEncoded(msg), c.args)

-----------------------------------------------------------------------------
\* Properties.

\* A message that reaches its receiver is the one an ABI decoder finds in the
\* call, although the decoder never follows an offset: what makes the constants
\* right is that the name, checked only after the data was read, fits one word.
ReceivedIsAbi ==
    received # <<>> =>
        /\ AbiHas(call.args, call.args[1]) /\ AbiHas(call.args, call.args[3])
        /\ received = <<AbiDecoded(call.args)>>

\* No message that a compiler encodes is refused by the decoder or misread,
\* whatever follows it in the call data.
EncodedIsDecoded ==
    \A m \in Range(call.encodes) :
        CanDecode(call.args) /\ decode_message_v0(call.args) = m

=============================================================================
