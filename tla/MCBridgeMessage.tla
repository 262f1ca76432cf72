--------------------------- MODULE MCBridgeMessage ---------------------------
(***************************************************************************)
(* BridgeMessage with words of four bytes and lengths of four bits: every  *)
(* call of up to eight words that starts like a message, and the encodings *)
(* of all small messages.                                                  *)
(***************************************************************************)
EXTENDS BridgeMessage

Contents == {0, 7}
Tails(n) == UNION {[1 .. k -> {0, 1, 5, 7, 9, 13}] : k \in 0 .. n}
Strings(lens) == UNION {[len : {n}, words : [1 .. Words(n) -> Contents]] : n \in lens}
Messages == [account : Strings(1 .. MaxName), force_atomic : BOOLEAN, data : Strings(0 .. 9)]

MCCalls ==
    {[method |-> "bridgeMsgV0", args |-> <<12, 0, 20>> \o tail, encodes |-> <<>>] :
        tail \in Tails(5)}
    \cup {[method |-> method, args |-> <<p1, p2, p3>> \o tail, encodes |-> <<>>] :
        method \in {"bridgeMsgV0", "other"},
        p1 \in {12, 16}, p2 \in {0, 1, 2}, p3 \in {16, 20}, tail \in Tails(3)}
    \cup {[method |-> "bridgeMsgV0", args |-> AbiEncoded(m) \o rest, encodes |-> <<m>>] :
        m \in Messages, rest \in {<<>>, <<0>>, <<5>>}}

=============================================================================
