----------------------------- MODULE HexDecode ------------------------------
(***************************************************************************)
(* The hex decoding at the start of rtf_object_process (libclamav/rtf.c): *)
(* each run of text the parser hands over is filtered to its hex digits,   *)
(* decoded two digits to a byte, and a high nibble left without its low    *)
(* one at the end of the run is kept in data->partial for the next run.    *)
(***************************************************************************)
EXTENDS Naturals, Sequences, FiniteSets

CONSTANTS
    Chars,      \* the input bytes modelled (hex digits and others)
    ChunkMax,   \* the longest run handed to one rtf_object_process call
    MaxLen      \* bound on the total number of bytes fed

\* The 22 hex digits and their hextable[] values; every other byte is 0 in
\* the table and never looked up (the isxdigit gate).
HexDigits == <<"0", "1", "2", "3", "4", "5", "6", "7", "8", "9",
               "a", "b", "c", "d", "e", "f", "A", "B", "C", "D", "E", "F">>
isxdigit(c) == \E k \in 1..22 : HexDigits[k] = c
hextable(c) == LET k == CHOOSE k \in 1..22 : HexDigits[k] = c
               IN IF k <= 16 THEN k - 1 ELSE k - 7

ASSUME HexAssumption ==
    /\ IsFiniteSet(Chars) /\ ChunkMax \in Nat \ {0} /\ MaxLen \in Nat

VARIABLES
    has_partial,  \* data->has_partial
    partial,      \* data->partial: a high nibble already shifted left by 4
    out,          \* every byte decoded so far, in order (the outdata of all calls)
    fed           \* history: every input byte handed over so far

vars == <<has_partial, partial, out, fed>>

\* The decoder's state <<outdata, has_partial, partial>>.
DState == Seq(Nat) \X BOOLEAN \X Nat

(***************************************************************************)
(* One input byte of the three loops of rtf_object_process.  With no high *)
(* nibble pending (the for loop) a non-hex byte is passed over and a hex   *)
(* digit becomes the high nibble `byte`; with one pending (data->partial   *)
(* in the first loop, `byte` in the inner while) a non-hex byte is passed  *)
(* over and a hex digit completes the byte, appended to outdata, and       *)
(* clears has_partial.  `byte | low` of disjoint nibbles is their sum.     *)
(* The partial left behind once has_partial is 0 is never read again and   *)
(* is kept as 0.                                                           *)
(***************************************************************************)
Step(st, c) ==
    IF ~isxdigit(c) THEN st
    ELSE IF st[2] THEN <<Append(st[1], st[3] + hextable(c)), FALSE, 0>>
    ELSE <<st[1], TRUE, hextable(c) * 16>>

\* The loops over input[0..len-1] from the state st: Scan[n][s][st] steps
\* through the n bytes of s in order.
Scan[n \in Nat] ==
    IF n = 0 THEN [s \in Seq(Chars) |-> [st \in DState |-> st]]
    ELSE [s \in Seq(Chars) |-> [st \in DState |->
            Step(Scan[n - 1][SubSeq(s, 1, Len(s) - 1)][st], s[Len(s)])]]
Decode(st, s) == Scan[Len(s)][s][st]

\* A decoding that ignores the stashed nibble.
DecodeRunFresh(in) == Decode(<<<<>>, FALSE, 0>>, in)

(***************************************************************************)
(* The whole decoding of one run: from the stashed nibble if there is one. *)
(* A run that ends while a high nibble is pending leaves it in             *)
(* data->partial with has_partial set (the break at i == len, or the       *)
(* return 0 of a run with no hex digit at all).                            *)
(***************************************************************************)
DecodeRun(in) == Decode(<<<<>>, has_partial, partial>>, in)

Init == has_partial = FALSE /\ partial = 0 /\ out = <<>> /\ fed = <<>>

\* rtf_object_process(state, input, len) with len > 0.
Process ==
    /\ Len(fed) < MaxLen
    /\ \E n \in 1..ChunkMax, in \in [1..ChunkMax -> Chars] :
          LET run == SubSeq(in, 1, n)
              r == DecodeRun(run)
          IN  /\ Len(fed) + n <= MaxLen
              /\ out' = out \o r[1]
              /\ has_partial' = r[2] /\ partial' = r[3]
              /\ fed' = fed \o run

Next == Process

Spec == Init /\ [][Next]_vars

-----------------------------------------------------------------------------
\* The reference decoding: the hex digits of s (SelectSeq(s, isxdigit),
\* written as a recursion on the length), paired.
HexF[n \in Nat] ==
    IF n = 0 THEN [s \in Seq(Chars) |-> <<>>]
    ELSE [s \in Seq(Chars) |->
            LET h == HexF[n - 1][SubSeq(s, 1, Len(s) - 1)]
            IN  IF s = <<>> THEN <<>>
                ELSE IF isxdigit(s[Len(s)]) THEN Append(h, s[Len(s)]) ELSE h]
HexOnly(s) == HexF[Len(s)][s]
Reference(s) ==
    LET h == HexOnly(s)
    IN [k \in 1..(Len(h) \div 2) |-> hextable(h[2 * k - 1]) * 16 + hextable(h[2 * k])]

(***************************************************************************)
(* Hex-decode round trip: however the text is cut into runs (by braces,    *)
(* control words or fmap chunk ends), the bytes decoded so far are the     *)
(* hex decoding of everything fed, and a nibble is pending exactly when an *)
(* odd number of hex digits has been fed, holding the last of them.        *)
(***************************************************************************)
RoundTrip ==
    LET h == HexOnly(fed)
    IN  /\ out = Reference(fed)
        /\ has_partial = (Len(h) % 2 = 1)
        /\ has_partial => partial = hextable(h[Len(h)]) * 16
=============================================================================
