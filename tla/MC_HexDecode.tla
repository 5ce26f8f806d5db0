---------------------------- MODULE MC_HexDecode ----------------------------
\* Runs of two hex digits of different values and one other byte.
EXTENDS HexDecode, TLC

\* The loops of rtf_object_process written as they stand: NextHex(in, i) is
\* the first index from i on that holds a hex digit (0 if none), and
\* LoopFrom the for loop from index i with the bytes o decoded so far.
NextHex(in, i) ==
    LET S == {k \in i..Len(in) : isxdigit(in[k])}
    IN IF S = {} THEN 0 ELSE CHOOSE k \in S : \A m \in S : k <= m
RECURSIVE LoopFrom(_, _, _)
LoopFrom(in, i, o) ==
    LET hi == NextHex(in, i)
        lo == NextHex(in, hi + 1)
    IN  IF hi = 0 THEN <<o, FALSE, 0>>
        ELSE IF lo = 0 THEN <<o, TRUE, hextable(in[hi]) * 16>>
        ELSE LoopFrom(in, lo + 1, Append(o, hextable(in[hi]) * 16 + hextable(in[lo])))
LoopRun(in, hp, p) ==
    IF ~hp THEN LoopFrom(in, 1, <<>>)
    ELSE LET k == NextHex(in, 1)
         IN IF k = 0 THEN <<<<>>, TRUE, p>>
            ELSE LoopFrom(in, k + 1, <<p + hextable(in[k])>>)

\* The inputs of the bounded cross-checks below.
MCRuns == UNION {[1..n -> Chars] : n \in 0..ChunkMax}

\* The byte automaton Decode gives, on every run and stashed nibble, the
\* result of the loops as written, and HexOnly is SelectSeq(s, isxdigit).
ASSUME \A in \in MCRuns, hp \in BOOLEAN, d \in {"1", "F"} :
          LET p == IF hp THEN hextable(d) * 16 ELSE 0
          IN  Decode(<<<<>>, hp, p>>, in) = LoopRun(in, hp, p)
ASSUME \A s \in MCRuns : HexOnly(s) = SelectSeq(s, isxdigit)
=============================================================================
