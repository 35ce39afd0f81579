-------------------------- MODULE MCLiteBtcOracle --------------------------
(***************************************************************************)
(* Small instances of LiteBtcOracle.  Heights go from 0 to 12 and are      *)
(* written in decimal, so that 9 and 10 have numerals of different length  *)
(* and a torn write shows; 12 is the largest "uint32".                     *)
(***************************************************************************)
EXTENDS LiteBtcOracle, FiniteSets

MCMaxU32 == 12

NumeralLength(n) == IF n < 10 THEN 1 ELSE 2

\* Decimal numeral of new over the front of that of old, then uint32(height).
MCOverwrite ==
    [p \in (0 .. MCMaxU32) \X (0 .. MCMaxU32) |->
        LET tail == NumeralLength(p[1]) - NumeralLength(p[2])
        IN  IF tail <= 0 THEN p[2]
            ELSE (p[2] * 10^tail + (p[1] % 10^tail)) % (MCMaxU32 + 1)]

MCOperatorHeights == {7, 10, 12}

\* Bound: an oracle that is astray is followed until the contract has more than
\* AstrayHeaders headers.
AstrayHeaders == 1
AstrayBound == strayed => Cardinality(relayed) <= AstrayHeaders

=============================================================================
