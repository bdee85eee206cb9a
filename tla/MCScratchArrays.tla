--------------------------- MODULE MCScratchArrays ---------------------------
(* Small instances of ScratchArrays for TLC. *)
EXTENDS ScratchArrays, TLC

CONSTANTS short, padded, long

\* Strings of 0, 1, 1, 2 and 3 bytes; the padded one is trimmed to the short one.
FiveStrings == {Empty, Blank, short, padded, long}
Lengths ==
    Empty :> 0 @@ Blank :> 1 @@ short :> 1 @@ padded :> 2 @@ long :> 3
Trims ==
    Empty :> Empty @@ Blank :> Empty @@ short :> short @@ padded :> short @@ long :> long

\* Lists of every length up to that of the second array, and entries of every
\* length up to that of its rows.
SomeLists ==
    {<<>>, <<Empty>>, <<short>>, <<padded, Empty>>, <<short, long>>,
     <<padded, short, padded>>, <<Empty, short, Empty, short>>}
===============================================================================
