--------------------------- MODULE MCRecursiveScanner ---------------------------
(***************************************************************************)
(* The scanner with three entry points, the last two of which a scan from  *)
(* the first may reach before their turn comes.                            *)
(***************************************************************************)
EXTENDS RecursiveScanner

ThreeSeeds == <<1, 2, 4>>

===============================================================================
