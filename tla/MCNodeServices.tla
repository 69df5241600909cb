--------------------------- MODULE MCNodeServices ---------------------------
(* One node and three blocks with up to three extrinsics, some of which     *)
(* change with the fork; three requests for Ethereum, a key that is replaced*)
(* when the node restarts.                                                  *)
EXTENDS NodeServices

CONSTANTS k1, k2, n1, x1, x2, x3, x4, x5, y1, y2

MCBlocks ==
  [main |-> << <<x1, x2, x3>>, << >>, <<x4, x5>> >>,
   fork |-> << <<x1, x2, x3>>, <<y1>>, <<x4, y2>> >>]

MCRanges == {<<1, 1>>, <<1, 3>>, <<2, 2>>}

File(type, public, readable) == [type |-> type, public |-> public, readable |-> readable]

MCKeystores ==
  {{File("ethk", k1, TRUE), File("avnk", k2, TRUE)}, {File("ethk", k2, TRUE)},
   {File("ethk", k1, FALSE)}}
=============================================================================
