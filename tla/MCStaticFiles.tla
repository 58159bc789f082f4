---------------------------- MODULE MCStaticFiles -----------------------------
(***************************************************************************)
(* Configurations and Range headers for model checking StaticFiles.        *)
(***************************************************************************)
EXTENDS StaticFiles

\* Everything on, and nothing.
MCConfigs ==
  {[caching |-> b, range_requests |-> b, directory_listing |-> b, compression |-> b] : b \in BOOLEAN}

\* None, the second byte, everything from it on, and a range that no file has.
MCRanges == {<<>>, <<Num(1), Dash, Num(1)>>, <<Num(1), Dash>>, <<Num(7), Dash, Num(8)>>}

SmallRanges == {<<>>, <<Num(1), Dash>>}
===============================================================================
