--------------------------- MODULE MCAppOperations ---------------------------
(***************************************************************************)
(* A controller whose writes need confirming and a mock device, one zone   *)
(* each; the first renders only the static effect.                         *)
(***************************************************************************)
EXTENDS AppOperations

CONSTANTS board, mock

MCTarget   == {<<board, 1>>, <<mock, 1>>}
MCSupports == {<<<<board, 1>>, "static">>, <<<<mock, 1>>, "static">>, <<<<mock, 1>>, "wave">>}
MCSupportsBrightness == {<<<<mock, 1>>, "wave">>}
==============================================================================
