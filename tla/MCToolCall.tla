------------------------------ MODULE MCToolCall ------------------------------
(***************************************************************************)
(* Calls of every kind of request: structured or natural, accepted by the  *)
(* agent or not, with string arguments or with one that is coerced.        *)
(***************************************************************************)
EXTENDS ToolCall

CONSTANTS opnsense, wireguard

MCRequests ==
  [mode : {"structured"}, order : {<<opnsense>>}, accepted : BOOLEAN, typed : BOOLEAN]
    \cup [mode : {"natural"}, order : {<<wireguard, opnsense>>}, accepted : {TRUE},
          typed : BOOLEAN]
=============================================================================
