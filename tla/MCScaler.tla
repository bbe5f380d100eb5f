------------------------------ MODULE MCScaler ------------------------------
(***************************************************************************)
(* The scaler and its switch, for TLC: the keys, what follows an answer    *)
(* of the scaler in the buffer of its request.                             *)
(***************************************************************************)
EXTENDS ScalerAndSwitch

\* The power key, the key of one source and one key of the switch.
OneSource == {<<"power", 0>>, <<"source", 4>>, <<"input", 2>>}

\* Nothing follows the answer.
CleanAnswers == {<<>>}
=============================================================================
