---------------------------- MODULE MCSundaySearch ----------------------------
(* SundaySearch for "\r\n\r\n", which is all that connection.cpp asks for. *)
EXTENDS SundaySearch

CONSTANTS cr, lf, ascii, high

MCChars    == {cr, lf, ascii, high}
MCNegative == {high}
MCUntil    == <<cr, lf, cr, lf>>
===============================================================================
