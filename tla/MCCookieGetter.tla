--------------------------- MODULE MCCookieGetter ----------------------------
(* CookieGetter for TLC: two callers, one change of the challenge.           *)
EXTENDS CookieGetter

CONSTANTS t1, t2
MCOne == {t1}
MCTwo == {t1, t2}
=============================================================================
