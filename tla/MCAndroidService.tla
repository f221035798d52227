-------------------------- MODULE MCAndroidService --------------------------
(* A small instance of AndroidService: a text, an image as the desktop       *)
(* encodes it and the same one as the phone does.                            *)
EXTENDS AndroidService

MCTexts == {"x"}
MCImages == {"png", "reencoded"}
MCEncoded(v) == IF v = "png" THEN "reencoded" ELSE v

=============================================================================
