--------------------------- MODULE MCPersistence ---------------------------
(***************************************************************************)
(* A flash of two sectors of two pages of two bytes; images that cover part*)
(* of a page, a whole sector, or parts of both sectors.  Two secrets, both *)
(* styles, one text that does not parse.                                   *)
(***************************************************************************)
EXTENDS Persistence

ImgA == << {1}, {0}, {1} >>
ImgB == << {}, {0, 1}, {0}, {} >>
MCFactory == [x \in Addr |-> IF x < 4 THEN ImgB[x + 1] ELSE {x % 2}]
MCFiles == { ImgA, ImgB, << >> }
MCRequests == {0, 1, 3, 17}
T(secret, style, body) == [secret |-> secret, style |-> style, body |-> body]
MCFirst == T("s1", "block", "a")
MCTexts == { MCFirst, T("s2", "block", "a"), T("***", "inline", "a"),
             T("s2", "inline", "b"), T("s1", "block", "bad") }
MCBroken == {"bad"}
=============================================================================
