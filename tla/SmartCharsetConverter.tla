----------------------- MODULE SmartCharsetConverter -----------------------
(* The converter a file is read through (lapiz-smart-charset-converter.c):   *)
(* it settles on the first of its candidates that the first block it is      *)
(* given can be.                                                             *)
EXTENDS Charsets

\* A charset's decoding, as its converter produces it in UTF-8.
Char(b) == CASE b = "C2" -> <<"C2", "83">> [] b = "C3" -> <<"C3", "83">>
             [] b = "83" -> <<"C2", "A9">> [] b = "A9" -> <<"C3", "A9">>
             [] OTHER    -> <<b>>
Decodable(enc, b) == enc = LATIN \/ b \notin Lead \union Trail

\* try_convert, which fails on nothing and on what the charset has no character for.
TryConvert(enc, block) == block # <<>> /\ \A i \in DOMAIN block : Decodable(enc, block[i])

Accepts(enc, block) ==
    IF enc = UTF8 THEN Valid(block) \/ Len(block) - ValidLength(block) < CharLen
                  ELSE TryConvert(enc, block)

\* guess_encoding: an empty block is UTF-8, and a single candidate is not tried.
GuessEncoding(candidates, block) ==
    IF block = <<>> THEN UTF8
    ELSE IF Len(candidates) = 1 THEN candidates[1]
    ELSE LET fit == {i \in DOMAIN candidates : Accepts(candidates[i], block)}
         IN  IF fit = {} THEN NoEncoding ELSE candidates[Min(fit)]

(***************************************************************************)
(* One conversion: as much of the block as the charset can take, at least   *)
(* its first byte; UTF-8 goes through as it is.                             *)
(***************************************************************************)
Convertible(enc, block) ==
    IF enc = UTF8 THEN Len(block)
    ELSE Max({n \in 0..Len(block) : \A i \in 1..n : Decodable(enc, block[i])})

Converted(enc, block) ==
    LET made[k \in 0..Len(block)] ==
            IF k = 0 THEN <<>> ELSE made[k - 1] \o Char(block[k])
    IN  IF enc = UTF8 THEN block ELSE made[Len(block)]
=============================================================================
