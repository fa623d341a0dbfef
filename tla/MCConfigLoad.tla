---------------------------- MODULE MCConfigLoad ----------------------------
(* Texts for the run of ConfigLoad.                                        *)
EXTENDS ConfigMeaning

StringSet == {"pi", "stm", "scaling", "spi_bus", "spi_word_width", "vib_scale",
              "run_state", "block_rows", "stop"}

Values == ("1" :> 1) @@ ("13" :> 13) @@ ("-5" :> -5)

NumberSet == DOMAIN Values

\* Every tier and kind of field, a nested object, blanks.
Full == <<"{", "blank", "pi", ":", "{", "spi_bus", ":", "1", ",",
          "scaling", ":", "{", "vib_scale", ":", "13", "}", "}", ",",
          "stm", ":", "{", "run_state", ":", "stop", "}", "blank", "}", "blank">>

\* A shorter one that differs in a field of each tier.
Short == <<"BOM", "{", "stm", ":", "{", "run_state", ":", "1", ",", "block_rows",
           ":", "13", "}", "}">>

\* The same with other values: of equal size, so that pieces of both may fit.
Other == <<"BOM", "{", "stm", ":", "{", "run_state", ":", "stop", ",", "block_rows",
           ":", "1", "}", "}">>

\* One invalid field after a valid tier.
LastFieldBad == <<"{", "pi", ":", "{", "spi_bus", ":", "1", "}", ",",
                  "stm", ":", "{", "block_rows", ":", "-5", "}", "}">>

\* A name given twice, and text after the document.
Twice == <<"{", "pi", ":", "{", "spi_bus", ":", "1", ",", "spi_bus", ":", "13",
           "}", "}", "junk">>

Written == {Short, Other, LastFieldBad, Twice}

\* Before the first and before the second field of a tier.
Cuts == {4, 9}

\* Single tokens put in the place of another.
Odd == {"{", "}", "[", "]", ",", ":", "blank", "null", "pi", "13",
        "badstring", "badnumber", "junk", "BOM"}

Corrupted == UNION {{ReplaceAt(t, i, x) : i \in DOMAIN t, x \in Odd} : t \in {Full, Twice}}

\* All texts of up to three tokens, of five that an object may have, and nested
\* arrays.
Tiny == UNION {[1 .. n -> {"{", "}", "[", "]", ",", ":", "blank", "pi", "1", "null", "BOM"}] : n \in 1 .. 3}

Members == [1 .. 5 -> {"{", "}", ",", ":", "pi", "1"}]

Nested == UNION {[1 .. n -> {"[", "]", ","}] : n \in 4 .. 7}

Fixed == (Corrupted \cup Tiny \cup Members \cup Nested) \ Written
=============================================================================
