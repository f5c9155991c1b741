------------------------------- MODULE MCPrintk -------------------------------
(***************************************************************************)
(* A screen of 4 by 2 characters and what is printed on it.                *)
(***************************************************************************)
EXTENDS Printk

AllChars ==
    ToSet(DigitChars) \cup {NUL, BS, " ", "+", "-", "%", "x", "b", "\t", "\n", "a", "q", "z", "H"}

Lit(s) == [i \in DOMAIN s |-> [lit |-> s[i]]]
Script(prints, x, y, handlers) == [prints |-> prints, x |-> x, y |-> y, handlers |-> handlers]

\* Start-up, with interrupts off: one conversion at a time.
Conv(letter, flags, width, precision, long, num) ==
    [conv |-> letter, flags |-> flags, width |-> width, precision |-> precision,
     long |-> long, num |-> num]

FlagChoices == {{}, {"ZEROPAD"}, {"LEFT"}, {"PLUS"}, {"SPACE"}, {"SPECIAL"},
                {"ZEROPAD", "LEFT"}, {"ZEROPAD", "PLUS"}, {"ZEROPAD", "SPECIAL"},
                {"LEFT", "SPACE"}, {"LEFT", "SPECIAL"}, {"PLUS", "SPACE", "SPECIAL", "ZEROPAD"}}

Longs == {-128, -127, -1, 0, 9, 16, 127}
Ints == {-8, -1, 0, 7}
Conversions ==
    {Conv(l, f, w, p, TRUE, n) :
        l \in {"d", "u", "x", "o"}, f \in FlagChoices, w \in {None, 4}, p \in {None, 3}, n \in Longs}
    \cup {Conv(l, f, 5, None, FALSE, n) : l \in {"d", "u", "x"}, f \in FlagChoices, n \in Ints}
    \cup {Conv("p", {}, w, None, TRUE, n) : w \in {None, 4}, n \in {0, 127}}
    \cup {Conv("d", f, w, p, TRUE, -9) : f \in FlagChoices, w \in {-4, 2}, p \in {-2, 1}}

Others ==
    {<<[other |-> c]>> : c \in {"%", "q", NUL}}
    \cup {<<[conv |-> "s", flags |-> f, width |-> w, precision |-> p, str |-> <<"a", "b">>]>> :
             f \in {{}, {"LEFT"}}, w \in {None, 3}, p \in {None, 1}}
    \cup {<<[conv |-> "c", flags |-> f, width |-> w, precision |-> None, chr |-> "a"]>> :
             f \in {{}, {"LEFT"}}, w \in {None, 3}}

\* A text that just fits the buffer with its NUL, and one that does not.
Wide(w) == <<[conv |-> "s", flags |-> {}, width |-> w, precision |-> None, str |-> <<"a">>]>>

StartUp ==
    {Script(<<[fmt |-> <<c>>]>>, 0, 0, FALSE) : c \in Conversions}
    \cup {Script(<<[fmt |-> f]>>, 0, 0, FALSE) : f \in Others}
    \cup {Script(<<[hex |-> i], [bin |-> i]>>, 0, 0, FALSE) : i \in {5, 127}}
    \cup {Script(<<[ch |-> BS]>>, x, y, FALSE) : x \in 0 .. 3, y \in 0 .. 1}
    \cup {Script(<<[fmt |-> Wide(w)], [fmt |-> Lit(<<"z">>)]>>, 0, 0, FALSE) :
             w \in {BufSize - 1, BufSize}}

\* Later, with handlers in between: two prints with every kind of character, from
\* cells that lead to every edge, to a tab stop inside a row and to one at its end.
From(text, cells) ==
    {Script(<<[fmt |-> Lit(text)], [fmt |-> Lit(<<"z">>)]>>, c[1], c[2], TRUE) : c \in cells}
Running ==
    From(<<"a", "\t">>, {<<0, 0>>, <<2, 1>>})
    \cup From(<<"\n", "b">>, {<<3, 0>>, <<1, 1>>})
    \cup From(<<BS, "b">>, {<<0, 0>>, <<0, 1>>, <<2, 0>>})

AllScripts == StartUp \cup Running
Handlers == {[fmt |-> Lit(t)] : t \in {<<"\t", "H">>, <<BS, "\n">>}}
=============================================================================
