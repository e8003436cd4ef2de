------------------------------- MODULE MCLexer -------------------------------
(* Sources for Lexer: every short one made of pieces that meet all branches *)
(* of the scan, and programs written out from their tokens in several       *)
(* layouts.                                                                 *)
EXTENDS Lexer

CONSTANT MaxPieces

(* The sequences of s one after the other.                                  *)
Joined(s) == LET join[n \in 0..Len(s)] == IF n = 0 THEN <<>> ELSE join[n - 1] \o s[n]
             IN  join[Len(s)]

Include == <<"$", "I", "N", "C", "L", "U", "D", "E">>
MCKeywords == {Rem, <<"I", "F">>, <<"M", "I", "D", "$">>, Include}

--------------------------------------------------------------------------------
Pieces ==
    {<<c>> : c \in {"1", "E", "H", "_", " ", LF, CR, Quote, "'", ".", ":", "<", "=", "&", "$", "#"}}
    \cup {Rem, <<"M", "I", "D">>}

(* Those in which what has been read matters for what follows.              *)
KeyPieces == {<<c>> : c \in {"1", "E", "_", " ", LF, Quote, ".", ":", "&", "$"}}

PieceSources ==
    {[chars |-> Joined(p), written |-> Unclaimed] :
        p \in UNION {[1..n -> Pieces] : n \in 0..MaxPieces} \cup [1..MaxPieces + 1 -> KeyPieces]}

--------------------------------------------------------------------------------
(* Tokens as they are written, and as the lexer should see them.            *)
Item(kind, text, value) == [text |-> text, token |-> <<kind, value>>]
Same(kind, text) == Item(kind, text, text)

Name_ == Same("IDENT", <<"A", "_">>)

Items ==
    { Name_, Item("IDENT_STR", <<"A", "$">>, <<"A">>),
      Same("KEYWORD", <<"M", "I", "D", "$">>), Same("KEYWORD", Include),
      Same("INTEGER", <<"1", "2">>), Item("LONG", <<"7", "&">>, <<"7">>),
      Same("INTEGER", MaxInteger), Same("LONG", <<"3", "2", "7", "6", "8">>),
      Same("LONG", MaxLong), Same("SINGLE", <<"2", "1", "4", "7", "4", "8", "3", "6", "4", "8">>),
      Same("SINGLE", <<".", "5", "E", "-", "3">>), Same("DOUBLE", <<"1", "D", "2">>),
      Item("INTEGER", <<"&", "H", "0", "F", "F", "F", "F">>, <<"0", "F", "F", "F", "F">>),
      Item("LONG", <<"&", "1", "0", "0", "0", "0", "0">>, <<"1", "0", "0", "0", "0", "0">>),
      Item("STRING", <<Quote, "a", Quote, Quote, "_", Quote>>, <<"a", Quote, "_">>),
      Same("OPERATOR", <<"<", ">">>) }

Op(c)     == Same("OPERATOR", <<c>>)
If        == Same("KEYWORD", <<"I", "F">>)
Name      == Same("IDENT", <<"B">>)
Number    == Same("LINENO", <<"1", "0">>)
Label     == Item("LABEL", <<"L", " ", ":">>, <<"L">>)
Eol       == Item("EOL", <<LF>>, <<>>)
Comment   == Item("REM", <<"'", "x", "_">>, <<>>)
Remark    == Item("REM", Rem \o <<" ", ":">>, Rem)

Gaps == {<<" ">>, <<"\t", " ">>, <<" ", "_", " ", LF>>, <<" ", "_", CR, LF, " ">>}
Eols == {<<LF>>, <<" ", CR, LF>>, <<CR, " ", LF>>}

Written(items, gap, eol) ==
    [chars   |-> Joined([j \in 1..Len(items) |->
                    IF items[j].token[1] = "EOL" THEN eol ELSE items[j].text \o gap]),
     written |-> [j \in 1..Len(items) |-> items[j].token] \o <<<<"EOF", <<>>>>>>]

Lines == {<<Number>>, <<Number, Label>>, <<Label, Op(":")>>, <<If>>, <<Number, Name>>}
Rests == {<<>>, <<Op(":"), Label, Name>>, <<Op(":"), If>>, <<Comment>>, <<Op(":"), Remark>>}

(* A name alone in its statement would be a label, whatever was meant.      *)
Programs ==
    {l \o <<x>> \o r : l \in Lines, x \in Items \ {Name_}, r \in Rests}
    \cup {l \o <<Name_>> \o r : l \in {<<If>>, <<Number, Name>>}, r \in Rests}

WrittenSources ==
    {Written(p \o <<Eol, Number, Name, Eol>>, <<" ">>, e) : p \in Programs, e \in Eols}
    \cup
    {Written(<<If, x, y, Eol, Name, Eol>>, g, <<LF>>) : x \in Items, y \in Items, g \in Gaps}

MCSources == PieceSources \cup WrittenSources

================================================================================
