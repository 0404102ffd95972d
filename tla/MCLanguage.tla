------------------------------- MODULE MCLanguage -------------------------------
(***************************************************************************)
(* Commands for Language.  A command is written as words; two words that   *)
(* both start like a name are kept apart by a space, ":=" is two           *)
(* characters, and everything else touches.                                *)
(***************************************************************************)
EXTENDS Agreement
LOCAL INSTANCE SequencesExt
Lex == INSTANCE Lexer

Text(words) ==
  FlattenSeq([i \in DOMAIN words |->
    IF words[i] = ":=" THEN <<":", "=">>
    ELSE IF i > 1 /\ {words[i], words[i - 1]} \cap Lex!NotAlNums = {} THEN <<" ", words[i]>>
    ELSE <<words[i]>>])

Words ==
  [\* what a session starts with
   declare  |-> <<"|", "n", ":", "Int", "a", ":", "Any", "|", "n", ":=", "1", ".",
                  "a", ":=", "#", "(", "1", " ", "2", " ", "3", ")">>,
   counter  |-> <<"object", "Counter", "{", "|", "v", ":", "Int", "|",
                  "inc", "[", "v", ":=", "v", "+", "1", ".", "^", "v", "]",
                  "set", ":", "x", "[", "v", ":=", "x", ".", "^", "self", "]",
                  "by", ":", "k", "[", "|", "w", ":", "Int", "|", "w", ":=", "v", "*", "k", ".", "^", "w", "]", "}", ".",
                  "let", "c", ":=", "Counter", "new">>,
   compose  |-> <<"object", "Twice", "{", "compose", "Counter", ".",
                  "inc", "[", "super", "inc", ".", "^", "super", "inc", "]", "}", ".", "n">>,
   cell     |-> <<"object", "Cell", "{", "|", "b", ":", "Any", "|",
                  "init", "[", "b", ":=", "0", ".", "^", "self", "]",
                  "put", ":", "x", "[", "b", ":=", "x", ".", "^", "self", "]",
                  "run", "[", "^", "b", "value", "]", "}", ".",
                  "let", "h", ":=", "Cell", "new">>,
   \* variables and their types
   assign   |-> <<"n", ":=", "n", "+", "1">>,
   mistype  |-> <<"n", ":=", "2", ".", "n", ":=", "true">>,
   redefine |-> <<"|", "n", ":", "Bool", "|", "n">>,
   undefined |-> <<"nope", ".", "1">>,
   undeclared |-> <<"nope", ":=", "1">>,
   float    |-> <<"let", "f", ":=", "n", "/", "4", ".", "f", ":=", "f", "*", "2", "+", "0", ".", "5">>,
   \* sends and cascades
   inc      |-> <<"c", "inc">>,
   cascade  |-> <<"c", "inc", ";", "inc">>,
   inturn   |-> <<"c", "inc", ".", "c", "inc">>,
   chain    |-> <<"h", "put", ":", "c", ";", "put", ":", "[", "n", "]", ";", "run">>,
   unknown  |-> <<"n", ":=", "3", ".", "nil", "foo">>,
   slotfail |-> <<"c", "set", ":", "true">>,
   \* composition
   twice    |-> <<"let", "t", ":=", "Twice", "new", ".", "t", "inc", ".", "t", "by", ":", "n">>,
   own      |-> <<"object", "Odd", "{", "compose", "Cell", ".", "let", "u", ":", "Int", ".",
                  "run", "[", "u", ":=", "u", "+", "1", ".", "^", "super", "run", "+", "u", "]", "}", ".",
                  "Odd", "new", "put", ":", "[", "n", "]", ";", "run">>,
   \* arrays, strings and the rest
   inject   |-> <<"a", "inject", ":", "0", "into", ":", "[", ":", "s", " ", ":", "x", "|", "s", "+", "(", "x", "*", "n", ")", "]">>,
   collect  |-> <<"(", "a", "collect", ":", "[", ":", "x", "|", "a", "at", ":", "1", "put", ":", "x", ".", "x", "+", "n", "]", ")">>,
   detect   |-> <<"a", "detect", ":", "[", ":", "x", "|", "x", ">", "(", "n", "+", "1", ")", "]">>,
   select   |-> <<"(", "a", "select", ":", "[", ":", "x", "|", "x", "=", "n", "]", ")", "size">>,
   index    |-> <<"a", "withIndexDo", ":", "[", ":", "i", " ", ":", "x", "|", "n", ":=", "n", "+", "(", "i", "*", "x", ")", "]", ".", "n">>,
   alter    |-> <<"let", "b", ":=", "a", ".", "b", "at", ":", "1", "put", ":", "9", ".", "a", "at", ":", "1">>,
   beyond   |-> <<"a", "at", ":", "0">>,
   text     |-> <<"(", "(", "'", "/", "'", ",", "#", "c", "asString", ")", "=", "'", "/", "c", "'", ")", "not", "not", "&", "(", "'", "d", "'", "size", "=", "1", ")">>,
   literals |-> <<"a", ":=", "#", "(", "#", "x", " ", "$", "y", " ", "'", "z", "'", "'", "'", " ", "true", " ", "nil", " ", "3", ".", "5", ")", ".",
                  "a", "at", ":", "2", "put", ":", "#", "[", "1", " ", "9", "]", ".", "a">>,
   \* blocks
   closure  |-> <<"[", "|", "k", ":", "Int", " ", "j", ":", "Int", "|", "[", "[", "k", ":=", "k", "+", "n", "]", "value", ".",
                  "j", ":=", "k", "*", "2", "]", "value", ".", "k", "+", "j", "]", "value">>,
   captype  |-> <<"[", "|", "k", ":", "Int", "|", "[", "k", ":=", "true", "]", "value", ".", "k", "]", "value">>,
   full     |-> <<"[", ":", "x", "|", "|", "p", ":", "Int", " ", "q", ":", "Int", " ", "r", ":", "Int", "|",
                  "r", ":=", "x", ".", "p", ":=", "r", "+", "q", ".", "p", "]", "value", ":", "n">>,
   overfull |-> <<"[", ":", "x", "|", "|", "p", ":", "Int", " ", "q", ":", "Int", " ", "r", ":", "Int", " ", "w", ":", "Int", "|",
                  "w", ":=", "x", "+", "1", ".", "x", "]", "value", ":", "n">>,
   letlocal |-> <<"[", ":", "x", "|", "let", "y", ":=", "x", "+", "1", ".", "y", ":=", "y", "+", "n", ".", "^", "y", ".", "0", "]", "value", ":", "3">>,
   loop     |-> <<"[", "n", "<", "3", "]", "whileTrue", ":", "[", "n", ":=", "n", "+", "1", "]", ".", "n">>,
   times    |-> <<"2", "timesRepeat", ":", "[", "c", "inc", "]", ".", "thisContext", ".", "1", "to", ":", "3", "do", ":", "[", ":", "i", "|", "n", ":=", "n", "+", "i", "]", ".", "n">>,
   branch   |-> <<"(", "n", ">", "1", ")", "ifTrue", ":", "[", "c", "inc", "]", "ifFalse", ":", "[", "7", "/", "2", "]">>,
   divide   |-> <<"(", "7", "/", "/", "n", ")", "/", "(", "n", "-", "1", ")">>,
   cleanup  |-> <<"[", "n", ":=", "5", "]", "ensure", ":", "[", "n", ":=", "n", "+", "1", "]", ".", "n">>,
   handled  |-> <<"[", "nil", "foo", ".", "n", ":=", "8", "]", "on", ":", "nil", "do", ":", "[", ":", "e", "|", "n", ":=", "4", "]", ".", "n">>,
   \* closures kept
   hold     |-> <<"h", "put", ":", "[", "[", "n", "]", "value", "]", ".", "h", "run">>,
   holdfail |-> <<"h", "put", ":", "[", "[", "9", "]", "value", "]", ".", "nil", "foo">>,
   run      |-> <<"h", "run">>,
   \* modules
   import   |-> <<"import", "'", "M", "'", ".", "M">>,
   cycle    |-> <<"import", "'", "A", "'", ".", "1">>,
   builtin  |-> <<"import", "'", "Lib", "'", ".", "Lib", "isNil">>,
   absolute |-> <<"import", "'", "/", "M", "'", ".", "n">>,
   clash    |-> <<"|", "M", ":", "Int", "|", "import", "'", "M", "'", ".", "M">>,
   \* what the two treat differently
   broken   |-> <<"(", "1", "+">>,
   interface |-> <<"interface", "Stack", "{", "push", ":", "x", ".", "pop", "}">>,
   slots    |-> <<"object", "{", "x", ":=", "n", "}", "x">>,
   escape   |-> <<"let", "e", ":=", "[", "|", "j", ":", "Int", " ", "k", ":", "Int", "|", "[", "1", "+", "k", "]", "]", "value", ".", "n">>,
   later    |-> <<"let", "e", ":=", "[", "n", "]", ".", "e", "value">>,
   stale    |-> <<"e", "value">>,
   inner    |-> <<"object", "Peek", "{", "compose", "Counter", ".", "at", "[", "^", "[", "self", "inc", "]", "value", "]", "last", "[", "v", ":=", "7", "]", "}", ".",
                  "Peek", "new", "last", ".", "Peek", "new", "at">>,
   extra    |-> <<"[", ":", "x", "|", "|", "q", ":", "Any", "|", "q", "]", "valueWithArguments", ":", "#", "(", "1", " ", "2", ")">>,
   empty    |-> <<"\"", "c", "\"">>,
   caret    |-> <<"^", "n", ".", "n", ":=", "n", "+", "2">>]

MCPrograms == [name \in DOMAIN Words |-> Text(Words[name])]
MCPrelude == <<"declare", "counter", "compose", "cell">>

Path(w) == <<"/sdcard/picoceci/libs/", w, ".", "pc">>
MCCard == (Path("M") :> Text(<<"object", "M", "{", "|", "q", ":", "Int", "|", "get", "[", "^", "q", "]", "}", ".",
                               "object", "Counter", "{", "}">>))
          @@ (Path("A") :> Text(<<"import", "'", "M", "'", ".", "import", "'", "B", "'", ".", "object", "A", "{", "}">>))
          @@ (Path("B") :> Text(<<"import", "'", "A", "'", ".", "object", "B", "{", "}">>))
          @@ (<<"/", "M", ".", "pc">> :> Text(<<"object", "M", "{", "}">>))
MCBuiltins == <<"Lib">> :> Text(<<"object", "Lib", "{", "}", ".", "interface", "Face", "{", "m", "}">>)
=============================================================================
