------------------------------- MODULE MCExec -------------------------------
(* Commands over small alphabets for run(): words, blanks, tabs and a     *)
(* double quote, and one without the tab for the shortest counterexample.  *)
EXTENDS Exec

MCChars == {"a", " ", "\t", "\""}
MCQuoteChars == {"a", " ", "\""}
====
