----------------------------- MODULE MCImageRef -----------------------------
(* Constants of ImageRef for TLC: names and tags of up to three characters *)
(* over a letter, the hyphen and the colon; names of at most two accepted  *)
(* (NameLimit stands for 20); "r" stands for                               *)
(* localhost/postgres-age-operator, "L" for "latest".  The API key is     *)
(* unset, "k", or "k k"; headers have up to four characters over "B"      *)
(* (the word Bearer), the space and "k".                                   *)
EXTENDS ImageRef

MCChars == {"a", "-", ":"}
MCRepo == << "r" >>
MCLatest == << "L" >>
MCApiKeys == {<<>>, <<"k">>, <<"k", " ", "k">>}
MCHeaderChars == {"B", " ", "k"}

=============================================================================
