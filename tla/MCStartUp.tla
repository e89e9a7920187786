----------------------------- MODULE MCStartUp -----------------------------
(* An instance of StartUp for TLC: a database of an earlier version with one *)
(* event or none, three events in the file and two that are recorded later,  *)
(* over three days of two hours each.                                        *)
EXTENDS StartUp
CONSTANTS c1, c2, gpt, llama, oldGpt, oldLlama, p1, p2

MCTimeOf == <<0, 1, 3, 4, 8, 9>>
MCClientOf == <<c1, c1, c2, c1, c1, c2>>
MCSuccessful == {1, 3, 5}
MCStored == {{}, {1}}
MCInFile == {2, 3, 4}
MCModelOf == [k \in {oldGpt, oldLlama} |-> IF k = oldGpt THEN gpt ELSE llama]
\* llama has a colon in its name.
MCKeysWithColon == <<oldGpt, oldLlama, llama>>
NoPrices == [k \in {gpt, llama, oldGpt, oldLlama} |-> NoPrice]
MCStoredPrices == {NoPrices, [NoPrices EXCEPT ![gpt] = p1, ![oldGpt] = p2]}
MCPricesInFile == [k \in {gpt, llama} |-> p1]
=============================================================================
