---- MODULE MCHabanaConfig ----
(* Instances of HabanaConfig: files with and without the opt-in.             *)
EXTENDS HabanaConfig

Given == [DefaultConfig EXCEPT !.mode = "word", !.environment = "words"]
MCFirstFiles == {Missing, Refused, Given, [Given EXCEPT !.allow = TRUE]}

\* One option a run, or one run of two options on files as given.
OptionsBounded ==
  \/ Len(sets) <= 1
  \/ runs = 1 /\ \A p \in Paths : files[p] \in {Given, DefaultConfig}
====
