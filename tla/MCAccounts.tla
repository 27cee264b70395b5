----------------------------- MODULE MCAccounts -----------------------------
(* Instances of Accounts for TLC.                                          *)
EXTENDS Accounts, TLC

\* "ann" and "ANN" differ in case only.
FoldCase == "ann" :> "ann" @@ "ANN" :> "ann" @@ "bob" :> "bob" @@ "cat" :> "cat"
\* No upstream provider.
NoSubject == <<>>
NoName == <<>>
NoEmail == <<>>
\* An address and a token are asked for.
Closed == {"registration", "address", "token"}
\* Registration beside one user; changes of address and recovery for two.
SomeSites == {<<Closed, {"bob"}, 1>>, <<Closed, {"bob"}, 2>>,
              <<{"email"}, {"bob", "cat"}, 0>>, <<{"recovery"}, {"bob", "cat"}, 0>>}
Symmetry == Permutations(Regs)
=============================================================================
