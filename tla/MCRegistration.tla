--------------------------- MODULE MCRegistration ---------------------------
EXTENDS Registration, TLC
\* "ann" and "ANN" differ in case only.
FoldCase == "ann" :> "ann" @@ "ANN" :> "ann" @@ "bob" :> "bob"
LinkSubject == "l1" :> "x1" @@ "l2" :> "x2"
ClaimedName == "x1" :> "ann" @@ "x2" :> "ann"
ClaimedEmail == "x1" :> "e1" @@ "x2" :> "none"
\* A provider beside registration by password, the same for a user that the provider
\* knows, and registration that needs a token.
WithBob == {<<{"registration", "upstream"}, {"bob"}, 0>>,
            <<{"upstream"}, {"ann", "bob"}, 0>>,
            <<{"registration", "address", "passwordToken"}, {"bob"}, 1>>}
=============================================================================
