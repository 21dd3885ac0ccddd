----------------------------- MODULE MCHeaders -----------------------------
(***************************************************************************)
(* An instance of Headers for TLC: block b1, and two forks on it.          *)
(***************************************************************************)
EXTENDS Headers, TLC

TheParent == "b1" :> "root" @@ "c2" :> "b1" @@ "d2" :> "b1" @@ "e3" :> "d2"
TheNumber == "b1" :> 1 @@ "c2" :> 2 @@ "d2" :> 2 @@ "e3" :> 3
=============================================================================
