----------------------------- MODULE MCTestCases -----------------------------
(***************************************************************************)
(* An instance of TestCases: what the pages post.                           *)
(***************************************************************************)
EXTENDS TestCases, TLC

Set(c, s) == [cases |-> c, score |-> s]
Form(n, s) == [count |-> n, sets |-> s]
File(c, s) == [at |-> c, side |-> s]

\* Lists that grow and shrink, with the sets of each, one past its end and one
\* of no case.
Lists == {Form(0, <<>>), Form(1, <<Set({0}, 1)>>), Form(2, <<Set({0}, 1), Set({0, 1}, 2)>>),
          Form(1, <<Set({1}, 1)>>), Form(1, <<Set({}, 1)>>)}
Pairs == {<<File(0, "input"), File(0, "output")>>, <<File(1, "input")>>}

\* Requests differ in nothing but their names.
Symmetry == Permutations(Requests)
=============================================================================
