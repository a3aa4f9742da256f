------------------------------- MODULE MCMyFS -------------------------------
(* Model-checking instance of MyFS: "b_long" is a name whose first         *)
(* MAX_FILENAME - 1 characters are "b".                                    *)
EXTENDS MyFS

MCNames == {"a", "b", "b_long"}

MCStoredName == [n \in MCNames |-> IF n = "b_long" THEN "b" ELSE n]

MCNoName == ""

\* One block, two blocks, and part of the second block of a file.
MCWriteArgs == {<<0, 2>>, <<1, 3>>, <<2, 1>>}

\* Nothing, less than a block, and minus two blocks, which makes a region begin
\* at block -1 when the file begins at block 1.
MCShrinkArgs == {0, 1, -5}

\* A write that extends a file, or a shrink below zero blocks, but not both.
MCOneOfBoth == grown + negative <= 1
=============================================================================
