------------------------------ MODULE MCMemory ------------------------------
EXTENDS Memory

Text == [end |-> 2, w |-> FALSE]
Data == [end |-> 3, w |-> TRUE]
OneProgram == {<<Text, Data>>}
Steps == {-3, 3}

\* What a state is up to the names of pages: how many are free and grabbed, and what
\* each process has mapped where.  No operation looks at a page's name.
Shape ==
    <<Cardinality(free), Cardinality(grabbed), panicked,
      [p \in Proc |-> <<proc[p].sz, proc[p].tf # 0, [n \in Nodes |-> proc[p].pt.node[n] # 0],
                       [a \in VA |-> [proc[p].pt.leaf[a] EXCEPT !.pa = 0]]>>]>>
=============================================================================
