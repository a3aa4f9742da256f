------------------------------ MODULE MCUsers -------------------------------
(* Model-checking instance of Users: "a" is what is left of "a_long" when   *)
(* it is cut, and "f" of "f_long".                                         *)
EXTENDS Users

MCNames == {"root", "a", "a_long"}

MCStoredName == [n \in MCNames |-> IF n = "a_long" THEN "a" ELSE n]

MCFiles == {"f", "f_long", "g"}

MCStoredFile == [f \in Files |-> IF f = "f_long" THEN "f" ELSE f]

\* 0644 and 0600.
MCModes == {Mode0644, [owner |-> {"r", "w"}, group |-> {}, other |-> {}]}

\* A state without what nothing will read again: deleted groups and files, names and
\* memberships of deleted users.
Live ==
    <<[i \in UserSlots |-> IF user_table[i].active THEN user_table[i] ELSE user_table[i].gid],
      [i \in GroupSlots |-> IF group_table[i].active THEN group_table[i] ELSE ZeroGroup],
      [i \in Entries |-> IF file_table[i].used THEN file_table[i] ELSE ZeroFile],
      disk = tables, shell, adding, deleted>>
=============================================================================
