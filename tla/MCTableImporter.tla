-------------------------- MODULE MCTableImporter --------------------------
EXTENDS TableImporter

\* A row of the file, and what becomes of it on the server.
R(id, notation, fate) == [id |-> id, notation |-> notation, fate |-> fate]
F(table, check, rows) == [table |-> table, check |-> check, rows |-> rows]

\* A file for each way an import can go: stored, refused at the second row,
\* failing at the second save, refused by the page, unknown, and without rows.
AllFiles ==
    {F("Content", "valid", <<R(1, FALSE, "good")>>),
     F("Content", "valid", <<R(1, TRUE, "good"), R(2, TRUE, "refused")>>),
     F("Content", "invalid", <<R(1, FALSE, "good"), R(2, FALSE, "unsavable")>>),
     F("Formulas", "valid", <<R(1, FALSE, "good"), R(2, FALSE, "unsavable")>>),
     F("", "invalid", <<R(None, FALSE, "good")>>),
     F("Formulas", "throws", <<>>)}

\* A formula with an id of the file, stored before.
OldFormulas ==
    {[by |-> None, at |-> i, row |-> R(i, FALSE, "good"), table |-> "Formulas",
      id |-> i, ms |-> None] : i \in {1}}
=============================================================================
